-------------------------- MODULE NetworkToolsProofs --------------------------
(****************************************************************************)
(* What is proved of the tools on the network: the TFTP server of the       *)
(* MEGA65, which keeps one transfer and has no clock, for every card and    *)
(* every modulus of its block numbers; etherload with its DMA load routine, *)
(* for every program, window and loss; and the search for the MEGA65, for   *)
(* every list of interfaces and everything that is sent meanwhile.          *)
(****************************************************************************)
EXTENDS MCNetworkTools, FiniteSetTheorems, WellFoundedInduction, TLAPS

-----------------------------------------------------------------------------
(* Numbers *)

\* The order of the natural numbers, as the library writes it.
Less == OpToRel(<, Nat)

\* A set of numbers has a least one.
LEMMA LeastOf ==
  ASSUME NEW S \in SUBSET Nat, S # {}
  PROVE  \E n \in S : \A m \in S : n <= m
  <1>1. PICK n \in S : \A m \in S : ~ (<<m, n>> \in Less)
    BY NatLessThanWellFounded, WFMin DEF Less
  <1>2. \A m \in S : ~ (m < n)
    BY <1>1 DEF Less, OpToRel
  <1>3. \A m \in S : m \in Nat
    OBVIOUS
  <1> QED
    BY <1>2, <1>3

\* Numbers count modulo w.
LEMMA Division ==
  ASSUME NEW w \in Nat, w > 1, NEW x \in Nat
  PROVE  \E d \in Nat, r \in 0 .. w - 1 : x = w * d + r
  <1> DEFINE S == {y \in Nat : ~ \E d \in Nat, r \in 0 .. w - 1 : y = w * d + r}
  <1> SUFFICES ASSUME S # {} PROVE FALSE
    OBVIOUS
  <1>1. PICK n \in S : \A m \in S : n <= m
    BY LeastOf
  <1>2. n # 0
    <2>1. 0 = w * 0 + 0
      OBVIOUS
    <2> QED
      BY <2>1
  <1>3. n - 1 \in Nat /\ n - 1 \notin S
    BY <1>1, <1>2
  <1>4. PICK d \in Nat, r \in 0 .. w - 1 : n - 1 = w * d + r
    BY <1>3
  <1>5. CASE r < w - 1
    <2>1. n = w * d + (r + 1) /\ r + 1 \in 0 .. w - 1
      BY <1>4, <1>5
    <2> QED
      BY <2>1
  <1>6. CASE r = w - 1
    <2>1. n = w * (d + 1) + 0
      BY <1>4, <1>6
    <2> QED
      BY <2>1
  <1> QED
    BY <1>5, <1>6

\* Division leaves the remainder that is less than the divisor.
LEMMA Remainder ==
  ASSUME NEW w \in Nat, w > 1, NEW d \in Nat, NEW r \in 0 .. w - 1
  PROVE  (w * d + r) % w = r
  OBVIOUS

\* A number and the next one are told apart, modulo w.
LEMMA NextNumber ==
  ASSUME NEW w \in Nat, w > 1, NEW x \in Nat
  PROVE  /\ x % w \in 0 .. w - 1 /\ ((x % w) + 1) % w = (x + 1) % w
         /\ (x + 1) % w # x % w
  <1>1. PICK d \in Nat, r \in 0 .. w - 1 : x = w * d + r
    BY Division
  <1>2. x % w = r
    BY <1>1, Remainder
  <1>3. CASE r < w - 1
    <2>1. x + 1 = w * d + (r + 1) /\ r + 1 \in 0 .. w - 1
      BY <1>1, <1>3
    <2>2. (x + 1) % w = r + 1
      <3>1. (w * d + (r + 1)) % w = r + 1
        BY <2>1, Remainder
      <3> QED
        BY <2>1, <3>1
    <2>3. (r + 1) % w = r + 1
      BY <2>1
    <2> QED
      BY <1>2, <2>2, <2>3
  <1>4. CASE r = w - 1
    <2>1. x + 1 = w * (d + 1) + 0 /\ d + 1 \in Nat
      BY <1>1, <1>4
    <2>2. (x + 1) % w = 0
      <3>1. 0 \in 0 .. w - 1
        OBVIOUS
      <3>2. (w * (d + 1) + 0) % w = 0
        BY <2>1, <3>1, Remainder
      <3> QED
        BY <2>1, <3>2
    <2>3. (r + 1) % w = 0
      <3>1. w = w * 1 + 0
        OBVIOUS
      <3>2. r + 1 = w
        BY <1>4
      <3> QED
        BY <3>1, <3>2, Remainder
    <2> QED
      BY <1>2, <1>4, <2>2, <2>3
  <1> QED
    BY <1>3, <1>4

-----------------------------------------------------------------------------
(* TFTP: types *)

Names == DOMAIN Files \cup {Missing}
Numbers == 0 .. Wrap - 1
FileBlocks == {Tftp!Nothing} \cup [of : DOMAIN Files, k : Nat, short : BOOLEAN]

Questions ==
  [kind : {"read", "write"}, file : Names, port : Nat]
    \cup [kind : {"ack"}, n : Numbers, port : Nat]
Replies ==
  [kind : {"data"}, n : Numbers, block : FileBlocks, port : Nat] \cup [kind : {"error"}, port : Nat]

TftpTypes ==
  /\ t_card \in SUBSET DOMAIN Files
  /\ t_seq_num \in Numbers /\ t_remote_port \in Nat
  /\ t_open \in Names /\ t_pos \in Nat /\ t_sd_buffer \in FileBlocks
  /\ t_at \in {"idle", "reads"} /\ t_file \in Names /\ t_port \in Nat
  /\ t_expected \in Numbers /\ t_got \in Seq(FileBlocks)
  /\ t_last_sent \in Questions \cup {Tftp!Nothing}
  /\ t_toServer \in Seq(Questions) /\ t_toClient \in Seq(Replies)

-----------------------------------------------------------------------------
(* TFTP: the inductive invariant *)

\* Each transfer has a port of its own, and packets arrive in order: behind the
\* first packet of a transfer come no older ones, and nobody is answered whose
\* request has not arrived.
Ports(q, f, remote, port) ==
  /\ remote <= port
  /\ \A i \in 1 .. Len(q) : q[i].port <= port
  /\ \A i \in 1 .. Len(f) : f[i].port <= port
  /\ \A i, j \in 1 .. Len(q) : i < j /\ q[i].port = port => q[j].port = port
  /\ remote = port => \A i \in 1 .. Len(q) : q[i].port = port
  /\ remote # port => \A i \in 1 .. Len(f) : f[i].port # port

PortInv == Ports(t_toServer, t_toClient, t_remote_port, t_port)

\* Requests of this transfer, and acknowledgements of the last block received and
\* the one before it, in this order.
Asked(q, name, g, port) ==
  /\ \A i \in 1 .. Len(q) : q[i].port = port =>
       \/ q[i] = [kind |-> "read", file |-> name, port |-> port] /\ g <= 1
       \/ q[i] = [kind |-> "ack", n |-> (g - 1) % Wrap, port |-> port] /\ g >= 2
       \/ q[i] = [kind |-> "ack", n |-> g % Wrap, port |-> port] /\ g >= 1
  /\ \A i, j \in 1 .. Len(q) :
       i < j /\ q[i] = [kind |-> "ack", n |-> g % Wrap, port |-> port] => q[j] = q[i]

\* The data that come: the last block received again, then the next one.
Sent(f, name, g, p, port) ==
  /\ \A i \in 1 .. Len(f) : f[i].port = port =>
       \E k \in {g, g + 1} :
         /\ k >= 1 /\ k <= p
         /\ f[i] = [kind |-> "data", n |-> k % Wrap, block |-> Tftp!Block(name, k), port |-> port]
  /\ \A i, j \in 1 .. Len(f) :
       i < j /\ f[i].port = port /\ f[j].port = port => f[i].block.k <= f[j].block.k

\* What the server has once the request has arrived.
Serves(g) ==
  /\ t_open = t_file /\ t_pos \in {g, g + 1} /\ t_pos >= 1
  /\ t_seq_num = t_pos % Wrap /\ t_sd_buffer = Tftp!Block(t_file, t_pos)
  /\ t_pos = g + 1 /\ g >= 1 =>
       \A i \in 1 .. Len(t_toServer) :
         t_toServer[i] = [kind |-> "ack", n |-> g % Wrap, port |-> t_port]

\* The files a read is given.
Served == t_card \ Locked

Reading == t_at = "reads" /\ t_last_sent.kind # "write"
Writing == t_at = "reads" /\ t_last_sent.kind = "write"

ReadInv ==
  Reading =>
    LET g == Len(t_got) IN
    /\ t_expected = (g + 1) % Wrap
    /\ t_last_sent = IF g = 0 THEN [kind |-> "read", file |-> t_file, port |-> t_port]
                     ELSE [kind |-> "ack", n |-> g % Wrap, port |-> t_port]
    /\ \A k \in 1 .. g : t_got[k] = Tftp!Block(t_file, k)
    /\ g > 0 => t_file \in Served /\ g <= Files[t_file] /\ t_remote_port = t_port
    /\ Asked(t_toServer, t_file, g, t_port)
    /\ IF t_file \in Served
       THEN /\ Sent(t_toClient, t_file, g, t_pos, t_port)
            /\ t_remote_port = t_port => Serves(g)
       ELSE \A i \in 1 .. Len(t_toClient) :
              t_toClient[i].port = t_port => t_toClient[i].kind = "error"

\* A write gets no further than its request.
WriteInv ==
  Writing =>
    /\ t_got = << >>
    /\ \A i \in 1 .. Len(t_toServer) : t_toServer[i].port = t_port => t_toServer[i].kind = "write"
    /\ \A i \in 1 .. Len(t_toClient) : t_toClient[i].port = t_port => t_toClient[i].kind = "error"

TftpInv == TftpTypes /\ PortInv /\ ReadInv /\ WriteInv /\ Tftp!TransferIsTheFile

-----------------------------------------------------------------------------
(* TFTP: packets that are taken from the network and put on it *)

LEMMA SizesLemma ==
  /\ Wrap \in Nat /\ Wrap > 2 /\ Missing \notin DOMAIN Files
  /\ \A name \in DOMAIN Files : Files[name] \in Nat
  BY TftpSizes DEF Tftp!TftpAssumption

\* Block numbers.
LEMMA NumbersLemma ==
  ASSUME NEW x \in Nat
  PROVE  /\ x % Wrap \in Numbers /\ ((x % Wrap) + 1) % Wrap = (x + 1) % Wrap
         /\ (x + 1) % Wrap # x % Wrap /\ (x + 1) - 1 = x
  <1>1. Wrap \in Nat /\ Wrap > 1
    BY SizesLemma
  <1>2. (x + 1) - 1 = x
    OBVIOUS
  <1>3. x % Wrap \in 0 .. Wrap - 1 /\ ((x % Wrap) + 1) % Wrap = (x + 1) % Wrap
        /\ (x + 1) % Wrap # x % Wrap
    BY <1>1, NextNumber
  <1> QED
    BY <1>2, <1>3 DEF Numbers

\* The rest of the packets.
LEMMA RestLemma ==
  ASSUME NEW S, NEW q \in Seq(S), q # << >>
  PROVE  /\ Tail(q) \in Seq(S) /\ Len(Tail(q)) = Len(q) - 1
         /\ Head(q) = q[1] /\ q[1] \in S /\ 1 \in 1 .. Len(q)
         /\ \A i \in 1 .. Len(Tail(q)) : Tail(q)[i] = q[i + 1] /\ i + 1 \in 1 .. Len(q)
  OBVIOUS

LEMMA OneMore ==
  ASSUME NEW S, NEW q \in Seq(S), NEW m \in S
  PROVE  /\ Append(q, m) \in Seq(S) /\ Len(Append(q, m)) = Len(q) + 1
         /\ Append(q, m)[Len(q) + 1] = m
         /\ \A i \in 1 .. Len(q) : Append(q, m)[i] = q[i]
         /\ \A i \in 1 .. Len(q) + 1 : i \in 1 .. Len(q) \/ i = Len(q) + 1
  OBVIOUS

LEMMA ServedFiles ==
  TftpTypes => Served \subseteq DOMAIN Files /\ Missing \notin Served
  BY SizesLemma DEF TftpTypes, Served

LEMMA BlockType ==
  ASSUME NEW name \in DOMAIN Files, NEW k \in Nat
  PROVE  /\ Tftp!Block(name, k) \in FileBlocks /\ Tftp!Block(name, k).k = k
         /\ Tftp!Block(name, k).short = (k > Files[name])
  BY DEF Tftp!Block, FileBlocks

\* A packet that is lost, or received, breaks no order.
LEMMA TakenKeeps ==
  ASSUME NEW q \in Seq(Questions), NEW f \in Seq(Replies), NEW port \in Nat, NEW remote \in Nat
  PROVE  /\ Ports(q, f, remote, port) /\ q # << >> => Ports(Tail(q), f, remote, port)
         /\ Ports(q, f, remote, port) /\ f # << >> => Ports(q, Tail(f), remote, port)
         /\ \A name, g : Asked(q, name, g, port) /\ q # << >> => Asked(Tail(q), name, g, port)
         /\ \A name, g, p : Sent(f, name, g, p, port) /\ f # << >> => Sent(Tail(f), name, g, p, port)
  <1>1. ASSUME q # << >>, Ports(q, f, remote, port)
        PROVE  Ports(Tail(q), f, remote, port)
    <2>1. /\ Len(Tail(q)) = Len(q) - 1
          /\ \A i \in 1 .. Len(Tail(q)) : Tail(q)[i] = q[i + 1] /\ i + 1 \in 1 .. Len(q)
      BY <1>1, RestLemma
    <2>2. ASSUME NEW i \in 1 .. Len(Tail(q)), NEW j \in 1 .. Len(Tail(q)), i < j,
                 Tail(q)[i].port = port
          PROVE  Tail(q)[j].port = port
      <3>1. i + 1 \in 1 .. Len(q) /\ j + 1 \in 1 .. Len(q) /\ i + 1 < j + 1
        BY <2>1, <2>2
      <3> QED
        BY <1>1, <2>1, <2>2, <3>1 DEF Ports
    <2>3. \A i \in 1 .. Len(Tail(q)) : Tail(q)[i].port <= port
      BY <1>1, <2>1 DEF Ports
    <2>4. remote = port => \A i \in 1 .. Len(Tail(q)) : Tail(q)[i].port = port
      BY <1>1, <2>1 DEF Ports
    <2> HIDE <2>1
    <2> QED
      BY <1>1, <2>2, <2>3, <2>4 DEF Ports
  <1>2. ASSUME f # << >>, Ports(q, f, remote, port)
        PROVE  Ports(q, Tail(f), remote, port)
    <2>1. \A i \in 1 .. Len(Tail(f)) : Tail(f)[i] = f[i + 1] /\ i + 1 \in 1 .. Len(f)
      BY <1>2, RestLemma
    <2> QED
      BY <1>2, <2>1 DEF Ports
  <1>3. ASSUME q # << >>, NEW name, NEW g, Asked(q, name, g, port)
        PROVE  Asked(Tail(q), name, g, port)
    <2>1. /\ Len(Tail(q)) = Len(q) - 1
          /\ \A i \in 1 .. Len(Tail(q)) : Tail(q)[i] = q[i + 1] /\ i + 1 \in 1 .. Len(q)
      BY <1>3, RestLemma
    <2>2. ASSUME NEW i \in 1 .. Len(Tail(q)), NEW j \in 1 .. Len(Tail(q)), i < j,
                 Tail(q)[i] = [kind |-> "ack", n |-> g % Wrap, port |-> port]
          PROVE  Tail(q)[j] = Tail(q)[i]
      <3>1. i + 1 \in 1 .. Len(q) /\ j + 1 \in 1 .. Len(q) /\ i + 1 < j + 1
        BY <2>1, <2>2
      <3> QED
        BY <1>3, <2>1, <2>2, <3>1 DEF Asked
    <2>3. \A i \in 1 .. Len(Tail(q)) : Tail(q)[i].port = port =>
            \/ Tail(q)[i] = [kind |-> "read", file |-> name, port |-> port] /\ g <= 1
            \/ Tail(q)[i] = [kind |-> "ack", n |-> (g - 1) % Wrap, port |-> port] /\ g >= 2
            \/ Tail(q)[i] = [kind |-> "ack", n |-> g % Wrap, port |-> port] /\ g >= 1
      BY <1>3, <2>1 DEF Asked
    <2> HIDE <2>1
    <2> QED
      BY <2>2, <2>3 DEF Asked
  <1>4. ASSUME f # << >>, NEW name, NEW g, NEW p, Sent(f, name, g, p, port)
        PROVE  Sent(Tail(f), name, g, p, port)
    <2>1. /\ Len(Tail(f)) = Len(f) - 1
          /\ \A i \in 1 .. Len(Tail(f)) : Tail(f)[i] = f[i + 1] /\ i + 1 \in 1 .. Len(f)
      BY <1>4, RestLemma
    <2>2. ASSUME NEW i \in 1 .. Len(Tail(f)), NEW j \in 1 .. Len(Tail(f)), i < j,
                 Tail(f)[i].port = port, Tail(f)[j].port = port
          PROVE  Tail(f)[i].block.k <= Tail(f)[j].block.k
      <3>1. i + 1 \in 1 .. Len(f) /\ j + 1 \in 1 .. Len(f) /\ i + 1 < j + 1
        BY <2>1, <2>2
      <3> QED
        BY <1>4, <2>1, <2>2, <3>1 DEF Sent
    <2>3. ASSUME NEW i \in 1 .. Len(Tail(f)), Tail(f)[i].port = port
          PROVE  \E k \in {g, g + 1} :
                   /\ k >= 1 /\ k <= p
                   /\ Tail(f)[i] = [kind |-> "data", n |-> k % Wrap,
                                    block |-> Tftp!Block(name, k), port |-> port]
      BY <1>4, <2>1, <2>3 DEF Sent
    <2> QED
      BY <2>2, <2>3 DEF Sent
  <1> QED
    BY <1>1, <1>2, <1>3, <1>4

\* What the client sends goes behind what it has sent before.
LEMMA AskingKeeps ==
  ASSUME NEW q \in Seq(Questions), NEW f \in Seq(Replies), NEW port \in Nat, NEW remote \in Nat,
         NEW m \in Questions, m.port = port, Ports(q, f, remote, port)
  PROVE  Ports(Append(q, m), f, remote, port)
  <1> DEFINE p == Append(q, m)
  <1>1. /\ Len(p) = Len(q) + 1 /\ p[Len(q) + 1] = m /\ \A i \in 1 .. Len(q) : p[i] = q[i]
        /\ \A i \in 1 .. Len(p) : i \in 1 .. Len(q) \/ i = Len(q) + 1
    BY OneMore
  <1> HIDE DEF p
  <1>2. ASSUME NEW i \in 1 .. Len(p), NEW j \in 1 .. Len(p), i < j, p[i].port = port
        PROVE  p[j].port = port
    <2>1. CASE j \in 1 .. Len(q)
      BY <1>1, <1>2, <2>1 DEF Ports
    <2> QED
      BY <1>1, <2>1
  <1>3. \A i \in 1 .. Len(p) : p[i].port <= port
    BY <1>1 DEF Ports
  <1>4. remote = port => \A i \in 1 .. Len(p) : p[i].port = port
    BY <1>1 DEF Ports
  <1> QED
    BY <1>2, <1>3, <1>4 DEF Ports, p

\* The last packet is sent again.
LEMMA AskedAgain ==
  ASSUME NEW q \in Seq(Questions), NEW name \in Names, NEW g \in Nat, NEW port \in Nat,
         Asked(q, name, g, port),
         NEW m \in Questions,
         m = IF g = 0 THEN [kind |-> "read", file |-> name, port |-> port]
             ELSE [kind |-> "ack", n |-> g % Wrap, port |-> port]
  PROVE  Asked(Append(q, m), name, g, port)
  <1> DEFINE p == Append(q, m)
  <1>1. /\ Len(p) = Len(q) + 1 /\ p[Len(q) + 1] = m /\ \A i \in 1 .. Len(q) : p[i] = q[i]
        /\ \A i \in 1 .. Len(p) : i \in 1 .. Len(q) \/ i = Len(q) + 1
    BY OneMore
  <1> HIDE DEF p
  <1>2. ASSUME NEW i \in 1 .. Len(p), NEW j \in 1 .. Len(p), i < j,
               p[i] = [kind |-> "ack", n |-> g % Wrap, port |-> port]
        PROVE  p[j] = p[i]
    <2>1. i \in 1 .. Len(q) /\ p[i] = q[i]
      BY <1>1, <1>2
    <2>2. g >= 1
      <3> SUFFICES ASSUME g = 0 PROVE FALSE
        OBVIOUS
      <3> QED
        BY <1>2, <2>1 DEF Asked
    <2>3. CASE j \in 1 .. Len(q)
      BY <1>1, <1>2, <2>1, <2>3 DEF Asked
    <2>4. CASE j = Len(q) + 1
      BY <1>1, <1>2, <2>2, <2>4
    <2> QED
      BY <1>1, <2>3, <2>4
  <1>3. ASSUME NEW i \in 1 .. Len(p), p[i].port = port
        PROVE  \/ p[i] = [kind |-> "read", file |-> name, port |-> port] /\ g <= 1
               \/ p[i] = [kind |-> "ack", n |-> (g - 1) % Wrap, port |-> port] /\ g >= 2
               \/ p[i] = [kind |-> "ack", n |-> g % Wrap, port |-> port] /\ g >= 1
    <2>1. CASE i \in 1 .. Len(q)
      BY <1>1, <1>3, <2>1 DEF Asked
    <2>2. CASE i = Len(q) + 1
      BY <1>1, <2>2
    <2> QED
      BY <1>1, <2>1, <2>2
  <1> QED
    BY <1>2, <1>3 DEF Asked, p

\* The next block is acknowledged, when the server waits for that.
LEMMA AskedNext ==
  ASSUME NEW q \in Seq(Questions), NEW name \in Names, NEW g \in Nat, NEW port \in Nat,
         Asked(q, name, g, port), \A i \in 1 .. Len(q) : q[i].port = port,
         g >= 1 => \A i \in 1 .. Len(q) :
                     q[i] = [kind |-> "ack", n |-> g % Wrap, port |-> port],
         NEW m \in Questions, m = [kind |-> "ack", n |-> (g + 1) % Wrap, port |-> port]
  PROVE  Asked(Append(q, m), name, g + 1, port)
  <1> DEFINE p == Append(q, m)
  <1>1. /\ Len(p) = Len(q) + 1 /\ p[Len(q) + 1] = m /\ \A i \in 1 .. Len(q) : p[i] = q[i]
        /\ \A i \in 1 .. Len(p) : i \in 1 .. Len(q) \/ i = Len(q) + 1
    BY OneMore
  <1> HIDE DEF p
  <1>2. (g + 1) % Wrap # g % Wrap /\ (g + 1) - 1 = g
    BY NumbersLemma
  <1>3. \A i \in 1 .. Len(q) :
          \/ q[i] = [kind |-> "read", file |-> name, port |-> port] /\ g = 0
          \/ q[i] = [kind |-> "ack", n |-> g % Wrap, port |-> port] /\ g >= 1
    BY DEF Asked
  <1>4. \A i \in 1 .. Len(p) :
          p[i] = [kind |-> "ack", n |-> (g + 1) % Wrap, port |-> port] => i = Len(q) + 1
    BY <1>1, <1>2, <1>3
  <1>5. ASSUME NEW i \in 1 .. Len(p)
        PROVE  \/ p[i] = [kind |-> "read", file |-> name, port |-> port] /\ g + 1 <= 1
               \/ p[i] = [kind |-> "ack", n |-> ((g + 1) - 1) % Wrap, port |-> port] /\ g + 1 >= 2
               \/ p[i] = [kind |-> "ack", n |-> (g + 1) % Wrap, port |-> port] /\ g + 1 >= 1
    <2>1. CASE i \in 1 .. Len(q)
      BY <1>1, <1>2, <1>3, <2>1
    <2>2. CASE i = Len(q) + 1
      BY <1>1, <2>2
    <2> QED
      BY <1>1, <2>1, <2>2
  <1>6. ASSUME NEW i \in 1 .. Len(p), NEW j \in 1 .. Len(p), i < j,
               p[i] = [kind |-> "ack", n |-> (g + 1) % Wrap, port |-> port]
        PROVE  p[j] = p[i]
    <2>1. i = Len(q) + 1
      BY <1>4, <1>6
    <2> QED
      BY <1>1, <1>6, <2>1
  <1> QED
    BY <1>5, <1>6 DEF Asked, p

\* A block is sent that is the last one sent, or the next.
LEMMA SendingKeeps ==
  ASSUME NEW f \in Seq(Replies), NEW name \in DOMAIN Files, NEW g \in Nat, NEW p \in Nat,
         NEW port \in Nat, Sent(f, name, g, p, port),
         NEW s \in {g, g + 1}, s >= 1, s >= p, NEW m \in Replies,
         m = [kind |-> "data", n |-> s % Wrap, block |-> Tftp!Block(name, s), port |-> port]
  PROVE  Sent(Append(f, m), name, g, s, port)
  <1> DEFINE e == Append(f, m)
  <1>1. /\ Len(e) = Len(f) + 1 /\ e[Len(f) + 1] = m /\ \A i \in 1 .. Len(f) : e[i] = f[i]
        /\ \A i \in 1 .. Len(e) : i \in 1 .. Len(f) \/ i = Len(f) + 1
    BY OneMore
  <1> HIDE DEF e
  <1>2. m.block.k = s
    BY BlockType
  <1>3. ASSUME NEW i \in 1 .. Len(f), f[i].port = port
        PROVE  /\ f[i].block.k \in Nat /\ f[i].block.k <= s
               /\ \E k \in {g, g + 1} :
                    /\ k >= 1 /\ k <= s
                    /\ f[i] = [kind |-> "data", n |-> k % Wrap,
                               block |-> Tftp!Block(name, k), port |-> port]
    <2>1. PICK k \in {g, g + 1} :
            /\ k >= 1 /\ k <= p
            /\ f[i] = [kind |-> "data", n |-> k % Wrap, block |-> Tftp!Block(name, k), port |-> port]
      BY <1>3 DEF Sent
    <2>2. f[i].block.k = k /\ k \in Nat /\ k <= s
      BY <2>1, BlockType
    <2> QED
      BY <2>1, <2>2
  <1>4. ASSUME NEW i \in 1 .. Len(e), e[i].port = port
        PROVE  \E k \in {g, g + 1} :
                 /\ k >= 1 /\ k <= s
                 /\ e[i] = [kind |-> "data", n |-> k % Wrap,
                            block |-> Tftp!Block(name, k), port |-> port]
    <2>1. CASE i \in 1 .. Len(f)
      BY <1>1, <1>3, <1>4, <2>1
    <2>2. CASE i = Len(f) + 1
      BY <1>1, <2>2
    <2> QED
      BY <1>1, <2>1, <2>2
  <1>5. ASSUME NEW i \in 1 .. Len(e), NEW j \in 1 .. Len(e), i < j,
               e[i].port = port, e[j].port = port
        PROVE  e[i].block.k <= e[j].block.k
    <2>1. i \in 1 .. Len(f) /\ e[i] = f[i]
      BY <1>1, <1>5
    <2>2. CASE j \in 1 .. Len(f)
      BY <1>1, <1>5, <2>1, <2>2 DEF Sent
    <2>3. CASE j = Len(f) + 1
      BY <1>1, <1>2, <1>3, <1>5, <2>1, <2>3
    <2> QED
      BY <1>1, <2>2, <2>3
  <1> QED
    BY <1>4, <1>5 DEF Sent, e

-----------------------------------------------------------------------------
(* TFTP: every step keeps the invariant *)

\* A block is sent again, or the next one, to the port of the last request.
DataBlock(n, b, port) == [kind |-> "data", n |-> n, block |-> b, port |-> port]

\* What a packet brings the server to do, whoever sent it.
LEMMA ServerTypes ==
  ASSUME TftpTypes, Tftp!Server
  PROVE  /\ t_toServer # << >> /\ t_toServer' = Tail(t_toServer)
         /\ UNCHANGED <<t_at, t_file, t_port, t_expected, t_got, t_last_sent>>
         /\ TftpTypes'
         /\ \/ t_toClient' = t_toClient
            \/ \E m \in Replies : t_toClient' = Append(t_toClient, m) /\ m.port = t_remote_port'
         /\ t_remote_port' = IF t_toServer[1].kind = "ack" THEN t_remote_port
                             ELSE t_toServer[1].port
         /\ t_toServer[1].kind # "write" => t_card' = t_card
  <1> DEFINE h == Head(t_toServer)
  <1>1. t_toServer # << >> /\ t_toServer' = Tail(t_toServer)
    BY DEF Tftp!Server, Tftp!tftp_read_req, Tftp!tftp_write_req, Tftp!tftp_ack_seen, Tftp!Received
  <1>2. /\ h = t_toServer[1] /\ h \in Questions /\ t_toServer' \in Seq(Questions)
    BY <1>1, RestLemma DEF TftpTypes
  <1>3. h.port \in Nat
    BY <1>2 DEF Questions
  <1>4. 0 \in Numbers /\ \A n \in Nat : (n + 1) % Wrap \in Numbers
    BY SizesLemma, NumbersLemma DEF Numbers
  <1>5. UNCHANGED <<t_at, t_file, t_port, t_expected, t_got, t_last_sent>>
    BY DEF Tftp!Server, Tftp!client
  <1>6. ASSUME NEW n \in Nat, NEW f \in Names, NEW p \in Nat, t_remote_port' \in Nat,
               Tftp!tftp_send_next_data_block(n, f, p)
        PROVE  /\ t_seq_num' \in Numbers /\ t_open' \in Names /\ t_pos' \in Nat
               /\ t_sd_buffer' \in FileBlocks
               /\ \E m \in Replies : t_toClient' = Append(t_toClient, m) /\ m.port = t_remote_port'
    <2>1. /\ t_seq_num' = (n + 1) % Wrap /\ t_open' = f /\ t_pos' = p + 1
          /\ t_sd_buffer' = IF f = Missing THEN Tftp!Nothing ELSE Tftp!Block(f, p + 1)
          /\ t_toClient' = Append(t_toClient, DataBlock(t_seq_num', t_sd_buffer', t_remote_port'))
      BY <1>6 DEF Tftp!tftp_send_next_data_block, Tftp!Transmit, Tftp!data_block, DataBlock
    <2>2. t_seq_num' \in Numbers /\ t_open' \in Names /\ t_pos' \in Nat
      BY <1>4, <2>1
    <2>3. t_sd_buffer' \in FileBlocks
      <3>1. CASE f = Missing
        BY <2>1, <3>1 DEF FileBlocks
      <3>2. CASE f # Missing
        <4>1. f \in DOMAIN Files /\ p + 1 \in Nat
          BY <3>2 DEF Names
        <4> QED
          BY <2>1, <3>2, <4>1, BlockType
      <3> QED
        BY <3>1, <3>2
    <2>4. DataBlock(t_seq_num', t_sd_buffer', t_remote_port') \in Replies
      BY <1>6, <2>2, <2>3 DEF Replies, DataBlock
    <2> QED
      BY <2>1, <2>2, <2>3, <2>4 DEF DataBlock
  <1>7. Tftp!FileError \in Replies /\ Tftp!FileError.port = h.port
    BY <1>3 DEF Tftp!FileError, Replies
  <1>8. ASSUME Tftp!Refuse(h.file)
        PROVE  /\ t_seq_num' \in Numbers /\ t_open' \in Names /\ UNCHANGED <<t_pos, t_sd_buffer>>
               /\ t_toClient' \in Seq(Replies)
               /\ t_toClient' = Append(t_toClient, Tftp!FileError)
    <2>1. /\ t_seq_num' = 0 /\ t_toClient' = Append(t_toClient, Tftp!FileError)
          /\ t_open' \in {t_open, Missing} /\ UNCHANGED <<t_pos, t_sd_buffer>>
      BY <1>8 DEF Tftp!Refuse, Tftp!Transmit
    <2> QED
      BY <1>4, <1>7, <2>1, OneMore DEF TftpTypes, Names
  <1>9. CASE Tftp!tftp_read_req
    <2>1. h.kind = "read" /\ t_remote_port' = h.port /\ t_card' = t_card
      BY <1>9 DEF Tftp!tftp_read_req, Tftp!Received
    <2>2. h.file \in Names
      BY <1>2, <2>1 DEF Questions
    <2>3. CASE h.file \in Served
      <3>1. Tftp!tftp_send_next_data_block(0, h.file, 0)
        BY <1>9, <2>3 DEF Tftp!tftp_read_req, Served
      <3>2. /\ t_seq_num' \in Numbers /\ t_open' \in Names /\ t_pos' \in Nat
            /\ t_sd_buffer' \in FileBlocks
        BY <1>3, <1>6, <2>1, <2>2, <3>1
      <3>3. PICK m \in Replies : t_toClient' = Append(t_toClient, m) /\ m.port = t_remote_port'
        BY <1>3, <1>6, <2>1, <2>2, <3>1
      <3> QED
        BY <1>1, <1>2, <1>3, <1>5, <2>1, <3>2, <3>3, OneMore DEF TftpTypes
    <2>4. CASE h.file \notin Served
      <3>1. Tftp!Refuse(h.file)
        BY <1>9, <2>4 DEF Tftp!tftp_read_req, Served
      <3> QED
        BY <1>1, <1>2, <1>3, <1>5, <1>7, <1>8, <2>1, <3>1 DEF TftpTypes
    <2> QED
      BY <2>3, <2>4
  <1>10. CASE Tftp!tftp_write_req
    <2>1. h.kind = "write" /\ t_remote_port' = h.port
      BY <1>10 DEF Tftp!tftp_write_req, Tftp!Received
    <2>2. t_card' \in SUBSET DOMAIN Files
      BY <1>10 DEF Tftp!tftp_write_req, TftpTypes
    <2>3. CASE h.file \in Served
      <3>1. /\ t_seq_num' = 0 /\ t_open' = h.file /\ t_pos' = 0
            /\ UNCHANGED <<t_sd_buffer, t_toClient>>
        BY <1>10, <2>3 DEF Tftp!tftp_write_req, Served
      <3>2. h.file \in Names
        BY <2>3, ServedFiles DEF Names
      <3> QED
        BY <1>1, <1>2, <1>3, <1>4, <1>5, <2>1, <2>2, <3>1, <3>2 DEF TftpTypes
    <2>4. CASE h.file \notin Served
      <3>1. Tftp!Refuse(h.file)
        BY <1>10, <2>4 DEF Tftp!tftp_write_req, Served
      <3> QED
        BY <1>1, <1>2, <1>3, <1>5, <1>7, <1>8, <2>1, <2>2, <3>1 DEF TftpTypes
    <2> QED
      BY <2>3, <2>4
  <1>11. CASE Tftp!tftp_ack_seen
    <2>1. h.kind = "ack" /\ t_remote_port' = t_remote_port /\ t_remote_port \in Nat
          /\ t_card' = t_card
      BY <1>11 DEF Tftp!tftp_ack_seen, Tftp!Received, TftpTypes
    <2>2. CASE h.n = t_seq_num
      <3>1. Tftp!tftp_send_next_data_block(t_seq_num, t_open, t_pos)
        BY <1>11, <2>2 DEF Tftp!tftp_ack_seen
      <3>2. t_seq_num \in Nat /\ t_open \in Names /\ t_pos \in Nat
        BY SizesLemma DEF TftpTypes, Numbers
      <3>3. /\ t_seq_num' \in Numbers /\ t_open' \in Names /\ t_pos' \in Nat
            /\ t_sd_buffer' \in FileBlocks
        BY <1>6, <2>1, <3>1, <3>2
      <3>4. PICK m \in Replies : t_toClient' = Append(t_toClient, m) /\ m.port = t_remote_port'
        BY <1>6, <2>1, <3>1, <3>2
      <3> QED
        BY <1>1, <1>2, <1>5, <2>1, <3>3, <3>4, OneMore DEF TftpTypes
    <2>3. CASE h.n # t_seq_num
      <3> DEFINE m == DataBlock(t_seq_num, t_sd_buffer, t_remote_port)
      <3>1. /\ UNCHANGED <<t_seq_num, t_open, t_pos, t_sd_buffer>>
            /\ t_toClient' = Append(t_toClient, m)
        BY <1>11, <2>1, <2>3 DEF Tftp!tftp_ack_seen, Tftp!Transmit, Tftp!data_block, DataBlock
      <3>2. m \in Replies /\ m.port = t_remote_port
        BY <2>1 DEF Replies, DataBlock, TftpTypes
      <3> HIDE DEF m
      <3> QED
        BY <1>1, <1>2, <1>5, <2>1, <3>1, <3>2, OneMore DEF TftpTypes
    <2> QED
      BY <2>2, <2>3
  <1> QED
    BY <1>9, <1>10, <1>11 DEF Tftp!Server

\* The order of the packets and their ports.
LEMMA ServerPorts ==
  ASSUME TftpInv, Tftp!Server
  PROVE  /\ PortInv'
         /\ t_toServer[1].port # t_port => t_remote_port # t_port /\ t_remote_port' # t_port
         /\ t_toServer[1].port = t_port /\ t_toServer[1].kind # "ack" => t_remote_port' = t_port
  <1> DEFINE q == t_toServer
             f == t_toClient
  <1>1. /\ TftpTypes /\ Ports(q, f, t_remote_port, t_port)
        /\ q \in Seq(Questions) /\ f \in Seq(Replies) /\ t_port \in Nat /\ t_remote_port \in Nat
        /\ t_port' = t_port /\ q # << >> /\ q' = Tail(q)
    BY ServerTypes DEF TftpInv, TftpTypes, PortInv
  <1>2. /\ 1 \in 1 .. Len(q) /\ q[1] \in Questions
        /\ \A i \in 1 .. Len(q') : q'[i] = q[i + 1] /\ i + 1 \in 1 .. Len(q)
    BY <1>1, RestLemma
  <1>3. q[1].port \in Nat /\ q[1].port <= t_port
    BY <1>1, <1>2 DEF Ports, Questions
  <1>4. q[1].port # t_port => t_remote_port # t_port
    BY <1>1, <1>2 DEF Ports
  <1>5. t_remote_port' = IF q[1].kind = "ack" THEN t_remote_port ELSE q[1].port
    BY <1>1, ServerTypes
  <1>6. t_remote_port' \in Nat /\ t_remote_port' <= t_port
    BY <1>1, <1>3, <1>5 DEF Ports
  <1>7. Ports(q', f, t_remote_port, t_port)
    BY <1>1, TakenKeeps
  <1>8. Ports(q', f, t_remote_port', t_port)
    <2>1. t_remote_port' = t_port => \A i \in 1 .. Len(q') : q'[i].port = t_port
      <3>1. CASE q[1].kind = "ack"
        BY <1>5, <1>7, <3>1 DEF Ports
      <3>2. CASE q[1].port = t_port
        <4>1. \A i \in 1 .. Len(q') : 1 < i + 1
          OBVIOUS
        <4> QED
          BY <1>1, <1>2, <3>2, <4>1 DEF Ports
      <3> QED
        BY <1>5, <3>1, <3>2
    <2>2. t_remote_port' # t_port => \A i \in 1 .. Len(f) : f[i].port # t_port
      BY <1>1, <1>4, <1>5 DEF Ports
    <2> QED
      BY <1>6, <1>7, <2>1, <2>2 DEF Ports
  <1>9. Ports(q', f', t_remote_port', t_port)
    <2>1. CASE f' = f
      BY <1>8, <2>1
    <2>2. CASE \E m \in Replies : f' = Append(f, m) /\ m.port = t_remote_port'
      <3>1. PICK m \in Replies : f' = Append(f, m) /\ m.port = t_remote_port'
        BY <2>2
      <3>2. /\ Len(f') = Len(f) + 1 /\ f'[Len(f) + 1] = m /\ \A i \in 1 .. Len(f) : f'[i] = f[i]
            /\ \A i \in 1 .. Len(f') : i \in 1 .. Len(f) \/ i = Len(f) + 1
        BY <1>1, <3>1, OneMore
      <3>3. \A i \in 1 .. Len(f') : f'[i].port <= t_port
        BY <1>6, <1>8, <3>1, <3>2 DEF Ports
      <3>4. t_remote_port' # t_port => \A i \in 1 .. Len(f') : f'[i].port # t_port
        BY <1>8, <3>1, <3>2 DEF Ports
      <3> QED
        BY <1>8, <3>3, <3>4 DEF Ports
    <2> QED
      BY <1>1, <2>1, <2>2, ServerTypes
  <1> QED
    BY <1>1, <1>4, <1>5, <1>9 DEF PortInv

\* A read of a file there is, whose request has arrived: the server sends the last
\* block again, or the next one when the last one is acknowledged.
LEMMA ServerServes ==
  ASSUME TftpInv, Tftp!Server, Reading, t_file \in Served,
         t_toServer[1].port = t_port
  PROVE  /\ t_remote_port' = t_port /\ Serves(Len(t_got))'
         /\ Sent(t_toClient', t_file, Len(t_got), t_pos', t_port)
  <1> DEFINE q == t_toServer
             f == t_toClient
             g == Len(t_got)
             h == q[1]
  <1>1. /\ TftpTypes /\ q \in Seq(Questions) /\ f \in Seq(Replies)
        /\ t_port \in Nat /\ t_remote_port \in Nat /\ g \in Nat /\ t_pos \in Nat
        /\ q # << >> /\ q' = Tail(q) /\ t_port' = t_port /\ t_file' = t_file
        /\ 1 \in 1 .. Len(q) /\ h \in Questions /\ Head(q) = h
        /\ \A i \in 1 .. Len(q') : q'[i] = q[i + 1] /\ i + 1 \in 1 .. Len(q)
    <2>1. /\ TftpTypes /\ q \in Seq(Questions) /\ f \in Seq(Replies)
          /\ t_port \in Nat /\ t_remote_port \in Nat /\ g \in Nat /\ t_pos \in Nat
      BY DEF TftpInv, TftpTypes
    <2>2. q # << >> /\ q' = Tail(q) /\ t_port' = t_port /\ t_file' = t_file
      BY <2>1, ServerTypes
    <2> QED
      BY <2>1, <2>2, RestLemma
  <1>2. /\ Asked(q, t_file, g, t_port) /\ Sent(f, t_file, g, t_pos, t_port)
        /\ g > 0 => t_remote_port = t_port
        /\ t_remote_port = t_port => Serves(g)
        /\ Ports(q, f, t_remote_port, t_port)
    BY DEF TftpInv, ReadInv, PortInv
  <1>3. t_file # Missing /\ t_file \in Names
    BY <1>1, ServedFiles DEF Names
  <1>4. ASSUME t_pos' \in {g, g + 1}, t_pos' >= 1, t_pos' >= t_pos \/ t_remote_port # t_port,
               t_seq_num' = t_pos' % Wrap, t_sd_buffer' = Tftp!Block(t_file, t_pos'),
               t_remote_port' = t_port,
               t_toClient' = Append(f, DataBlock(t_seq_num', t_sd_buffer', t_remote_port'))
        PROVE  Sent(f', t_file, g, t_pos', t_port)
    <2> DEFINE s == t_pos'
               m == DataBlock(t_seq_num', t_sd_buffer', t_remote_port')
    <2>1. s \in Nat
      BY <1>1, <1>4
    <2>2. m = [kind |-> "data", n |-> s % Wrap, block |-> Tftp!Block(t_file, s), port |-> t_port]
      BY <1>4 DEF DataBlock
    <2>3. m \in Replies
      <3>1. s % Wrap \in Numbers /\ Tftp!Block(t_file, s) \in FileBlocks
        BY <1>1, <2>1, ServedFiles, NumbersLemma, BlockType
      <3> QED
        BY <1>1, <2>2, <3>1 DEF Replies
    <2>4. f' = Append(f, m) /\ s \in {g, g + 1} /\ s >= 1
      BY <1>4
    <2> HIDE DEF m, s
    <2>5. CASE s >= t_pos
      BY <1>1, <1>2, <2>1, <2>2, <2>3, <2>4, <2>5, SendingKeeps, ServedFiles DEF s
    <2>6. CASE t_remote_port # t_port
      <3>1. Sent(f, t_file, g, 0, t_port)
        BY <1>2, <2>6 DEF Sent, Ports
      <3>2. s >= 0
        BY <2>1
      <3> QED
        BY <1>1, <2>1, <2>2, <2>3, <2>4, <3>1, <3>2, SendingKeeps, ServedFiles DEF s
    <2> QED
      BY <1>4, <2>5, <2>6 DEF s
  <1>5. \/ h = [kind |-> "read", file |-> t_file, port |-> t_port] /\ g <= 1
        \/ h = [kind |-> "ack", n |-> (g - 1) % Wrap, port |-> t_port] /\ g >= 2
        \/ h = [kind |-> "ack", n |-> g % Wrap, port |-> t_port] /\ g >= 1
    BY <1>1, <1>2 DEF Asked
  <1>6. CASE h = [kind |-> "read", file |-> t_file, port |-> t_port] /\ g <= 1
    <2>1. h.kind = "read" /\ h.file = t_file /\ h.port = t_port
      BY <1>6
    <2>2. Tftp!tftp_read_req
      BY <1>1, <2>1 DEF Tftp!Server, Tftp!tftp_write_req, Tftp!tftp_ack_seen, Tftp!Received
    <2>3. Tftp!tftp_send_next_data_block(0, t_file, 0) /\ t_remote_port' = t_port
      BY <1>1, <2>1, <2>2 DEF Tftp!tftp_read_req, Served
    <2>4. /\ t_seq_num' = 1 % Wrap /\ t_open' = t_file /\ t_pos' = 1
          /\ t_sd_buffer' = Tftp!Block(t_file, 1)
          /\ t_toClient' = Append(f, DataBlock(t_seq_num', t_sd_buffer', t_remote_port'))
      BY <1>3, <2>3 DEF Tftp!tftp_send_next_data_block, Tftp!Transmit, Tftp!data_block, DataBlock
    <2>5. 1 \in {g, g + 1}
      <3>1. g \in Nat /\ g <= 1
        BY <1>1, <1>6
      <3> HIDE DEF g
      <3> QED
        BY <3>1
    <2>6. 1 >= t_pos \/ t_remote_port # t_port
      <3> SUFFICES ASSUME t_remote_port = t_port PROVE t_pos <= 1
        BY <1>1
      <3>1. Serves(g)
        BY <1>2
      <3>2. ~ (t_pos = g + 1 /\ g >= 1)
        BY <1>1, <2>1, <3>1 DEF Serves
      <3> QED
        BY <1>1, <1>6, <3>1, <3>2 DEF Serves
    <2>7. Sent(f', t_file, g, t_pos', t_port)
      <3>1. t_pos' \in {g, g + 1} /\ t_pos' >= 1 /\ t_seq_num' = t_pos' % Wrap
            /\ t_sd_buffer' = Tftp!Block(t_file, t_pos')
        BY <2>4, <2>5
      <3> QED
        BY <1>4, <2>3, <2>4, <2>6, <3>1
    <2>8. Serves(g)'
      <3>1. Len(t_got)' = g /\ ~ (1 = g + 1 /\ g >= 1)
        BY <1>1, ServerTypes
      <3> QED
        BY <1>1, <2>4, <2>5, <3>1 DEF Serves
    <2> QED
      BY <2>3, <2>7, <2>8
  <1>7. CASE h.kind = "ack" /\ g >= 1
    <2>1. Tftp!tftp_ack_seen /\ t_remote_port' = t_remote_port /\ t_remote_port = t_port
      BY <1>1, <1>2, <1>7
         DEF Tftp!Server, Tftp!tftp_read_req, Tftp!tftp_write_req, Tftp!tftp_ack_seen, Tftp!Received
    <2>2. Serves(g)
      BY <1>2, <2>1
    <2>3. Len(t_got)' = g
      BY <1>1, ServerTypes
    <2>4. CASE h.n = t_seq_num
      <3>1. h.n = g % Wrap /\ t_pos = g
        <4>1. CASE t_pos = g + 1
          <5>1. h.n = g % Wrap
            BY <1>1, <1>7, <2>2, <4>1 DEF Serves
          <5>2. t_seq_num = (g + 1) % Wrap
            BY <2>2, <4>1 DEF Serves
          <5> QED
            BY <1>1, <2>4, <5>1, <5>2, NumbersLemma
        <4>2. CASE t_pos = g
          BY <2>2, <2>4, <4>2 DEF Serves
        <4> QED
          BY <2>2, <4>1, <4>2 DEF Serves
      <3>2. h = [kind |-> "ack", n |-> g % Wrap, port |-> t_port]
        <4>1. CASE h = [kind |-> "ack", n |-> (g - 1) % Wrap, port |-> t_port] /\ g >= 2
          <5>1. (g - 1) % Wrap = g % Wrap
            BY <3>1, <4>1
          <5>2. g - 1 \in Nat /\ (g - 1) + 1 = g
            BY <1>1, <4>1
          <5>3. ((g - 1) + 1) % Wrap # (g - 1) % Wrap
            BY <5>2, NumbersLemma
          <5> QED
            BY <5>1, <5>2, <5>3
        <4> QED
          BY <1>5, <1>7, <4>1
      <3>3. Tftp!tftp_send_next_data_block(t_seq_num, t_open, t_pos)
        BY <1>1, <2>1, <2>4 DEF Tftp!tftp_ack_seen
      <3>4. /\ t_seq_num' = (t_seq_num + 1) % Wrap /\ t_open' = t_file /\ t_pos' = g + 1
            /\ t_sd_buffer' = Tftp!Block(t_file, g + 1)
            /\ t_toClient' = Append(f, DataBlock(t_seq_num', t_sd_buffer', t_remote_port'))
        BY <1>3, <2>2, <3>1, <3>3
           DEF Serves, Tftp!tftp_send_next_data_block, Tftp!Transmit, Tftp!data_block, DataBlock
      <3>5. t_seq_num' = (g + 1) % Wrap
        BY <1>1, <2>4, <3>1, <3>4, NumbersLemma
      <3>6. g + 1 >= 1 /\ g + 1 >= t_pos /\ g + 1 \in {g, g + 1}
        BY <1>1, <3>1
      <3>7. Sent(f', t_file, g, t_pos', t_port)
        <4>1. t_pos' \in {g, g + 1} /\ t_pos' >= 1 /\ t_seq_num' = t_pos' % Wrap
              /\ t_sd_buffer' = Tftp!Block(t_file, t_pos')
          BY <3>4, <3>5, <3>6
        <4>2. t_pos' >= t_pos
          BY <3>4, <3>6
        <4> QED
          BY <1>4, <2>1, <3>4, <4>1, <4>2
      <3>8. \A i \in 1 .. Len(q') : q'[i] = [kind |-> "ack", n |-> g % Wrap, port |-> t_port]
        <4> SUFFICES ASSUME NEW i \in 1 .. Len(q')
                     PROVE  q'[i] = [kind |-> "ack", n |-> g % Wrap, port |-> t_port]
          OBVIOUS
        <4>1. i + 1 \in 1 .. Len(q) /\ 1 < i + 1 /\ q'[i] = q[i + 1]
          BY <1>1
        <4> QED
          BY <1>1, <1>2, <3>2, <4>1 DEF Asked
      <3>9. Serves(g)'
        BY <1>1, <2>3, <3>4, <3>5, <3>6, <3>8 DEF Serves
      <3> QED
        BY <2>1, <3>7, <3>9
    <2>5. CASE h.n # t_seq_num
      <3>1. /\ UNCHANGED <<t_seq_num, t_open, t_pos, t_sd_buffer>>
            /\ t_toClient' = Append(f, DataBlock(t_seq_num', t_sd_buffer', t_remote_port'))
        BY <1>1, <2>1, <2>5 DEF Tftp!tftp_ack_seen, Tftp!Transmit, Tftp!data_block, DataBlock
      <3>2. Sent(f', t_file, g, t_pos', t_port)
        <4>1. /\ t_pos' \in {g, g + 1} /\ t_pos' >= 1 /\ t_pos' >= t_pos
              /\ t_seq_num' = t_pos' % Wrap /\ t_sd_buffer' = Tftp!Block(t_file, t_pos')
          BY <1>1, <2>2, <3>1 DEF Serves
        <4> QED
          BY <1>4, <2>1, <3>1, <4>1
      <3>3. t_pos = g + 1 /\ g >= 1 =>
              \A i \in 1 .. Len(q') : q'[i] = [kind |-> "ack", n |-> g % Wrap, port |-> t_port]
        BY <1>1, <2>2 DEF Serves
      <3>4. Serves(g)'
        BY <1>1, <2>2, <2>3, <3>1, <3>3 DEF Serves
      <3> QED
        BY <2>1, <3>2, <3>4
    <2> QED
      BY <2>4, <2>5
  <1> QED
    BY <1>1, <1>5, <1>6, <1>7

\* A file that is missing or locked, or a write, is answered with an error or not at all.
LEMMA ServerRefuses ==
  ASSUME TftpInv, Tftp!Server,
         t_toServer[1].kind = "write" \/ t_toServer[1].file \notin Served,
         t_toServer[1].kind # "ack"
  PROVE  \/ t_toClient' = t_toClient
         \/ \E m \in Replies : t_toClient' = Append(t_toClient, m) /\ m.kind = "error"
  <1> DEFINE h == t_toServer[1]
  <1>1. TftpTypes /\ t_toServer # << >>
    BY ServerTypes DEF TftpInv
  <1>2. Head(t_toServer) = h /\ h \in Questions
    BY <1>1, RestLemma DEF TftpTypes
  <1>3. Tftp!FileError \in Replies /\ Tftp!FileError.kind = "error"
    BY <1>2 DEF Tftp!FileError, Replies, Questions
  <1>4. CASE Tftp!tftp_read_req
    <2>1. h.file \notin Served
      BY <1>2, <1>4 DEF Tftp!tftp_read_req, Tftp!Received
    <2> QED
      BY <1>2, <1>3, <1>4, <2>1 DEF Tftp!tftp_read_req, Tftp!Refuse, Tftp!Transmit, Served
  <1>5. CASE Tftp!tftp_write_req
    BY <1>3, <1>5 DEF Tftp!tftp_write_req, Tftp!Refuse, Tftp!Transmit
  <1> QED
    BY <1>2, <1>4, <1>5 DEF Tftp!Server, Tftp!tftp_ack_seen, Tftp!Received

LEMMA ServerStep ==
  ASSUME TftpInv, Tftp!Server
  PROVE  TftpInv'
  <1> DEFINE q == t_toServer
             f == t_toClient
             g == Len(t_got)
             h == q[1]
  <1>1. /\ TftpTypes /\ TftpTypes' /\ PortInv'
        /\ UNCHANGED <<t_at, t_file, t_port, t_expected, t_got, t_last_sent>>
        /\ q # << >> /\ q' = Tail(q)
    BY ServerTypes, ServerPorts DEF TftpInv
  <1>2. /\ q \in Seq(Questions) /\ f \in Seq(Replies) /\ t_port \in Nat /\ g \in Nat
        /\ t_remote_port \in Nat /\ t_file \in Names
    BY <1>1 DEF TftpTypes
  <1>3. /\ 1 \in 1 .. Len(q) /\ h \in Questions
        /\ \A i \in 1 .. Len(q') : q'[i] = q[i + 1] /\ i + 1 \in 1 .. Len(q)
    BY <1>1, <1>2, RestLemma
  <1>4. h.port # t_port => t_remote_port # t_port /\ t_remote_port' # t_port
    BY ServerPorts
  <1>5. \/ f' = f
        \/ \E m \in Replies : f' = Append(f, m) /\ m.port = t_remote_port'
    BY <1>1, ServerTypes
  <1>6. Tftp!TransferIsTheFile'
    BY <1>1 DEF TftpInv, Tftp!TransferIsTheFile, Tftp!Block
  <1>7. t_remote_port' # t_port => \A i \in 1 .. Len(f') : f'[i].port # t_port
    BY <1>1 DEF PortInv, Ports
  <1>8. ReadInv'
    <2>1. CASE ~ Reading
      BY <1>1, <2>1 DEF ReadInv, Reading
    <2>2. CASE Reading
      <3>1. /\ t_expected = (g + 1) % Wrap
            /\ t_last_sent = IF g = 0 THEN [kind |-> "read", file |-> t_file, port |-> t_port]
                             ELSE [kind |-> "ack", n |-> g % Wrap, port |-> t_port]
            /\ \A k \in 1 .. g : t_got[k] = Tftp!Block(t_file, k)
            /\ g > 0 => t_file \in Served /\ g <= Files[t_file] /\ t_remote_port = t_port
            /\ Asked(q, t_file, g, t_port)
        BY <2>2 DEF TftpInv, ReadInv
      <3>2. Asked(q', t_file, g, t_port)
        BY <1>1, <1>2, <3>1, TakenKeeps
      <3>3. g > 0 => t_remote_port' = t_port
        <4> SUFFICES ASSUME g > 0 PROVE t_remote_port' = t_port
          OBVIOUS
        <4>1. t_remote_port = t_port /\ h.port = t_port
          BY <1>4, <3>1
        <4> QED
          BY <1>1, <4>1, ServerTypes
      <3>4. CASE h.port # t_port
        <4>1. t_remote_port' # t_port /\ \A i \in 1 .. Len(f') : f'[i].port # t_port
          BY <1>4, <1>7, <3>4
        <4>2. Sent(f', t_file, g, t_pos', t_port)
          BY <4>1 DEF Sent
        <4>3. ~ (g > 0)
          BY <3>3, <4>1
        <4> QED
          BY <1>1, <3>1, <3>2, <4>1, <4>2, <4>3 DEF ReadInv, Reading, Tftp!Block
      <3>5. CASE h.port = t_port
        <4>1. h.kind # "write" /\ (g = 0 => h.kind = "read" /\ h.file = t_file)
          BY <1>3, <3>1, <3>5 DEF Asked
        <4>2. Served' = Served
          BY <1>1, <4>1, ServerTypes DEF Served
        <4>3. CASE t_file \in Served
          <5>1. Sent(f', t_file, g, t_pos', t_port) /\ Serves(g)'
            BY <2>2, <3>5, <4>3, ServerServes
          <5> QED
            BY <1>1, <3>1, <3>2, <3>3, <4>2, <4>3, <5>1 DEF ReadInv, Reading, Tftp!Block
        <4>4. CASE t_file \notin Served
          <5>1. g = 0
            BY <1>2, <3>1, <4>4
          <5>2. \A i \in 1 .. Len(f) : f[i].port = t_port => f[i].kind = "error"
            BY <2>2, <4>4 DEF TftpInv, ReadInv
          <5>3. \/ f' = f
                \/ \E m \in Replies : f' = Append(f, m) /\ m.kind = "error"
            BY <4>1, <4>4, <5>1, ServerRefuses
          <5>4. \A i \in 1 .. Len(f') : f'[i].port = t_port => f'[i].kind = "error"
            BY <1>2, <5>2, <5>3, OneMore
          <5> QED
            BY <1>1, <3>1, <3>2, <3>3, <4>2, <4>4, <5>1, <5>4 DEF ReadInv, Reading, Tftp!Block
        <4> QED
          BY <4>3, <4>4
      <3> QED
        BY <3>4, <3>5
    <2> QED
      BY <2>1, <2>2
  <1>9. WriteInv'
    <2> SUFFICES ASSUME Writing PROVE WriteInv'
      BY <1>1 DEF WriteInv, Writing
    <2>1. /\ t_got = << >>
          /\ \A i \in 1 .. Len(q) : q[i].port = t_port => q[i].kind = "write"
          /\ \A i \in 1 .. Len(f) : f[i].port = t_port => f[i].kind = "error"
      BY DEF TftpInv, WriteInv
    <2>2. \A i \in 1 .. Len(f') : f'[i].port = t_port => f'[i].kind = "error"
      <3>1. CASE h.port = t_port
        <4>1. h.kind = "write"
          BY <1>3, <2>1, <3>1
        <4>2. \/ f' = f
              \/ \E m \in Replies : f' = Append(f, m) /\ m.kind = "error"
          BY <4>1, ServerRefuses
        <4>3. CASE f' = f
          BY <2>1, <4>3
        <4>4. CASE \E m \in Replies : f' = Append(f, m) /\ m.kind = "error"
          <5>1. PICK m \in Replies : f' = Append(f, m) /\ m.kind = "error"
            BY <4>4
          <5>2. /\ f'[Len(f) + 1] = m /\ \A i \in 1 .. Len(f) : f'[i] = f[i]
                /\ \A i \in 1 .. Len(f') : i \in 1 .. Len(f) \/ i = Len(f) + 1
            BY <1>2, <5>1, OneMore
          <5> QED
            BY <2>1, <5>1, <5>2
        <4> QED
          BY <4>2, <4>3, <4>4
      <3>2. CASE h.port # t_port
        BY <1>4, <1>7, <3>2
      <3> QED
        BY <3>1, <3>2
    <2>3. \A i \in 1 .. Len(q') : q'[i].port = t_port => q'[i].kind = "write"
      BY <1>3, <2>1
    <2> QED
      BY <1>1, <2>1, <2>2, <2>3 DEF WriteInv
  <1> QED
    BY <1>1, <1>6, <1>8, <1>9 DEF TftpInv

\* Data of this transfer that arrive are the last block received, or the next one,
\* and the number tells which.
LEMMA DataLemma ==
  ASSUME TftpInv, t_toClient # << >>, t_at = "reads", t_toClient[1].port = t_port,
         t_toClient[1].kind = "data"
  PROVE  /\ Reading /\ t_file \in Served /\ t_remote_port = t_port
         /\ \E k \in {Len(t_got), Len(t_got) + 1} :
              /\ k \in Nat /\ k >= 1 /\ k <= t_pos
              /\ t_toClient[1].n = k % Wrap /\ t_toClient[1].block = Tftp!Block(t_file, k)
              /\ t_toClient[1].n = t_expected => k = Len(t_got) + 1
              /\ (t_toClient[1].n + 1) % Wrap = t_expected => k = Len(t_got)
  <1> DEFINE h == t_toClient[1]
             g == Len(t_got)
  <1>1. /\ 1 \in 1 .. Len(t_toClient) /\ g \in Nat
    BY DEF TftpInv, TftpTypes
  <1>2. Reading
    BY <1>1 DEF TftpInv, WriteInv, Writing, Reading
  <1>3. t_file \in Served
    BY <1>1, <1>2 DEF TftpInv, ReadInv
  <1>4. t_remote_port = t_port
    BY <1>1 DEF TftpInv, PortInv, Ports
  <1>5. Sent(t_toClient, t_file, g, t_pos, t_port) /\ t_expected = (g + 1) % Wrap
    BY <1>2, <1>3 DEF TftpInv, ReadInv
  <1>6. PICK k \in {g, g + 1} :
          /\ k >= 1 /\ k <= t_pos
          /\ h = [kind |-> "data", n |-> k % Wrap, block |-> Tftp!Block(t_file, k), port |-> t_port]
    BY <1>1, <1>5 DEF Sent
  <1>7. k \in Nat
    BY <1>1, <1>6
  <1>8. h.n = t_expected => k = g + 1
    BY <1>1, <1>5, <1>6, NumbersLemma
  <1>9. (h.n + 1) % Wrap = t_expected => k = g
    <2>1. (h.n + 1) % Wrap = (k + 1) % Wrap
      BY <1>6, <1>7, NumbersLemma
    <2>2. ((g + 1) + 1) % Wrap # (g + 1) % Wrap
      BY <1>1, NumbersLemma
    <2> QED
      BY <1>5, <1>6, <2>1, <2>2
  <1> QED
    BY <1>2, <1>3, <1>4, <1>6, <1>7, <1>8, <1>9

\* A packet the client takes and does not answer, or one that is lost.
LEMMA DropKeeps ==
  ASSUME TftpInv,
         UNCHANGED <<t_card, t_seq_num, t_remote_port, t_open, t_pos, t_sd_buffer, t_at, t_file,
                     t_port, t_expected, t_got, t_last_sent>>,
         \/ t_toServer # << >> /\ t_toServer' = Tail(t_toServer) /\ t_toClient' = t_toClient
         \/ t_toClient # << >> /\ t_toClient' = Tail(t_toClient) /\ t_toServer' = t_toServer
  PROVE  TftpInv'
  <1> DEFINE q == t_toServer
             f == t_toClient
             g == Len(t_got)
  <1>1. /\ TftpTypes /\ q \in Seq(Questions) /\ f \in Seq(Replies) /\ t_port \in Nat
        /\ t_remote_port \in Nat /\ Ports(q, f, t_remote_port, t_port)
    BY DEF TftpInv, TftpTypes, PortInv
  <1>2. /\ q' \in Seq(Questions) /\ f' \in Seq(Replies)
        /\ \A i \in 1 .. Len(q') : \E j \in 1 .. Len(q) : q'[i] = q[j]
        /\ \A i \in 1 .. Len(f') : \E j \in 1 .. Len(f) : f'[i] = f[j]
    <2>1. CASE q # << >> /\ q' = Tail(q) /\ f' = f
      BY <1>1, <2>1, RestLemma
    <2>2. CASE f # << >> /\ f' = Tail(f) /\ q' = q
      BY <1>1, <2>2, RestLemma
    <2> QED
      BY <2>1, <2>2
  <1>3. Ports(q', f', t_remote_port, t_port)
    BY <1>1, TakenKeeps
  <1>4. TftpTypes'
    BY <1>1, <1>2 DEF TftpTypes
  <1>5. Tftp!TransferIsTheFile'
    BY DEF TftpInv, Tftp!TransferIsTheFile, Tftp!Block
  <1>6. ReadInv'
    <2> SUFFICES ASSUME Reading PROVE ReadInv'
      BY DEF ReadInv, Reading
    <2>1. /\ t_expected = (g + 1) % Wrap
          /\ t_last_sent = IF g = 0 THEN [kind |-> "read", file |-> t_file, port |-> t_port]
                           ELSE [kind |-> "ack", n |-> g % Wrap, port |-> t_port]
          /\ \A k \in 1 .. g : t_got[k] = Tftp!Block(t_file, k)
          /\ g > 0 => t_file \in Served /\ g <= Files[t_file] /\ t_remote_port = t_port
          /\ Asked(q, t_file, g, t_port)
      BY DEF TftpInv, ReadInv
    <2>2. Asked(q', t_file, g, t_port)
      BY <1>1, <2>1, TakenKeeps
    <2>3. CASE t_file \in Served
      <3>1. Sent(f, t_file, g, t_pos, t_port) /\ (t_remote_port = t_port => Serves(g))
        BY <2>3 DEF TftpInv, ReadInv
      <3>2. Sent(f', t_file, g, t_pos, t_port)
        BY <1>1, <3>1, TakenKeeps
      <3>3. t_remote_port = t_port => Serves(g)'
        BY <1>2, <3>1 DEF Serves, Tftp!Block
      <3> QED
        BY <2>1, <2>2, <2>3, <3>2, <3>3 DEF ReadInv, Served, Tftp!Block
    <2>4. CASE t_file \notin Served
      <3>1. \A i \in 1 .. Len(f) : f[i].port = t_port => f[i].kind = "error"
        BY <2>4 DEF TftpInv, ReadInv
      <3>2. \A i \in 1 .. Len(f') : f'[i].port = t_port => f'[i].kind = "error"
        BY <1>2, <3>1
      <3> QED
        BY <2>1, <2>2, <2>4, <3>2 DEF ReadInv, Served, Tftp!Block
    <2> QED
      BY <2>3, <2>4
  <1>7. WriteInv'
    <2> SUFFICES ASSUME Writing PROVE WriteInv'
      BY DEF WriteInv, Writing
    <2>1. /\ t_got = << >>
          /\ \A i \in 1 .. Len(q) : q[i].port = t_port => q[i].kind = "write"
          /\ \A i \in 1 .. Len(f) : f[i].port = t_port => f[i].kind = "error"
      BY DEF TftpInv, WriteInv
    <2>2. \A i \in 1 .. Len(q') : q'[i].port = t_port => q'[i].kind = "write"
      BY <1>2, <2>1
    <2>3. \A i \in 1 .. Len(f') : f'[i].port = t_port => f'[i].kind = "error"
      BY <1>2, <2>1
    <2> QED
      BY <2>1, <2>2, <2>3 DEF WriteInv
  <1> QED
    BY <1>3, <1>4, <1>5, <1>6, <1>7 DEF TftpInv, PortInv

\* The client sends its last packet again, because nothing came or because the
\* data came again.
LEMMA RepeatKeeps ==
  ASSUME TftpInv, Reading,
         UNCHANGED <<t_card, t_seq_num, t_remote_port, t_open, t_pos, t_sd_buffer, t_at, t_file,
                     t_port, t_expected, t_got, t_last_sent>>,
         t_toServer' = Append(t_toServer, t_last_sent),
         \/ t_toClient' = t_toClient
         \/ t_toClient # << >> /\ t_toClient' = Tail(t_toClient)
  PROVE  TftpInv'
  <1> DEFINE q == t_toServer
             f == t_toClient
             g == Len(t_got)
             m == t_last_sent
  <1>1. /\ TftpTypes /\ q \in Seq(Questions) /\ f \in Seq(Replies) /\ t_port \in Nat
        /\ t_remote_port \in Nat /\ g \in Nat /\ t_file \in Names
        /\ Ports(q, f, t_remote_port, t_port)
    BY DEF TftpInv, TftpTypes, PortInv
  <1>2. /\ t_expected = (g + 1) % Wrap
        /\ m = IF g = 0 THEN [kind |-> "read", file |-> t_file, port |-> t_port]
               ELSE [kind |-> "ack", n |-> g % Wrap, port |-> t_port]
        /\ \A k \in 1 .. g : t_got[k] = Tftp!Block(t_file, k)
        /\ g > 0 => t_file \in Served /\ g <= Files[t_file] /\ t_remote_port = t_port
        /\ Asked(q, t_file, g, t_port)
    BY DEF TftpInv, ReadInv
  <1>3. m \in Questions /\ m.port = t_port
    BY <1>1, <1>2, NumbersLemma DEF Questions
  <1>4. /\ q' \in Seq(Questions) /\ Len(q') = Len(q) + 1 /\ q'[Len(q) + 1] = m
        /\ \A i \in 1 .. Len(q) : q'[i] = q[i]
        /\ \A i \in 1 .. Len(q') : i \in 1 .. Len(q) \/ i = Len(q) + 1
    BY <1>1, <1>3, OneMore
  <1>5. Ports(q', f', t_remote_port, t_port)
    <2>1. Ports(q', f, t_remote_port, t_port)
      BY <1>1, <1>3, AskingKeeps
    <2> QED
      BY <1>1, <1>4, <2>1, TakenKeeps
  <1>6. Asked(q', t_file, g, t_port)
    BY <1>1, <1>2, <1>3, AskedAgain
  <1>7. /\ f' \in Seq(Replies)
         /\ \A i \in 1 .. Len(f') : \E j \in 1 .. Len(f) : f'[i] = f[j]
    <2>1. CASE f' = f
      BY <1>1, <2>1
    <2>2. CASE f # << >> /\ f' = Tail(f)
      BY <1>1, <2>2, RestLemma
    <2> QED
      BY <2>1, <2>2
  <1>8. ReadInv'
    <2>1. CASE t_file \in Served
      <3>1. Sent(f, t_file, g, t_pos, t_port) /\ (t_remote_port = t_port => Serves(g))
        BY <2>1 DEF TftpInv, ReadInv
      <3>2. t_remote_port = t_port => Serves(g)'
        BY <1>2, <1>4, <3>1 DEF Serves, Tftp!Block
      <3>3. Sent(f', t_file, g, t_pos, t_port)
        BY <1>1, <3>1, TakenKeeps
      <3> QED
        BY <1>2, <1>6, <2>1, <3>2, <3>3 DEF ReadInv, Served, Tftp!Block
    <2>2. CASE t_file \notin Served
      <3>1. \A i \in 1 .. Len(f) : f[i].port = t_port => f[i].kind = "error"
        BY <2>2 DEF TftpInv, ReadInv
      <3>2. \A i \in 1 .. Len(f') : f'[i].port = t_port => f'[i].kind = "error"
        BY <1>7, <3>1
      <3> QED
        BY <1>2, <1>6, <2>2, <3>2 DEF ReadInv, Served, Tftp!Block
    <2> QED
      BY <2>1, <2>2
  <1>9. WriteInv'
    BY DEF WriteInv, Writing, Reading
  <1>10. TftpTypes'
    BY <1>1, <1>4, <1>7 DEF TftpTypes
  <1>11. Tftp!TransferIsTheFile'
    BY DEF Tftp!TransferIsTheFile, Reading
  <1> QED
    BY <1>5, <1>8, <1>9, <1>10, <1>11 DEF TftpInv, PortInv

\* A transfer without a block ends: its file is not served, or it is a write.
LEMMA IdleKeeps ==
  ASSUME TftpInv, t_at' = "idle", t_got = << >>,
         UNCHANGED <<t_card, t_seq_num, t_remote_port, t_open, t_pos, t_sd_buffer, t_file,
                     t_port, t_expected, t_got, t_last_sent, t_toServer>>,
         \/ t_toClient' = t_toClient
         \/ t_toClient # << >> /\ t_toClient' = Tail(t_toClient)
  PROVE  TftpInv'
  <1>1. /\ TftpTypes /\ Ports(t_toServer, t_toClient, t_remote_port, t_port)
        /\ t_toServer \in Seq(Questions) /\ t_toClient \in Seq(Replies) /\ t_port \in Nat
        /\ t_remote_port \in Nat
    BY DEF TftpInv, TftpTypes, PortInv
  <1>2. t_toClient' \in Seq(Replies)
    BY <1>1, RestLemma
  <1>3. PortInv'
    BY <1>1, TakenKeeps DEF PortInv
  <1>4. TftpTypes'
    BY <1>1, <1>2 DEF TftpTypes
  <1>5. ReadInv' /\ WriteInv' /\ Tftp!TransferIsTheFile'
    BY DEF ReadInv, WriteInv, Reading, Writing, Tftp!TransferIsTheFile
  <1> QED
    BY <1>3, <1>4, <1>5 DEF TftpInv

\* A transfer begins under a port no packet on the network has.
LEMMA BeginStep ==
  ASSUME TftpInv, NEW kind \in {"read", "write"}, NEW name \in Names, Tftp!Begin(kind, name)
  PROVE  TftpInv'
  <1> DEFINE q == t_toServer
             f == t_toClient
             m == [kind |-> kind, file |-> name, port |-> t_port + 1]
  <1>1. /\ TftpTypes /\ q \in Seq(Questions) /\ f \in Seq(Replies) /\ t_port \in Nat
        /\ t_remote_port \in Nat /\ Ports(q, f, t_remote_port, t_port)
    BY DEF TftpInv, TftpTypes, PortInv
  <1>2. /\ t_at' = "reads" /\ t_file' = name /\ t_port' = t_port + 1
        /\ t_expected' = IF kind = "read" THEN 1 ELSE 0
        /\ t_got' = << >> /\ t_last_sent' = m /\ q' = Append(q, m) /\ f' = f
        /\ UNCHANGED <<t_card, t_seq_num, t_remote_port, t_open, t_pos, t_sd_buffer>>
    BY DEF Tftp!Begin, Tftp!SendToServer, Tftp!Request, Tftp!server
  <1>3. m \in Questions /\ m.port = t_port + 1 /\ m.kind = kind
    BY <1>1 DEF Questions
  <1> HIDE DEF m
  <1>4. /\ q' \in Seq(Questions) /\ Len(q') = Len(q) + 1 /\ q'[Len(q) + 1] = m
        /\ \A i \in 1 .. Len(q) : q'[i] = q[i]
        /\ \A i \in 1 .. Len(q') : i \in 1 .. Len(q) \/ i = Len(q) + 1
    BY <1>1, <1>2, <1>3, OneMore
  <1>5. /\ \A i \in 1 .. Len(q) : q[i].port \in Nat /\ q[i].port <= t_port
        /\ \A i \in 1 .. Len(f) : f[i].port \in Nat /\ f[i].port <= t_port
    <2>1. /\ \A i \in 1 .. Len(q) : q[i] \in Questions
          /\ \A i \in 1 .. Len(f) : f[i] \in Replies
      BY <1>1
    <2> QED
      BY <1>1, <2>1 DEF Ports, Questions, Replies
  <1>6. /\ \A i \in 1 .. Len(q') : q'[i].port = t_port' => q'[i] = m /\ i = Len(q) + 1
        /\ \A i \in 1 .. Len(f') : f'[i].port # t_port'
    <2>1. ASSUME NEW i \in 1 .. Len(q'), q'[i].port = t_port'
          PROVE  q'[i] = m /\ i = Len(q) + 1
      <3>1. i \notin 1 .. Len(q)
        BY <1>1, <1>2, <1>4, <1>5, <2>1
      <3> QED
        BY <1>4, <3>1
    <2>2. ASSUME NEW i \in 1 .. Len(f')
          PROVE  f'[i].port # t_port'
      BY <1>1, <1>2, <1>5
    <2> QED
      BY <2>1, <2>2
  <1>7. PortInv'
    <2>1. t_remote_port <= t_port + 1 /\ t_remote_port # t_port + 1
      BY <1>1 DEF Ports
    <2>2. \A i \in 1 .. Len(q') : q'[i].port <= t_port + 1
      BY <1>1, <1>3, <1>4, <1>5
    <2>3. \A i \in 1 .. Len(f') : f'[i].port <= t_port + 1
      BY <1>1, <1>2, <1>5
    <2>4. \A i, j \in 1 .. Len(q') : i < j => q'[i].port # t_port + 1
      <3> SUFFICES ASSUME NEW i \in 1 .. Len(q'), NEW j \in 1 .. Len(q'), i < j,
                          q'[i].port = t_port + 1
                   PROVE  FALSE
        OBVIOUS
      <3>1. i = Len(q) + 1
        BY <1>2, <1>6
      <3> QED
        BY <1>1, <1>4, <3>1
    <2> QED
      BY <1>2, <1>6, <2>1, <2>2, <2>3, <2>4 DEF PortInv, Ports
  <1>8. 1 \in Numbers /\ 0 \in Numbers /\ (0 + 1) % Wrap = 1
    BY SizesLemma DEF Numbers
  <1>9. TftpTypes'
    <2>1. t_got' \in Seq(FileBlocks) /\ t_port' \in Nat
      BY <1>1, <1>2
    <2> QED
      BY <1>1, <1>2, <1>3, <1>4, <1>8, <2>1 DEF TftpTypes
  <1>10. ReadInv'
    <2>1. CASE kind = "read"
      <3>1. m = [kind |-> "read", file |-> name, port |-> t_port + 1]
        BY <2>1 DEF m
      <3>2. Len(t_got') = 0
        BY <1>2
      <3>3. Asked(q', name, 0, t_port + 1)
        <4>1. \A i \in 1 .. Len(q') : q'[i] # [kind |-> "ack", n |-> 0 % Wrap, port |-> t_port + 1]
          <5> SUFFICES ASSUME NEW i \in 1 .. Len(q'),
                              q'[i] = [kind |-> "ack", n |-> 0 % Wrap, port |-> t_port + 1]
                       PROVE  FALSE
            OBVIOUS
          <5>1. q'[i].port = t_port + 1 /\ q'[i].kind = "ack"
            OBVIOUS
          <5> QED
            BY <1>2, <1>3, <1>6, <2>1, <5>1
        <4> QED
          BY <1>2, <1>6, <3>1, <4>1 DEF Asked
      <3>4. Sent(f', name, 0, t_pos, t_port + 1)
        BY <1>2, <1>6 DEF Sent
      <3>5. t_remote_port' # t_port'
        BY <1>1, <1>2 DEF Ports
      <3>6. \A k \in 1 .. 0 : FALSE
        OBVIOUS
      <3> QED
        BY <1>2, <1>6, <1>8, <2>1, <3>1, <3>2, <3>3, <3>4, <3>5, <3>6 DEF ReadInv
    <2>2. CASE kind = "write"
      BY <1>2, <1>3, <2>2 DEF ReadInv, Reading
    <2> QED
      BY <2>1, <2>2
  <1>11. WriteInv'
    BY <1>2, <1>3, <1>6 DEF WriteInv, Writing
  <1>12. Tftp!TransferIsTheFile'
    BY <1>2 DEF Tftp!TransferIsTheFile
  <1> QED
    BY <1>7, <1>9, <1>10, <1>11, <1>12 DEF TftpInv

\* The next block is taken: what comes behind it is that block again, and the
\* server waits for its acknowledgement.
LEMMA TakeStep ==
  ASSUME TftpInv, t_at = "reads", t_toClient # << >>, t_toClient[1].port = t_port,
         t_toClient[1].kind = "data", t_toClient[1].n = t_expected,
         t_toClient' = Tail(t_toClient),
         t_got' = Append(t_got, t_toClient[1].block),
         t_expected' = (t_expected + 1) % Wrap,
         t_last_sent' = [kind |-> "ack", n |-> t_toClient[1].n, port |-> t_port],
         t_toServer' = Append(t_toServer, t_last_sent'),
         t_at' = IF t_toClient[1].block.short THEN "idle" ELSE t_at,
         UNCHANGED <<t_card, t_seq_num, t_remote_port, t_open, t_pos, t_sd_buffer, t_file, t_port>>
  PROVE  TftpInv'
  <1> DEFINE q == t_toServer
             f == t_toClient
             g == Len(t_got)
             k == g + 1
             m == t_last_sent'
             b == Tftp!Block(t_file, k)
  <1>1. /\ TftpTypes /\ q \in Seq(Questions) /\ f \in Seq(Replies) /\ t_port \in Nat
        /\ t_remote_port \in Nat /\ g \in Nat /\ k \in Nat /\ t_file \in Names
        /\ t_got \in Seq(FileBlocks) /\ Ports(q, f, t_remote_port, t_port)
    BY DEF TftpInv, TftpTypes, PortInv
  <1>2. /\ Reading /\ t_file \in Served /\ t_remote_port = t_port
        /\ f[1].n = k % Wrap /\ f[1].block = b /\ k <= t_pos
    BY DataLemma
  <1>3. /\ t_expected = k % Wrap /\ \A i \in 1 .. g : t_got[i] = Tftp!Block(t_file, i)
        /\ g > 0 => g <= Files[t_file]
        /\ Asked(q, t_file, g, t_port) /\ Sent(f, t_file, g, t_pos, t_port) /\ Serves(g)
    BY <1>2 DEF TftpInv, ReadInv
  <1>4. t_pos = k /\ t_pos \in Nat
    <2>1. t_pos \in {g, g + 1}
      BY <1>3 DEF Serves
    <2>2. g \in Nat /\ k = g + 1 /\ k <= t_pos
      BY <1>1, <1>2
    <2> HIDE DEF q, f, g, k, m, b
    <2> QED
      BY <2>1, <2>2
  <1>5. /\ b \in FileBlocks /\ b.k = k /\ b.short = (k > Files[t_file]) /\ Files[t_file] \in Nat
    BY <1>1, <1>2, BlockType, SizesLemma, ServedFiles
  <1>6. m = [kind |-> "ack", n |-> k % Wrap, port |-> t_port] /\ m.port = t_port
        /\ m \in Questions
    BY <1>1, <1>2, NumbersLemma DEF Questions
  <1> HIDE DEF m, b
  <1>7. /\ q' \in Seq(Questions) /\ f' \in Seq(Replies) /\ f' = Tail(f) /\ q' = Append(q, m)
        /\ 1 \in 1 .. Len(f)
        /\ \A i \in 1 .. Len(f') : f'[i] = f[i + 1] /\ i + 1 \in 1 .. Len(f)
    BY <1>1, <1>6, RestLemma, OneMore DEF m
  <1>8. /\ t_got' \in Seq(FileBlocks) /\ Len(t_got') = k /\ t_got'[k] = b
        /\ \A i \in 1 .. k : t_got'[i] = Tftp!Block(t_file, i)
    <2>1. /\ t_got' \in Seq(FileBlocks) /\ Len(t_got') = k /\ t_got'[k] = b
          /\ \A i \in 1 .. g : t_got'[i] = t_got[i]
          /\ \A i \in 1 .. k : i \in 1 .. g \/ i = k
      BY <1>1, <1>2, <1>5, OneMore
    <2> QED
      BY <1>3, <2>1 DEF b
  <1>9. PortInv'
    <2>1. Ports(q', f, t_remote_port, t_port)
      BY <1>1, <1>6, <1>7, AskingKeeps
    <2>2. Ports(q', f', t_remote_port, t_port)
      BY <1>1, <1>7, <2>1, TakenKeeps
    <2> QED
      BY <2>2 DEF PortInv
  <1>10. TftpTypes'
    <2>1. t_expected' = (k + 1) % Wrap
      BY <1>1, <1>3, NumbersLemma
    <2>2. t_expected' \in Numbers
      BY <1>1, <2>1, NumbersLemma
    <2> QED
      BY <1>1, <1>6, <1>7, <1>8, <2>2 DEF TftpTypes, m
  <1>11. ASSUME t_at' = "reads"
         PROVE  ReadInv'
    <2>1. k <= Files[t_file]
      <3>1. ~ f[1].block.short
        BY <1>11
      <3>2. ~ (k > Files[t_file])
        BY <1>2, <1>5, <3>1
      <3> QED
        BY <1>1, <1>5, <3>2
    <2>2. t_expected' = (k + 1) % Wrap
      BY <1>1, <1>3, NumbersLemma
    <2>3. Asked(q', t_file, k, t_port)
      <3>1. \A i \in 1 .. Len(q) : q[i].port = t_port
        BY <1>2, <1>1 DEF Ports
      <3>2. g >= 1 => \A i \in 1 .. Len(q) :
                        q[i] = [kind |-> "ack", n |-> g % Wrap, port |-> t_port]
        BY <1>3, <1>4 DEF Serves
      <3> QED
        <4>1. Asked(q, t_file, g, t_port) /\ q \in Seq(Questions) /\ t_file \in Names
              /\ g \in Nat /\ t_port \in Nat /\ m \in Questions
          BY <1>1, <1>3, <1>6
        <4>2. m = [kind |-> "ack", n |-> (g + 1) % Wrap, port |-> t_port]
          BY <1>6
        <4> HIDE DEF q, g
        <4>3. Asked(Append(q, m), t_file, g + 1, t_port)
          BY <3>1, <3>2, <4>1, <4>2, AskedNext
        <4> QED
          BY <1>7, <4>3
    <2>4. ASSUME NEW i \in 1 .. Len(f'), f'[i].port = t_port
          PROVE  f'[i] = [kind |-> "data", n |-> k % Wrap, block |-> b, port |-> t_port]
      <3>1. i + 1 \in 1 .. Len(f) /\ 1 < i + 1 /\ f[i + 1].port = t_port /\ f'[i] = f[i + 1]
        BY <1>7, <2>4
      <3>2. f[1].block.k <= f[i + 1].block.k
        BY <1>3, <1>7, <3>1 DEF Sent
      <3>3. PICK n \in {g, g + 1} :
              /\ n >= 1
              /\ f[i + 1] = [kind |-> "data", n |-> n % Wrap,
                             block |-> Tftp!Block(t_file, n), port |-> t_port]
        BY <1>3, <3>1 DEF Sent
      <3>4. f[i + 1].block.k = n
        BY <1>1, <1>2, <3>3, BlockType, ServedFiles
      <3>5. n = k
        BY <1>1, <1>2, <1>5, <3>2, <3>3, <3>4
      <3> QED
        BY <3>1, <3>3, <3>5 DEF b
    <2>5. Sent(f', t_file, k, t_pos, t_port)
      <3>1. ASSUME NEW i \in 1 .. Len(f'), f'[i].port = t_port
            PROVE  \E n \in {k, k + 1} :
                     /\ n >= 1 /\ n <= t_pos
                     /\ f'[i] = [kind |-> "data", n |-> n % Wrap,
                                 block |-> Tftp!Block(t_file, n), port |-> t_port]
        BY <1>1, <1>4, <2>4, <3>1 DEF b
      <3>2. ASSUME NEW i \in 1 .. Len(f'), NEW j \in 1 .. Len(f'),
                   f'[i].port = t_port, f'[j].port = t_port
            PROVE  f'[i].block.k <= f'[j].block.k
        <4>1. f'[i].block.k = k /\ f'[j].block.k = k
          BY <1>5, <2>4, <3>2
        <4> QED
          BY <1>1, <4>1
      <3> QED
        BY <3>1, <3>2 DEF Sent
    <2>6. Serves(Len(t_got))'
      <3>1. t_pos' # Len(t_got') + 1 /\ t_pos' = Len(t_got')
        BY <1>1, <1>4, <1>8
      <3> QED
        BY <1>1, <1>2, <1>3, <3>1 DEF Serves, Tftp!Block
    <2>7. k # 0 /\ k > 0
      BY <1>1
    <2> QED
      BY <1>2, <1>6, <1>8, <2>1, <2>2, <2>3, <2>5, <2>6, <2>7 DEF ReadInv, Served, Tftp!Block, m
  <1>12. ReadInv'
    BY <1>11 DEF ReadInv, Reading
  <1>13. WriteInv'
    BY <1>6 DEF WriteInv, Writing, m
  <1>14. Tftp!TransferIsTheFile'
    <2> SUFFICES ASSUME t_at' = "idle"
                 PROVE  /\ Len(t_got') = Files[t_file] + 1
                        /\ \A i \in DOMAIN t_got' : t_got'[i] = Tftp!Block(t_file, i)
      BY DEF Tftp!TransferIsTheFile, Tftp!Block
    <2>1. k > Files[t_file]
      BY <1>2, <1>5
    <2>2. k = Files[t_file] + 1
      BY <1>1, <1>3, <1>5, <2>1
    <2>3. DOMAIN t_got' = 1 .. k
      BY <1>8
    <2> QED
      BY <1>8, <2>2, <2>3
  <1> QED
    BY <1>9, <1>10, <1>12, <1>13, <1>14 DEF TftpInv

LEMMA ReceiveStep ==
  ASSUME TftpInv, Tftp!ReceiveData
  PROVE  TftpInv'
  <1> DEFINE p == t_toClient[1]
             mine == t_at = "reads" /\ p.port = t_port
             g == Len(t_got)
  <1>1. /\ TftpTypes /\ t_toServer \in Seq(Questions) /\ t_toClient \in Seq(Replies) /\ g \in Nat
        /\ t_toClient # << >> /\ t_toClient' = Tail(t_toClient)
        /\ UNCHANGED <<t_card, t_seq_num, t_remote_port, t_open, t_pos, t_sd_buffer, t_file, t_port>>
    BY DEF TftpInv, TftpTypes, Tftp!ReceiveData, Tftp!server
  <1>2. Head(t_toClient) = p /\ p \in Replies /\ 1 \in 1 .. Len(t_toClient)
    BY <1>1, RestLemma
  <1>3. \/ /\ mine /\ p.kind = "data" /\ p.n = t_expected
           /\ t_got' = Append(t_got, p.block) /\ t_expected' = (t_expected + 1) % Wrap
           /\ t_last_sent' = Tftp!Ack(p.n) /\ t_toServer' = Append(t_toServer, Tftp!Ack(p.n))
           /\ t_at' = IF p.block.short THEN "idle" ELSE t_at
        \/ /\ mine /\ p.kind = "data" /\ (p.n + 1) % Wrap = t_expected
           /\ t_last_sent' = Tftp!Ack(p.n) /\ t_toServer' = Append(t_toServer, Tftp!Ack(p.n))
           /\ UNCHANGED <<t_at, t_got, t_expected>>
        \/ /\ mine /\ p.kind = "error"
           /\ t_at' = "idle" /\ UNCHANGED <<t_toServer, t_last_sent, t_got, t_expected>>
        \/ UNCHANGED <<t_toServer, t_at, t_got, t_expected, t_last_sent>>
    BY <1>2 DEF Tftp!ReceiveData, Tftp!SendToServer
  <1>4. CASE /\ mine /\ p.kind = "data" /\ p.n = t_expected
             /\ t_got' = Append(t_got, p.block) /\ t_expected' = (t_expected + 1) % Wrap
             /\ t_last_sent' = Tftp!Ack(p.n) /\ t_toServer' = Append(t_toServer, Tftp!Ack(p.n))
             /\ t_at' = IF p.block.short THEN "idle" ELSE t_at
    BY <1>1, <1>4, TakeStep DEF Tftp!Ack
  <1>5. CASE /\ mine /\ p.kind = "data" /\ (p.n + 1) % Wrap = t_expected
             /\ t_last_sent' = Tftp!Ack(p.n) /\ t_toServer' = Append(t_toServer, Tftp!Ack(p.n))
             /\ UNCHANGED <<t_at, t_got, t_expected>>
    <2>1. /\ Reading /\ g \in Nat /\ g >= 1 /\ p.n = g % Wrap
      BY <1>1, <1>5, DataLemma
    <2>2. t_last_sent = Tftp!Ack(p.n)
      BY <2>1 DEF TftpInv, ReadInv, Tftp!Ack
    <2> QED
      BY <1>1, <1>5, <2>1, <2>2, RepeatKeeps
  <1>6. CASE /\ mine /\ p.kind = "error"
             /\ t_at' = "idle" /\ UNCHANGED <<t_toServer, t_last_sent, t_got, t_expected>>
    <2>1. t_got = << >>
      <3>1. CASE Writing
        BY <3>1 DEF TftpInv, WriteInv
      <3>2. CASE Reading
        <4>1. CASE t_file \in Served
          <5>1. Sent(t_toClient, t_file, g, t_pos, t_port)
            BY <3>2, <4>1 DEF TftpInv, ReadInv
          <5>2. p.kind = "data"
            BY <1>2, <1>6, <5>1 DEF Sent
          <5> QED
            BY <1>6, <5>2
        <4>2. CASE t_file \notin Served
          <5>1. ~ (g > 0)
            BY <3>2, <4>2 DEF TftpInv, ReadInv
          <5> QED
            BY <1>1, <5>1 DEF TftpTypes
        <4> QED
          BY <4>1, <4>2
      <3> QED
        BY <1>6, <3>1, <3>2 DEF Reading, Writing
    <2> QED
      BY <1>1, <1>6, <2>1, IdleKeeps
  <1>7. CASE UNCHANGED <<t_toServer, t_at, t_got, t_expected, t_last_sent>>
    BY <1>1, <1>7, DropKeeps
  <1> QED
    BY <1>3, <1>4, <1>5, <1>6, <1>7

LEMMA TftpStep ==
  ASSUME TftpInv, Tftp!Next
  PROVE  TftpInv'
  <1>1. CASE \E f \in DOMAIN Files \cup {Missing} : Tftp!Begin("read", f) \/ Tftp!Begin("write", f)
    BY <1>1, BeginStep DEF Names
  <1>2. CASE Tftp!Server
    BY <1>2, ServerStep
  <1>3. CASE Tftp!ReceiveData
    BY <1>3, ReceiveStep
  <1>4. CASE Tftp!GiveUp
    <2>1. Writing /\ t_at' = "idle"
          /\ UNCHANGED <<t_card, t_seq_num, t_remote_port, t_open, t_pos, t_sd_buffer, t_file,
                         t_port, t_expected, t_got, t_last_sent, t_toServer, t_toClient>>
      BY <1>4 DEF Tftp!GiveUp, Tftp!server, Tftp!net, Writing
    <2>2. t_got = << >>
      BY <2>1 DEF TftpInv, WriteInv
    <2> QED
      BY <2>1, <2>2, IdleKeeps
  <1>5. CASE Tftp!Timeout
    <2>1. Reading /\ t_toServer' = Append(t_toServer, t_last_sent)
          /\ UNCHANGED <<t_card, t_seq_num, t_remote_port, t_open, t_pos, t_sd_buffer, t_at, t_file,
                         t_port, t_expected, t_got, t_last_sent, t_toClient>>
      BY <1>5 DEF Tftp!Timeout, Tftp!SendToServer, Tftp!server, Reading
    <2> QED
      BY <2>1, RepeatKeeps
  <1>6. CASE Tftp!Lose
    BY <1>6, DropKeeps DEF Tftp!Lose, Tftp!server, Tftp!client
  <1> QED
    BY <1>1, <1>2, <1>3, <1>4, <1>5, <1>6 DEF Tftp!Next

LEMMA TftpStays ==
  ASSUME TftpInv, UNCHANGED t_vars
  PROVE  TftpInv'
  BY DEF t_vars, TftpInv, TftpTypes, PortInv, ReadInv, WriteInv, Reading, Writing, Serves, Served,
     Tftp!TransferIsTheFile, Tftp!Block

LEMMA TftpStarts ==
  ASSUME Tftp!Init
  PROVE  TftpInv
  <1>1. 0 \in Numbers
    BY SizesLemma DEF Numbers
  <1>2. /\ t_at = "idle" /\ t_got = << >> /\ t_toServer = << >> /\ t_toClient = << >>
        /\ t_port = 0 /\ t_remote_port = 0
    BY DEF Tftp!Init
  <1>3. TftpTypes
    BY <1>1 DEF Tftp!Init, TftpTypes, Names, FileBlocks
  <1>4. PortInv
    BY <1>2 DEF PortInv, Ports
  <1> QED
    BY <1>2, <1>3, <1>4
       DEF TftpInv, ReadInv, WriteInv, Reading, Writing, Tftp!TransferIsTheFile

-----------------------------------------------------------------------------
(* etherload: types *)

N == Len(Blocks)
Addresses == {Blocks[i] : i \in 1 .. N}
DataFrames ==
  {m \in [kind : {"data"}, addr : Addresses, block : 1 .. N, seq : Nat, rom : BOOLEAN] :
     m.addr = Blocks[m.block] /\ (m.rom <=> m.block = 1)}
Frames == [kind : {"hyperrupt"}] \cup [kind : {"ping", "done"}, seq : Nat] \cup DataFrames
Places ==
  {Load!At("trigger", "", 0), Load!At("single", "ping", 0), Load!At("answer", "ping", 0),
   Load!At("wait", "", 0), Load!At("single", "done", 0), Load!At("answer", "done", 0),
   Load!At("end", "ok", 0), Load!At("end", "failed", 0)}
    \cup {Load!At("load", "", i) : i \in 1 .. N}

LoadTypes ==
  /\ d_pc \in Places /\ d_packet_seq \in Nat
  /\ d_unacked \in Seq(Frames) /\ Len(d_unacked) <= QueueLength
  /\ d_single \in BOOLEAN /\ d_rom_write_enabled \in BOOLEAN
  /\ d_toMega \in Seq(Frames) /\ d_toPc \in Seq(Frames)
  /\ d_loader \in {"off", "runs", "started"}
  /\ d_ram \in [Addresses -> 0 .. N] /\ d_rom_writable \in BOOLEAN
  /\ d_losses \in 0 .. MaxLosses /\ d_resends \in 0 .. MaxResends

-----------------------------------------------------------------------------
(* etherload: the inductive invariant *)

\* Where etherload is.
Is(p, at, kind) == p.at = at /\ p.kind = kind
Early(p) == p.at = "trigger" \/ p.kind = "ping"
FirstLoad(p) == p.at = "load" /\ p.i = 1
Ended(p) == p.at = "end" \/ Is(p, "answer", "done")
Finishing(p) == Is(p, "answer", "done") \/ Is(p, "end", "ok")

\* No block behind this one has been sent.
Given(p) == IF Early(p) THEN 0 ELSE IF p.at = "load" THEN p.i - 1 ELSE N

No(kind, s) == \A p \in 1 .. Len(s) : s[p].kind # kind

\* No ping comes behind a block.
PingsFirst(s) ==
  \A p, q \in 1 .. Len(s) : p < q /\ s[p].kind = "data" => s[q].kind # "ping"

\* The first block comes before the others.
FirstComesFirst(s) ==
  \E p \in 1 .. Len(s) :
    /\ s[p].kind = "data" /\ s[p].block = 1
    /\ \A q \in 1 .. Len(s) : q < p => s[q].kind # "data"

\* No frame arrives behind a later one for its address, and memory has no later
\* block than the frames that still come for an address.
InOrder(t, u) ==
  /\ \A p, q \in 1 .. Len(t) :
       p < q /\ t[p].kind = "data" /\ t[q].kind = "data" /\ t[p].addr = t[q].addr
       => t[p].block <= t[q].block
  /\ \A p \in 1 .. Len(t), j \in 1 .. Len(u) :
       t[p].kind = "data" /\ u[j].kind = "data" /\ t[p].addr = u[j].addr
       => t[p].block <= u[j].block
  /\ \A i, j \in 1 .. Len(u) :
       i # j /\ u[i].kind = "data" /\ u[j].kind = "data" => u[i].addr # u[j].addr
UpTo(s, given) == \A p \in 1 .. Len(s) : s[p].kind = "data" => s[p].block <= given
NotBefore(s, ram) == \A p \in 1 .. Len(s) : s[p].kind = "data" => ram[s[p].addr] <= s[p].block
RamHolds(ram, given) ==
  \A a \in Addresses : ram[a] <= given /\ (ram[a] = 0 \/ Blocks[ram[a]] = a)

OrderInv ==
  /\ InOrder(d_toMega, d_unacked)
  /\ NotBefore(d_toMega, d_ram) /\ NotBefore(d_unacked, d_ram)
  /\ UpTo(d_toMega, Given(d_pc)) /\ UpTo(d_unacked, Given(d_pc)) /\ UpTo(d_toPc, Given(d_pc))
  /\ RamHolds(d_ram, Given(d_pc))

\* A block that is acknowledged is in memory, it or a later one for its address.
Stored(i, ram, lost) == (Blocks[i] \in Rom => lost = 0) => ram[Blocks[i]] >= i
Awaited(i, u) == \E j \in 1 .. Len(u) : u[j].kind = "data" /\ u[j].block = i
AllStored(s, ram, lost) ==
  \A p \in 1 .. Len(s) : s[p].kind = "data" => Stored(s[p].block, ram, lost)
Settled(given, u, ram, lost) == \A i \in 1 .. given : Stored(i, ram, lost) \/ Awaited(i, u)

StoreInv ==
  /\ AllStored(d_toPc, d_ram, d_losses)
  /\ d_overdue = {} => Settled(Given(d_pc), d_unacked, d_ram, d_losses)
  /\ d_overdue = {} /\ (Is(d_pc, "single", "done") \/ Ended(d_pc)) => No("data", d_unacked)
  /\ Finishing(d_pc) /\ "single" \notin d_overdue => No("data", d_unacked)
  /\ ~ Ended(d_pc) => d_loader # "started" /\ No("done", d_toMega)

\* While nothing is lost the first block lifts the protection.
RomInv ==
  /\ Early(d_pc) \/ FirstLoad(d_pc) => ~ d_rom_write_enabled
  /\ d_pc.at = "load" /\ ~ FirstLoad(d_pc) => d_rom_write_enabled
  /\ d_losses = 0 /\ ~ d_rom_writable /\ d_loader # "started" =>
       \/ FirstComesFirst(d_toMega)
       \/ No("data", d_toMega) /\ (Given(d_pc) = 0 \/ Is(d_pc, "end", "failed"))

\* The routine on the MEGA65 runs before the first block is sent.
RunInv ==
  /\ d_loader = "off" =>
       /\ Early(d_pc) \/ Is(d_pc, "end", "failed")
       /\ d_toPc = << >> /\ No("data", d_toMega)
  /\ Is(d_pc, "answer", "ping") /\ d_unacked = << >> => d_loader # "off"
  /\ d_pc.at = "trigger" \/ Is(d_pc, "single", "ping") \/ FirstLoad(d_pc) => d_unacked = << >>

\* Answers to the first command come before those of the blocks.
FramesOf(p, u) ==
  \A j \in 1 .. Len(u) :
    /\ u[j].kind # "hyperrupt"
    /\ u[j].kind = "ping" => Is(p, "answer", "ping") \/ p.at = "end"
    /\ u[j].kind = "done" => Ended(p)
PingInv ==
  /\ FramesOf(d_pc, d_unacked)
  /\ d_pc.at # "end" => (d_single <=> d_pc.at = "answer")
  /\ No("hyperrupt", d_toPc) /\ (d_loader # "started" => No("done", d_toPc))
  /\ PingsFirst(d_toMega) /\ PingsFirst(d_toPc)
  /\ No("data", d_toPc) \/ No("ping", d_toMega)
  /\ Given(d_pc) > 0 /\ ~ Is(d_pc, "end", "failed") /\ ~ Awaited(1, d_unacked) =>
       No("ping", d_toPc) /\ No("ping", d_toMega)
  /\ Is(d_pc, "answer", "done") /\ "single" \notin d_overdue /\ N > 0 /\ d_unacked = << >> =>
       d_loader = "started"

\* The answer that etherload takes for that of the last command is one.
EndInv ==
  Is(d_pc, "end", "ok") /\ N > 0 /\ "single" \notin d_overdue => d_loader = "started"

LoadInv == LoadTypes /\ OrderInv /\ StoreInv /\ RomInv /\ RunInv /\ PingInv /\ EndInv

-----------------------------------------------------------------------------
(* etherload: frames that are sent, lost, executed and acknowledged *)

LEMMA LoadSizesLemma ==
  /\ N \in Nat /\ Blocks \in Seq(Nat) /\ DOMAIN Blocks = 1 .. N /\ Load!Range(Blocks) = Addresses
  /\ \A i \in 1 .. N : Blocks[i] \in Addresses
  /\ QueueLength \in Nat /\ QueueLength > 0
  /\ MaxLosses \in Nat /\ MaxResends \in Nat
  BY LoadSizes DEF Load!DmaLoadAssumption, Load!Range, N, Addresses

LEMMA FrameLemma ==
  ASSUME NEW m \in Frames
  PROVE  /\ m.kind \in {"hyperrupt", "ping", "done", "data"}
         /\ m.kind = "data" =>
              /\ m.addr \in Addresses /\ m.block \in 1 .. N
              /\ m.addr = Blocks[m.block] /\ (m.rom <=> m.block = 1)
  BY DEF Frames, DataFrames

\* Where etherload is.
LEMMA Fields ==
  ASSUME NEW p, NEW at, NEW kind, NEW i, p = Load!At(at, kind, i)
  PROVE  p.at = at /\ p.kind = kind /\ p.i = i
  BY DEF Load!At

LEMMA PlaceLemma ==
  ASSUME NEW p \in Places
  PROVE  \/ Is(p, "trigger", "") \/ Is(p, "single", "ping") \/ Is(p, "answer", "ping")
         \/ Is(p, "wait", "") \/ Is(p, "single", "done") \/ Is(p, "answer", "done")
         \/ Is(p, "end", "ok") \/ Is(p, "end", "failed")
         \/ Is(p, "load", "") /\ p.i \in 1 .. N /\ p = Load!At("load", "", p.i)
  <1>1. CASE \E i \in 1 .. N : p = Load!At("load", "", i)
    <2>1. PICK k \in 1 .. N : p = Load!At("load", "", k)
      BY <1>1
    <2>2. p.at = "load" /\ p.kind = "" /\ p.i = k
      BY <2>1 DEF Load!At
    <2> QED
      BY <2>1, <2>2 DEF Is
  <1>2. CASE \/ p = Load!At("trigger", "", 0) \/ p = Load!At("single", "ping", 0)
             \/ p = Load!At("answer", "ping", 0) \/ p = Load!At("wait", "", 0)
             \/ p = Load!At("single", "done", 0) \/ p = Load!At("answer", "done", 0)
             \/ p = Load!At("end", "ok", 0) \/ p = Load!At("end", "failed", 0)
    BY <1>2, Fields DEF Is
  <1>3. \/ p \in {Load!At("trigger", "", 0), Load!At("single", "ping", 0), Load!At("answer", "ping", 0),
                 Load!At("wait", "", 0), Load!At("single", "done", 0), Load!At("answer", "done", 0),
                 Load!At("end", "ok", 0), Load!At("end", "failed", 0)}
        \/ \E i \in 1 .. N : p = Load!At("load", "", i)
    BY DEF Places
  <1> QED
    BY <1>1, <1>2, <1>3

LEMMA GivenLemma ==
  ASSUME NEW p \in Places
  PROVE  Given(p) \in 0 .. N
  <1>1. p.at = "load" => p.i \in 1 .. N
    BY PlaceLemma DEF Is
  <1> QED
    BY <1>1, LoadSizesLemma DEF Given

\* What is left of a sequence, in its order.
Part(r, s) ==
  /\ \A i \in 1 .. Len(r) : \E k \in 1 .. Len(s) : r[i] = s[k]
  /\ \A i, j \in 1 .. Len(r) : i < j =>
       \E k, l \in 1 .. Len(s) : k < l /\ r[i] = s[k] /\ r[j] = s[l]

LEMMA TailLemma ==
  ASSUME NEW S, NEW s \in Seq(S), s # << >>
  PROVE  /\ Tail(s) \in Seq(S) /\ Part(Tail(s), s)
         /\ Head(s) = s[1] /\ s[1] \in S /\ 1 \in 1 .. Len(s)
         /\ \A p \in 1 .. Len(s) : p = 1 \/ (p - 1 \in 1 .. Len(Tail(s)) /\ Tail(s)[p - 1] = s[p])
         /\ \A p \in 1 .. Len(Tail(s)) : p + 1 \in 1 .. Len(s) /\ Tail(s)[p] = s[p + 1]
  <1>1. /\ Tail(s) \in Seq(S) /\ Len(Tail(s)) = Len(s) - 1
        /\ Head(s) = s[1] /\ s[1] \in S /\ 1 \in 1 .. Len(s)
        /\ \A i \in 1 .. Len(Tail(s)) : Tail(s)[i] = s[i + 1] /\ i + 1 \in 1 .. Len(s)
    BY RestLemma
  <1> DEFINE r == Tail(s)
  <1> HIDE DEF r
  <1>2. \A i \in 1 .. Len(r) : r[i] = s[i + 1] /\ i + 1 \in 1 .. Len(s)
    BY <1>1 DEF r
  <1>3. ASSUME NEW i \in 1 .. Len(r), NEW j \in 1 .. Len(r), i < j
        PROVE  \E k, l \in 1 .. Len(s) : k < l /\ r[i] = s[k] /\ r[j] = s[l]
    <2>1. i + 1 < j + 1
      BY <1>3
    <2> QED
      BY <1>2, <2>1
  <1>4. Part(r, s)
    BY <1>2, <1>3 DEF Part
  <1>5. \A p \in 1 .. Len(s) : p = 1 \/ (p - 1 \in 1 .. Len(Tail(s)) /\ Tail(s)[p - 1] = s[p])
    BY <1>1
  <1> QED
    BY <1>1, <1>4, <1>5 DEF r

LEMMA Joined ==
  ASSUME NEW S, NEW a \in Seq(S), NEW b \in Seq(S)
  PROVE  a \o b \in Seq(S) /\ Len(a \o b) = Len(a) + Len(b)
  OBVIOUS

LEMMA RemovedLemma ==
  ASSUME NEW S, NEW s \in Seq(S), NEW x \in 1 .. Len(s)
  PROVE  /\ Load!RemoveAt(s, x) \in Seq(S) /\ Part(Load!RemoveAt(s, x), s)
         /\ Len(Load!RemoveAt(s, x)) = Len(s) - 1
         /\ \A k \in 1 .. Len(s) : k # x =>
              \E i \in 1 .. Len(Load!RemoveAt(s, x)) : Load!RemoveAt(s, x)[i] = s[k]
  <1> DEFINE a == SubSeq(s, 1, x - 1)
             b == SubSeq(s, x + 1, Len(s))
             r == a \o b
  <1>1. /\ a \in Seq(S) /\ Len(a) = x - 1 /\ \A i \in 1 .. x - 1 : a[i] = s[i]
    OBVIOUS
  <1>2. /\ b \in Seq(S) /\ Len(b) = Len(s) - x /\ \A i \in 1 .. Len(s) - x : b[i] = s[i + x]
    <2>1. b \in Seq(S) /\ Len(b) = Len(s) - x
      OBVIOUS
    <2>2. ASSUME NEW i \in 1 .. Len(s) - x
          PROVE  b[i] = s[i + x]
      OBVIOUS
    <2> QED
      BY <2>1, <2>2
  <1> HIDE DEF a, b
  <1>3. /\ r \in Seq(S) /\ Len(r) = Len(s) - 1
        /\ \A i \in 1 .. Len(s) - 1 : r[i] = IF i < x THEN s[i] ELSE s[i + 1]
    <2>1. r \in Seq(S) /\ Len(r) = Len(s) - 1
      <3>1. a \o b \in Seq(S) /\ Len(a \o b) = Len(a) + Len(b)
        <4>1. a \in Seq(S) /\ b \in Seq(S)
          BY <1>1, <1>2
        <4> QED
          BY <4>1, Joined
      <3>2. Len(a) + Len(b) = Len(s) - 1
        BY <1>1, <1>2
      <3> QED
        BY <3>1, <3>2
    <2>2. ASSUME NEW i \in 1 .. Len(s) - 1
          PROVE  r[i] = IF i < x THEN s[i] ELSE s[i + 1]
      <3>1. CASE i < x
        BY <1>1, <1>2, <3>1
      <3>2. CASE ~ (i < x)
        <4>1. r[i] = b[i - (x - 1)] /\ i - (x - 1) \in 1 .. Len(s) - x
          BY <1>1, <1>2, <3>2
        <4> QED
          BY <1>2, <3>2, <4>1
      <3> QED
        BY <3>1, <3>2
    <2> QED
      BY <2>1, <2>2
  <1>4. Load!RemoveAt(s, x) = r
    BY DEF Load!RemoveAt, r, a, b
  <1> HIDE DEF r
  <1>5. ASSUME NEW i \in 1 .. Len(r), NEW j \in 1 .. Len(r), i < j
        PROVE  \E k, l \in 1 .. Len(s) : k < l /\ r[i] = s[k] /\ r[j] = s[l]
    <2> DEFINE k == IF i < x THEN i ELSE i + 1
               l == IF j < x THEN j ELSE j + 1
    <2>1. k \in 1 .. Len(s) /\ l \in 1 .. Len(s) /\ k < l
      BY <1>3, <1>5
    <2>2. r[i] = s[k] /\ r[j] = s[l]
      BY <1>3
    <2> QED
      BY <2>1, <2>2
  <1>6. ASSUME NEW i \in 1 .. Len(r)
        PROVE  \E k \in 1 .. Len(s) : r[i] = s[k]
    <2> DEFINE k == IF i < x THEN i ELSE i + 1
    <2>1. k \in 1 .. Len(s) /\ r[i] = s[k]
      BY <1>3
    <2> QED
      BY <2>1
  <1>7. ASSUME NEW k \in 1 .. Len(s), k # x
        PROVE  \E i \in 1 .. Len(r) : r[i] = s[k]
    <2> DEFINE i == IF k < x THEN k ELSE k - 1
    <2>1. i \in 1 .. Len(r) /\ r[i] = s[k]
      BY <1>3, <1>7
    <2> QED
      BY <2>1
  <1>8. Part(r, s)
    BY <1>5, <1>6 DEF Part
  <1>9. \A k \in 1 .. Len(s) : k # x => \E i \in 1 .. Len(r) : r[i] = s[k]
    BY <1>7
  <1> QED
    BY <1>3, <1>4, <1>8, <1>9

LEMMA SameLemma ==
  ASSUME NEW s
  PROVE  Part(s, s)
  BY DEF Part

\* What is left keeps the order.
LEMMA PartInOrder ==
  ASSUME NEW t \in Seq(Frames), NEW u \in Seq(Frames), NEW r \in Seq(Frames), NEW v \in Seq(Frames),
         InOrder(t, u), Part(r, t), Part(v, u)
  PROVE  InOrder(r, v)
  <1>1. ASSUME NEW p \in 1 .. Len(r), NEW q \in 1 .. Len(r),
               p < q, r[p].kind = "data", r[q].kind = "data", r[p].addr = r[q].addr
        PROVE  r[p].block <= r[q].block
    <2>1. PICK k \in 1 .. Len(t), l \in 1 .. Len(t) : k < l /\ r[p] = t[k] /\ r[q] = t[l]
      BY <1>1 DEF Part
    <2> QED
      BY <1>1, <2>1 DEF InOrder
  <1>2. ASSUME NEW p \in 1 .. Len(r), NEW j \in 1 .. Len(v),
               r[p].kind = "data", v[j].kind = "data", r[p].addr = v[j].addr
        PROVE  r[p].block <= v[j].block
    <2>1. PICK k \in 1 .. Len(t) : r[p] = t[k]
      BY DEF Part
    <2>2. PICK l \in 1 .. Len(u) : v[j] = u[l]
      BY DEF Part
    <2> QED
      BY <1>2, <2>1, <2>2 DEF InOrder
  <1>3. ASSUME NEW i \in 1 .. Len(v), NEW j \in 1 .. Len(v),
               i < j, v[i].kind = "data", v[j].kind = "data"
        PROVE  v[i].addr # v[j].addr
    <2>1. PICK k \in 1 .. Len(u), l \in 1 .. Len(u) : k < l /\ v[i] = u[k] /\ v[j] = u[l]
      BY <1>3 DEF Part
    <2> QED
      BY <1>3, <2>1 DEF InOrder
  <1>4. ASSUME NEW i \in 1 .. Len(v), NEW j \in 1 .. Len(v),
               i # j, v[i].kind = "data", v[j].kind = "data"
        PROVE  v[i].addr # v[j].addr
    <2>1. i < j \/ j < i
      BY <1>4
    <2> QED
      BY <1>3, <1>4, <2>1
  <1> QED
    BY <1>1, <1>2, <1>4 DEF InOrder

\* A frame that is sent for the first time.
LEMMA NewInOrder ==
  ASSUME NEW t \in Seq(Frames), NEW u \in Seq(Frames), NEW m \in Frames, InOrder(t, u),
         m.kind = "data" =>
           /\ \A p \in 1 .. Len(t) :
                t[p].kind = "data" /\ t[p].addr = m.addr => t[p].block <= m.block
           /\ \A j \in 1 .. Len(u) : u[j].kind = "data" => u[j].addr # m.addr
  PROVE  InOrder(Append(t, m), Append(u, m))
  <1> DEFINE r == Append(t, m)
             v == Append(u, m)
  <1>1. /\ Len(r) = Len(t) + 1 /\ r[Len(t) + 1] = m /\ \A i \in 1 .. Len(t) : r[i] = t[i]
        /\ \A i \in 1 .. Len(r) : i \in 1 .. Len(t) \/ i = Len(t) + 1
    BY OneMore
  <1>2. /\ Len(v) = Len(u) + 1 /\ v[Len(u) + 1] = m /\ \A i \in 1 .. Len(u) : v[i] = u[i]
        /\ \A i \in 1 .. Len(v) : i \in 1 .. Len(u) \/ i = Len(u) + 1
    BY OneMore
  <1> HIDE DEF r, v
  <1>3. m.kind = "data" => m.block \in Nat
    BY FrameLemma, LoadSizesLemma
  <1>4. ASSUME NEW p \in 1 .. Len(r), NEW q \in 1 .. Len(r),
               p < q, r[p].kind = "data", r[q].kind = "data", r[p].addr = r[q].addr
        PROVE  r[p].block <= r[q].block
    <2>1. p \in 1 .. Len(t) /\ r[p] = t[p]
      BY <1>1, <1>4
    <2>2. CASE q \in 1 .. Len(t)
      BY <1>1, <1>4, <2>1, <2>2 DEF InOrder
    <2>3. CASE q = Len(t) + 1
      BY <1>1, <1>4, <2>1, <2>3
    <2> QED
      BY <1>1, <2>2, <2>3
  <1>5. ASSUME NEW p \in 1 .. Len(r), NEW j \in 1 .. Len(v),
               r[p].kind = "data", v[j].kind = "data", r[p].addr = v[j].addr
        PROVE  r[p].block <= v[j].block
    <2>1. CASE p \in 1 .. Len(t) /\ j \in 1 .. Len(u)
      BY <1>1, <1>2, <1>5, <2>1 DEF InOrder
    <2>2. CASE p = Len(t) + 1 /\ j \in 1 .. Len(u)
      BY <1>1, <1>2, <1>5, <2>2
    <2>3. CASE p \in 1 .. Len(t) /\ j = Len(u) + 1
      BY <1>1, <1>2, <1>5, <2>3
    <2>4. CASE p = Len(t) + 1 /\ j = Len(u) + 1
      BY <1>1, <1>2, <1>3, <1>5, <2>4
    <2> QED
      BY <1>1, <1>2, <2>1, <2>2, <2>3, <2>4
  <1>6. ASSUME NEW i \in 1 .. Len(v), NEW j \in 1 .. Len(v),
               i # j, v[i].kind = "data", v[j].kind = "data"
        PROVE  v[i].addr # v[j].addr
    <2>1. CASE i \in 1 .. Len(u) /\ j \in 1 .. Len(u)
      BY <1>2, <1>6, <2>1 DEF InOrder
    <2>2. CASE i = Len(u) + 1 /\ j \in 1 .. Len(u)
      BY <1>2, <1>6, <2>2
    <2>3. CASE i \in 1 .. Len(u) /\ j = Len(u) + 1
      BY <1>2, <1>6, <2>3
    <2> QED
      BY <1>2, <1>6, <2>1, <2>2, <2>3
  <1> QED
    BY <1>4, <1>5, <1>6 DEF InOrder, r, v

\* The oldest frame without an answer is sent again.
LEMMA AgainInOrder ==
  ASSUME NEW t \in Seq(Frames), NEW u \in Seq(Frames), InOrder(t, u), u # << >>
  PROVE  InOrder(Append(t, u[1]), u)
  <1> DEFINE m == u[1]
             r == Append(t, m)
  <1>1. 1 \in 1 .. Len(u) /\ m \in Frames
    BY RestLemma
  <1>2. /\ Len(r) = Len(t) + 1 /\ r[Len(t) + 1] = m /\ \A i \in 1 .. Len(t) : r[i] = t[i]
        /\ \A i \in 1 .. Len(r) : i \in 1 .. Len(t) \/ i = Len(t) + 1
    BY <1>1, OneMore
  <1> HIDE DEF r
  <1>3. m.kind = "data" => m.block \in Nat
    BY <1>1, FrameLemma, LoadSizesLemma
  <1>4. ASSUME NEW p \in 1 .. Len(r), NEW q \in 1 .. Len(r),
               p < q, r[p].kind = "data", r[q].kind = "data", r[p].addr = r[q].addr
        PROVE  r[p].block <= r[q].block
    <2>1. p \in 1 .. Len(t) /\ r[p] = t[p]
      BY <1>2, <1>4
    <2>2. CASE q \in 1 .. Len(t)
      BY <1>2, <1>4, <2>1, <2>2 DEF InOrder
    <2>3. CASE q = Len(t) + 1
      BY <1>1, <1>2, <1>4, <2>1, <2>3 DEF InOrder
    <2> QED
      BY <1>2, <2>2, <2>3
  <1>5. ASSUME NEW p \in 1 .. Len(r), NEW j \in 1 .. Len(u),
               r[p].kind = "data", u[j].kind = "data", r[p].addr = u[j].addr
        PROVE  r[p].block <= u[j].block
    <2>1. CASE p \in 1 .. Len(t)
      BY <1>2, <1>5, <2>1 DEF InOrder
    <2>2. CASE p = Len(t) + 1
      <3>1. j = 1
        BY <1>1, <1>2, <1>5, <2>2 DEF InOrder
      <3> QED
        BY <1>2, <1>3, <1>5, <2>2, <3>1
    <2> QED
      BY <1>2, <2>1, <2>2
  <1>6. \A i, j \in 1 .. Len(u) :
          i # j /\ u[i].kind = "data" /\ u[j].kind = "data" => u[i].addr # u[j].addr
    BY DEF InOrder
  <1> QED
    BY <1>4, <1>5, <1>6 DEF InOrder, r

\* What else holds of a part, or of one frame more.
LEMMA PartKeeps ==
  ASSUME NEW s \in Seq(Frames), NEW r \in Seq(Frames), Part(r, s)
  PROVE  /\ \A kind : No(kind, s) => No(kind, r)
         /\ PingsFirst(s) => PingsFirst(r)
         /\ \A given : UpTo(s, given) => UpTo(r, given)
         /\ \A ram : NotBefore(s, ram) => NotBefore(r, ram)
         /\ \A ram, lost : AllStored(s, ram, lost) => AllStored(r, ram, lost)
         /\ \A p : FramesOf(p, s) => FramesOf(p, r)
  <1>1. \A i \in 1 .. Len(r) : \E k \in 1 .. Len(s) : r[i] = s[k]
    BY DEF Part
  <1>2. ASSUME PingsFirst(s), NEW i \in 1 .. Len(r), NEW j \in 1 .. Len(r), i < j, r[i].kind = "data"
        PROVE  r[j].kind # "ping"
    <2>1. PICK k \in 1 .. Len(s), l \in 1 .. Len(s) : k < l /\ r[i] = s[k] /\ r[j] = s[l]
      BY <1>2 DEF Part
    <2> QED
      BY <1>2, <2>1 DEF PingsFirst
  <1>3. \A kind : No(kind, s) => No(kind, r)
    BY <1>1 DEF No
  <1>4. \A given : UpTo(s, given) => UpTo(r, given)
    BY <1>1 DEF UpTo
  <1>5. \A ram : NotBefore(s, ram) => NotBefore(r, ram)
    BY <1>1 DEF NotBefore
  <1>6. \A ram, lost : AllStored(s, ram, lost) => AllStored(r, ram, lost)
    BY <1>1 DEF AllStored
  <1>7. \A p : FramesOf(p, s) => FramesOf(p, r)
    BY <1>1 DEF FramesOf
  <1>8. PingsFirst(s) => PingsFirst(r)
    BY <1>2 DEF PingsFirst
  <1> QED
    BY <1>3, <1>4, <1>5, <1>6, <1>7, <1>8

LEMMA MoreKeeps ==
  ASSUME NEW s \in Seq(Frames), NEW m \in Frames
  PROVE  LET r == Append(s, m) IN
         /\ r \in Seq(Frames) /\ r # << >> /\ Len(r) = Len(s) + 1
         /\ \A kind : No(kind, s) /\ m.kind # kind => No(kind, r)
         /\ PingsFirst(s) /\ (m.kind # "ping" \/ No("data", s)) => PingsFirst(r)
         /\ FirstComesFirst(s) => FirstComesFirst(r)
         /\ No("data", s) /\ m.kind = "data" /\ m.block = 1 => FirstComesFirst(r)
         /\ \A given : UpTo(s, given) /\ (m.kind = "data" => m.block <= given) => UpTo(r, given)
         /\ \A ram : NotBefore(s, ram) /\ (m.kind = "data" => ram[m.addr] <= m.block) =>
              NotBefore(r, ram)
         /\ \A ram, lost : AllStored(s, ram, lost) /\ (m.kind = "data" => Stored(m.block, ram, lost)) =>
              AllStored(r, ram, lost)
         /\ \A i : Awaited(i, s) => Awaited(i, r)
         /\ m.kind = "data" => Awaited(m.block, r)
  <1> DEFINE r == Append(s, m)
  <1>1. /\ r \in Seq(Frames) /\ Len(r) = Len(s) + 1 /\ r[Len(s) + 1] = m
        /\ \A i \in 1 .. Len(s) : r[i] = s[i]
        /\ \A i \in 1 .. Len(s) + 1 : i \in 1 .. Len(s) \/ i = Len(s) + 1
    BY OneMore
  <1>2. Len(s) \in Nat
    OBVIOUS
  <1> HIDE DEF r
  <1>3. \A i \in 1 .. Len(s) : i \in 1 .. Len(r)
    BY <1>1, <1>2
  <1>4. Len(s) + 1 \in 1 .. Len(r)
    BY <1>1, <1>2
  <1>5. \A kind : No(kind, s) /\ m.kind # kind => No(kind, r)
    BY <1>1 DEF No
  <1>6. ASSUME PingsFirst(s), m.kind # "ping" \/ No("data", s)
        PROVE  PingsFirst(r)
    <2>1. SUFFICES ASSUME NEW p \in 1 .. Len(r), NEW q \in 1 .. Len(r), p < q, r[p].kind = "data"
          PROVE  r[q].kind # "ping"
      BY DEF PingsFirst
    <2>2. p \in 1 .. Len(s) /\ r[p] = s[p]
      BY <1>1, <2>1
    <2>3. m.kind # "ping"
      BY <1>6, <2>1, <2>2 DEF No
    <2>4. CASE q \in 1 .. Len(s)
      BY <1>1, <1>6, <2>1, <2>2, <2>4 DEF PingsFirst
    <2>5. CASE q = Len(s) + 1
      BY <1>1, <2>3, <2>5
    <2> QED
      BY <1>1, <2>4, <2>5
  <1>7. ASSUME FirstComesFirst(s)
        PROVE  FirstComesFirst(r)
    <2>1. PICK p \in 1 .. Len(s) :
            /\ s[p].kind = "data" /\ s[p].block = 1
            /\ \A q \in 1 .. Len(s) : q < p => s[q].kind # "data"
      BY <1>7 DEF FirstComesFirst
    <2>2. p \in 1 .. Len(r) /\ r[p] = s[p]
      BY <1>1, <1>3
    <2>3. \A q \in 1 .. Len(r) : q < p => r[q].kind # "data"
      BY <1>1, <1>2, <2>1
    <2> QED
      BY <2>1, <2>2, <2>3 DEF FirstComesFirst
  <1>8. ASSUME No("data", s), m.kind = "data", m.block = 1
        PROVE  FirstComesFirst(r)
    <2>1. \A q \in 1 .. Len(r) : q < Len(s) + 1 => r[q].kind # "data"
      BY <1>1, <1>2, <1>8 DEF No
    <2> QED
      BY <1>1, <1>4, <1>8, <2>1 DEF FirstComesFirst
  <1>9. \A given : UpTo(s, given) /\ (m.kind = "data" => m.block <= given) => UpTo(r, given)
    BY <1>1 DEF UpTo
  <1>10. \A ram : NotBefore(s, ram) /\ (m.kind = "data" => ram[m.addr] <= m.block) => NotBefore(r, ram)
    BY <1>1 DEF NotBefore
  <1>11. \A ram, lost : AllStored(s, ram, lost) /\ (m.kind = "data" => Stored(m.block, ram, lost)) =>
           AllStored(r, ram, lost)
    BY <1>1 DEF AllStored
  <1>12. \A i : Awaited(i, s) => Awaited(i, r)
    BY <1>1, <1>3 DEF Awaited
  <1>13. m.kind = "data" => Awaited(m.block, r)
    BY <1>1, <1>4 DEF Awaited
  <1>14. r # << >>
    BY <1>1, <1>2
  <1> QED
    BY <1>1, <1>5, <1>6, <1>7, <1>8, <1>9, <1>10, <1>11, <1>12, <1>13, <1>14 DEF r

\* The first frame is taken from the network.
LEMMA FirstTaken ==
  ASSUME NEW s \in Seq(Frames), s # << >>
  PROVE  /\ FirstComesFirst(s) /\ s[1].kind # "data" => FirstComesFirst(Tail(s))
         /\ FirstComesFirst(s) /\ s[1].kind = "data" => s[1].block = 1
         /\ PingsFirst(s) /\ s[1].kind = "data" => No("ping", Tail(s))
         /\ \A kind : No(kind, s) => s[1].kind # kind
         /\ FirstComesFirst(s) => ~ No("data", s)
  <1>1. /\ 1 \in 1 .. Len(s) /\ Len(Tail(s)) = Len(s) - 1 /\ Len(s) \in Nat
        /\ \A p \in 1 .. Len(s) : p = 1 \/ (p - 1 \in 1 .. Len(Tail(s)) /\ Tail(s)[p - 1] = s[p])
        /\ \A p \in 1 .. Len(Tail(s)) : p + 1 \in 1 .. Len(s) /\ Tail(s)[p] = s[p + 1]
    BY TailLemma, RestLemma
  <1>2. ASSUME FirstComesFirst(s), s[1].kind # "data"
        PROVE  FirstComesFirst(Tail(s))
    <2>1. PICK p \in 1 .. Len(s) :
            /\ s[p].kind = "data" /\ s[p].block = 1
            /\ \A q \in 1 .. Len(s) : q < p => s[q].kind # "data"
      BY <1>2 DEF FirstComesFirst
    <2>2. p - 1 \in 1 .. Len(Tail(s)) /\ Tail(s)[p - 1] = s[p]
      BY <1>1, <1>2, <2>1
    <2>3. \A q \in 1 .. Len(Tail(s)) : q < p - 1 => Tail(s)[q].kind # "data"
      BY <1>1, <2>1
    <2> QED
      BY <2>1, <2>2, <2>3 DEF FirstComesFirst
  <1>3. ASSUME FirstComesFirst(s), s[1].kind = "data"
        PROVE  s[1].block = 1
    <2>1. PICK p \in 1 .. Len(s) :
            /\ s[p].kind = "data" /\ s[p].block = 1
            /\ \A q \in 1 .. Len(s) : q < p => s[q].kind # "data"
      BY <1>3 DEF FirstComesFirst
    <2>2. p = 1
      BY <1>1, <1>3, <2>1
    <2> QED
      BY <2>1, <2>2
  <1>4. ASSUME PingsFirst(s), s[1].kind = "data"
        PROVE  No("ping", Tail(s))
    <2>1. SUFFICES ASSUME NEW p \in 1 .. Len(Tail(s)) PROVE Tail(s)[p].kind # "ping"
      BY DEF No
    <2>2. p + 1 \in 1 .. Len(s) /\ Tail(s)[p] = s[p + 1] /\ 1 < p + 1
      BY <1>1
    <2> QED
      BY <1>1, <1>4, <2>2 DEF PingsFirst
  <1>5. \A kind : No(kind, s) => s[1].kind # kind
    BY <1>1 DEF No
  <1>6. FirstComesFirst(s) => ~ No("data", s)
    BY DEF FirstComesFirst, No
  <1> QED
    BY <1>2, <1>3, <1>4, <1>5, <1>6

\* More blocks are given.
LEMMA MoreGiven ==
  ASSUME NEW given \in Nat, NEW more \in Nat, given <= more, NEW s \in Seq(Frames)
  PROVE  /\ UpTo(s, given) => UpTo(s, more)
         /\ \A ram \in [Addresses -> 0 .. N] : RamHolds(ram, given) => RamHolds(ram, more)
  <1>1. ASSUME UpTo(s, given)
        PROVE  UpTo(s, more)
    <2>1. SUFFICES ASSUME NEW p \in 1 .. Len(s), s[p].kind = "data"
          PROVE  s[p].block <= more
      BY DEF UpTo
    <2>2. s[p] \in Frames
      OBVIOUS
    <2>3. s[p].block \in Nat /\ s[p].block <= given
      BY <1>1, <2>1, <2>2, FrameLemma, LoadSizesLemma DEF UpTo
    <2> QED
      BY <2>3
  <1>2. ASSUME NEW ram \in [Addresses -> 0 .. N], RamHolds(ram, given)
        PROVE  RamHolds(ram, more)
    BY <1>2, LoadSizesLemma DEF RamHolds
  <1> QED
    BY <1>1, <1>2

\* Nothing has been given yet.
LEMMA NoneGiven ==
  ASSUME NEW s \in Seq(Frames), UpTo(s, 0)
  PROVE  No("data", s)
  <1>1. SUFFICES ASSUME NEW p \in 1 .. Len(s), s[p].kind = "data" PROVE FALSE
    BY DEF No
  <1>2. s[p] \in Frames
    OBVIOUS
  <1>3. s[p].block \in 1 .. N /\ s[p].block <= 0
    BY <1>1, <1>2, FrameLemma DEF UpTo
  <1> QED
    BY <1>3, LoadSizesLemma

-----------------------------------------------------------------------------
(* etherload: what it does *)

\* The places are places.
LEMMA PlacesLemma ==
  /\ Load!At("trigger", "", 0) \in Places /\ Load!At("single", "ping", 0) \in Places
  /\ Load!At("answer", "ping", 0) \in Places /\ Load!At("wait", "", 0) \in Places
  /\ Load!At("single", "done", 0) \in Places /\ Load!At("answer", "done", 0) \in Places
  /\ Load!At("end", "ok", 0) \in Places /\ Load!At("end", "failed", 0) \in Places
  /\ \A i \in 1 .. N : Load!At("load", "", i) \in Places
  BY DEF Places

\* Nothing is under way.
LEMMA NothingSent ==
  /\ << >> \in Seq(Frames) /\ Len(<< >>) = 0
  /\ \A kind : No(kind, << >>)
  /\ PingsFirst(<< >>) /\ InOrder(<< >>, << >>)
  /\ \A given : UpTo(<< >>, given)
  /\ \A ram : NotBefore(<< >>, ram)
  /\ \A ram, lost : AllStored(<< >>, ram, lost)
  /\ \A p : FramesOf(p, << >>)
  /\ \A i : ~ Awaited(i, << >>)
  <1>1. << >> \in Seq(Frames) /\ Len(<< >>) = 0 /\ \A p \in 1 .. Len(<< >>) : FALSE
    OBVIOUS
  <1> QED
    BY <1>1 DEF No, PingsFirst, InOrder, UpTo, NotBefore, AllStored, FramesOf, Awaited

LEMMA LoadStarts ==
  ASSUME Load!Init
  PROVE  LoadInv
  <1>1. /\ d_pc = Load!At("trigger", "", 0) /\ d_packet_seq = 0 /\ d_unacked = << >>
        /\ d_single = FALSE /\ d_rom_write_enabled = FALSE /\ d_overdue = {}
        /\ d_toMega = << >> /\ d_toPc = << >> /\ d_loader = "off"
        /\ d_ram = [a \in Addresses |-> 0] /\ d_rom_writable = FALSE
        /\ d_losses = 0 /\ d_resends = 0
    BY LoadSizesLemma DEF Load!Init
  <1>2. /\ d_pc.at = "trigger" /\ Early(d_pc) /\ ~ FirstLoad(d_pc) /\ ~ Ended(d_pc)
        /\ ~ Finishing(d_pc) /\ Given(d_pc) = 0
        /\ ~ Is(d_pc, "single", "done") /\ ~ Is(d_pc, "answer", "ping") /\ ~ Is(d_pc, "answer", "done")
        /\ ~ Is(d_pc, "end", "ok")
    BY <1>1 DEF Load!At, Is, Early, FirstLoad, Ended, Finishing, Given
  <1>3. LoadTypes
    <2>1. 0 \in 0 .. N /\ 0 \in 0 .. MaxLosses /\ 0 \in 0 .. MaxResends /\ 0 <= QueueLength
      BY LoadSizesLemma
    <2>2. [a \in Addresses |-> 0] \in [Addresses -> 0 .. N]
      BY <2>1
    <2> QED
      BY <1>1, <2>1, <2>2, PlacesLemma, NothingSent DEF LoadTypes
  <1>4. OrderInv
    <2>1. \A a \in Addresses : d_ram[a] = 0
      BY <1>1
    <2>2. RamHolds(d_ram, 0)
      BY <2>1 DEF RamHolds
    <2> QED
      BY <1>1, <1>2, <2>2, NothingSent DEF OrderInv
  <1>5. StoreInv
    <2>1. Settled(0, d_unacked, d_ram, d_losses)
      BY DEF Settled
    <2> QED
      BY <1>1, <1>2, <2>1, NothingSent DEF StoreInv
  <1>6. RomInv /\ RunInv
    BY <1>1, <1>2, NothingSent DEF RomInv, RunInv
  <1>7. PingInv /\ EndInv
    BY <1>1, <1>2, NothingSent DEF PingInv, EndInv
  <1> QED
    BY <1>3, <1>4, <1>5, <1>6, <1>7 DEF LoadInv

\* What the invariant is for.
LEMMA LoadIsSafe ==
  ASSUME LoadInv
  PROVE  Load!TypeOK /\ Load!StartsComplete /\ Load!EndMeansStarted
  <1>1. Load!TypeOK
    BY LoadSizesLemma DEF Load!TypeOK, LoadInv, LoadTypes, N
  <1>2. ASSUME d_loader = "started", d_overdue = {}
        PROVE  Load!Loaded
    <2>1. Ended(d_pc) /\ No("data", d_unacked)
      BY <1>2 DEF LoadInv, StoreInv
    <2>2. Given(d_pc) = N
      <3>1. d_pc \in Places
        BY DEF LoadInv, LoadTypes
      <3>2. ~ Early(d_pc) /\ d_pc.at # "load"
        BY <2>1, <3>1, PlaceLemma DEF Ended, Is, Early
      <3> QED
        BY <3>2 DEF Given
    <2>3. SUFFICES ASSUME NEW i \in 1 .. N,
                          \A j \in 1 .. N : Blocks[j] = Blocks[i] => j <= i,
                          Blocks[i] \in Rom => d_losses = 0
          PROVE  d_ram[Blocks[i]] = i
      BY LoadSizesLemma DEF Load!Loaded
    <2>4. ~ Awaited(i, d_unacked)
      BY <2>1 DEF Awaited, No
    <2>5. d_ram[Blocks[i]] >= i
      BY <1>2, <2>2, <2>3, <2>4 DEF LoadInv, StoreInv, Settled, Stored
    <2>6. /\ Blocks[i] \in Addresses /\ d_ram[Blocks[i]] \in 0 .. N
          /\ d_ram[Blocks[i]] = 0 \/ Blocks[d_ram[Blocks[i]]] = Blocks[i]
      BY LoadSizesLemma DEF LoadInv, LoadTypes, OrderInv, RamHolds
    <2>7. d_ram[Blocks[i]] \in 1 .. N /\ i \in Nat
      BY <2>5, <2>6, LoadSizesLemma
    <2>8. d_ram[Blocks[i]] <= i
      BY <2>3, <2>6, <2>7
    <2> QED
      BY <2>5, <2>7, <2>8
  <1>3. Load!EndMeansStarted
    <2>1. SUFFICES ASSUME d_pc = Load!At("end", "ok", 0), Blocks # << >>, "single" \notin d_overdue
          PROVE  d_loader = "started"
      BY DEF Load!EndMeansStarted
    <2>2. Is(d_pc, "end", "ok")
      BY <2>1 DEF Load!At, Is
    <2>3. N > 0
      BY <2>1, LoadSizesLemma DEF N
    <2> QED
      BY <2>1, <2>2, <2>3 DEF LoadInv, EndInv
  <1> QED
    BY <1>1, <1>2, <1>3 DEF Load!StartsComplete

\* A frame that carries no block.
LEMMA OneWithoutBlock ==
  ASSUME NEW t \in Seq(Frames), NEW u \in Seq(Frames), NEW m \in Frames, m.kind # "data", InOrder(t, u)
  PROVE  InOrder(Append(t, m), u)
  <1> DEFINE r == Append(t, m)
  <1>1. /\ Len(r) = Len(t) + 1 /\ r[Len(t) + 1] = m /\ \A i \in 1 .. Len(t) : r[i] = t[i]
        /\ \A i \in 1 .. Len(r) : i \in 1 .. Len(t) \/ i = Len(t) + 1
    BY OneMore
  <1> HIDE DEF r
  <1>2. \A i \in 1 .. Len(r) : r[i].kind = "data" => i \in 1 .. Len(t) /\ r[i] = t[i]
    BY <1>1
  <1> QED
    BY <1>2 DEF InOrder, r

LEMMA TriggerStep ==
  ASSUME LoadInv, Load!trigger_eth_hyperrupt
  PROVE  LoadInv'
  <1> DEFINE m == [kind |-> "hyperrupt"]
  <1>1. /\ d_pc = Load!At("trigger", "", 0) /\ d_pc' = Load!At("single", "ping", 0)
        /\ d_toMega' = Append(d_toMega, m)
        /\ UNCHANGED <<d_packet_seq, d_unacked, d_single, d_rom_write_enabled, d_overdue, d_toPc,
                       d_loader, d_ram, d_rom_writable, d_losses, d_resends>>
    BY DEF Load!trigger_eth_hyperrupt, Load!Trigger, Load!mega
  <1>2. LoadTypes /\ OrderInv /\ StoreInv /\ RomInv /\ RunInv /\ PingInv
    BY DEF LoadInv
  <1>3. m \in Frames /\ m.kind = "hyperrupt" /\ d_toMega \in Seq(Frames) /\ d_unacked \in Seq(Frames)
    BY <1>2 DEF Frames, LoadTypes
  <1> HIDE DEF m
  <1>4. /\ Early(d_pc) /\ Given(d_pc) = 0 /\ ~ Ended(d_pc) /\ d_pc.at = "trigger"
        /\ ~ Is(d_pc, "end", "failed")
    BY <1>1 DEF Load!At, Is, Early, FirstLoad, Ended, Finishing, Given
  <1>5. /\ d_pc'.at = "single" /\ Early(d_pc') /\ Given(d_pc') = 0 /\ ~ Ended(d_pc')
        /\ ~ Finishing(d_pc') /\ ~ FirstLoad(d_pc') /\ ~ Is(d_pc', "answer", "ping")
        /\ ~ Is(d_pc', "single", "done") /\ ~ Is(d_pc', "answer", "done") /\ ~ Is(d_pc', "end", "ok")
    BY <1>1 DEF Load!At, Is, Early, FirstLoad, Ended, Finishing, Given
  <1>6. d_unacked = << >>
    BY <1>2, <1>4 DEF RunInv
  <1>7. LoadTypes'
    BY <1>1, <1>2, <1>3, PlacesLemma, MoreKeeps DEF LoadTypes
  <1>8. OrderInv'
    <2>1. InOrder(d_toMega, d_unacked)'
      BY <1>1, <1>2, <1>3, OneWithoutBlock DEF OrderInv
    <2>2. NotBefore(d_toMega, d_ram)' /\ UpTo(d_toMega, 0)'
      BY <1>1, <1>2, <1>3, <1>4, MoreKeeps DEF OrderInv
    <2> QED
      BY <1>1, <1>2, <1>4, <1>5, <2>1, <2>2 DEF OrderInv
  <1>9. StoreInv'
    BY <1>1, <1>2, <1>3, <1>4, <1>5, MoreKeeps DEF StoreInv
  <1>10. RomInv'
    BY <1>1, <1>2, <1>3, <1>4, <1>5, MoreKeeps DEF RomInv
  <1>11. RunInv'
    BY <1>1, <1>2, <1>3, <1>4, <1>5, <1>6, MoreKeeps DEF RunInv
  <1>12. PingInv'
    <2>1. FramesOf(d_pc, d_unacked)'
      BY <1>1, <1>6, NothingSent
    <2>2. PingsFirst(d_toMega)' /\ (No("ping", d_toMega) => No("ping", d_toMega)')
      BY <1>1, <1>2, <1>3, MoreKeeps DEF PingInv
    <2> QED
      BY <1>1, <1>2, <1>4, <1>5, <2>1, <2>2 DEF PingInv
  <1>13. EndInv'
    BY <1>5 DEF EndInv
  <1> QED
    BY <1>7, <1>8, <1>9, <1>10, <1>11, <1>12, <1>13 DEF LoadInv

\* The first command: nothing has been sent before it.
LEMMA BeginPingStep ==
  ASSUME LoadInv, Load!BeginSingle("ping")
  PROVE  LoadInv'
  <1> DEFINE m == [kind |-> "ping", seq |-> d_packet_seq]
  <1>1. /\ d_pc = Load!At("single", "ping", 0) /\ d_pc' = Load!At("answer", "ping", 0)
        /\ d_single' = TRUE /\ Len(d_unacked) < QueueLength
        /\ d_packet_seq' = d_packet_seq + 1
        /\ d_unacked' = Append(d_unacked, m) /\ d_toMega' = Append(d_toMega, m)
        /\ UNCHANGED <<d_rom_write_enabled, d_overdue, d_toPc, d_loader, d_ram, d_rom_writable,
                       d_losses, d_resends>>
    BY DEF Load!BeginSingle, Load!ethl_send_packet, Load!HasSlot, Load!Command, Load!mega
  <1>2. LoadTypes /\ OrderInv /\ StoreInv /\ RomInv /\ RunInv /\ PingInv
    BY DEF LoadInv
  <1>3. /\ m \in Frames /\ m.kind = "ping" /\ d_toMega \in Seq(Frames) /\ d_unacked \in Seq(Frames)
        /\ d_toPc \in Seq(Frames)
    BY <1>2 DEF Frames, LoadTypes
  <1> HIDE DEF m
  <1>4. /\ Early(d_pc) /\ Given(d_pc) = 0 /\ ~ Ended(d_pc) /\ Is(d_pc, "single", "ping")
        /\ ~ Is(d_pc, "end", "failed")
    BY <1>1 DEF Load!At, Is, Early, FirstLoad, Ended, Finishing, Given
  <1>5. /\ d_pc'.at = "answer" /\ Early(d_pc') /\ Given(d_pc') = 0 /\ ~ Ended(d_pc')
        /\ ~ Finishing(d_pc') /\ ~ FirstLoad(d_pc') /\ Is(d_pc', "answer", "ping")
        /\ ~ Is(d_pc', "single", "ping")
        /\ ~ Is(d_pc', "single", "done") /\ ~ Is(d_pc', "answer", "done") /\ ~ Is(d_pc', "end", "ok")
    BY <1>1 DEF Load!At, Is, Early, FirstLoad, Ended, Finishing, Given
  <1>6. d_unacked = << >>
    BY <1>2, <1>4 DEF RunInv
  <1>7. No("data", d_toMega) /\ No("data", d_toPc)
    BY <1>2, <1>3, <1>4, NoneGiven DEF OrderInv
  <1>8. LoadTypes'
    <2>1. d_unacked' \in Seq(Frames) /\ Len(d_unacked') <= QueueLength /\ d_toMega' \in Seq(Frames)
      BY <1>1, <1>3, MoreKeeps, LoadSizesLemma
    <2>2. d_single' \in BOOLEAN /\ d_packet_seq' \in Nat
      BY <1>1, <1>2 DEF LoadTypes
    <2> QED
      BY <1>1, <1>2, <2>1, <2>2, PlacesLemma DEF LoadTypes
  <1>9. OrderInv'
    <2>1. InOrder(d_toMega, d_unacked)'
      BY <1>1, <1>2, <1>3, NewInOrder DEF OrderInv
    <2>2. NotBefore(d_toMega, d_ram)' /\ UpTo(d_toMega, 0)'
      BY <1>1, <1>2, <1>3, <1>4, MoreKeeps DEF OrderInv
    <2>3. NotBefore(d_unacked, d_ram)' /\ UpTo(d_unacked, 0)'
      BY <1>1, <1>2, <1>3, <1>4, MoreKeeps DEF OrderInv
    <2> QED
      BY <1>1, <1>2, <1>4, <1>5, <2>1, <2>2, <2>3 DEF OrderInv
  <1>10. StoreInv'
    <2>1. Settled(0, d_unacked', d_ram', d_losses')
      BY DEF Settled
    <2>2. No("done", d_toMega)'
      BY <1>1, <1>2, <1>3, <1>4, MoreKeeps DEF StoreInv
    <2> QED
      BY <1>1, <1>2, <1>4, <1>5, <2>1, <2>2 DEF StoreInv
  <1>11. RomInv'
    BY <1>1, <1>2, <1>3, <1>4, <1>5, MoreKeeps DEF RomInv
  <1>12. RunInv'
    <2>1. d_unacked' # << >> /\ No("data", d_toMega)'
      BY <1>1, <1>3, <1>7, MoreKeeps
    <2> QED
      BY <1>1, <1>2, <1>4, <1>5, <2>1 DEF RunInv
  <1>13. PingInv'
    <2>1. FramesOf(d_pc, d_unacked)'
      <3>1. Len(d_unacked') = 1 /\ d_unacked'[1] = m
        BY <1>1, <1>3, <1>6, OneMore, NothingSent
      <3> QED
        BY <1>3, <1>5, <3>1 DEF FramesOf
    <2>2. PingsFirst(d_toMega)'
      BY <1>1, <1>2, <1>3, <1>7, MoreKeeps DEF PingInv
    <2> QED
      BY <1>1, <1>2, <1>4, <1>5, <1>7, <2>1, <2>2 DEF PingInv
  <1>14. EndInv'
    BY <1>5 DEF EndInv
  <1> QED
    BY <1>8, <1>9, <1>10, <1>11, <1>12, <1>13, <1>14 DEF LoadInv

\* The last command: what was sent before it has been acknowledged.
LEMMA BeginDoneStep ==
  ASSUME LoadInv, Load!BeginSingle("done")
  PROVE  LoadInv'
  <1> DEFINE m == [kind |-> "done", seq |-> d_packet_seq]
  <1>1. /\ d_pc = Load!At("single", "done", 0) /\ d_pc' = Load!At("answer", "done", 0)
        /\ d_unacked = << >> \/ "single" \in d_overdue
        /\ d_single' = TRUE /\ Len(d_unacked) < QueueLength
        /\ d_packet_seq' = d_packet_seq + 1
        /\ d_unacked' = Append(d_unacked, m) /\ d_toMega' = Append(d_toMega, m)
        /\ UNCHANGED <<d_rom_write_enabled, d_overdue, d_toPc, d_loader, d_ram, d_rom_writable,
                       d_losses, d_resends>>
    BY DEF Load!BeginSingle, Load!ethl_send_packet, Load!HasSlot, Load!Command, Load!mega
  <1>2. LoadTypes /\ OrderInv /\ StoreInv /\ RomInv /\ RunInv /\ PingInv
    BY DEF LoadInv
  <1>3. /\ m \in Frames /\ m.kind = "done" /\ d_toMega \in Seq(Frames) /\ d_unacked \in Seq(Frames)
        /\ d_toPc \in Seq(Frames)
    BY <1>2 DEF Frames, LoadTypes
  <1> HIDE DEF m
  <1>4. /\ ~ Early(d_pc) /\ Given(d_pc) = N /\ ~ Ended(d_pc) /\ Is(d_pc, "single", "done")
        /\ ~ Is(d_pc, "end", "failed") /\ ~ Is(d_pc, "answer", "ping") /\ d_pc.at = "single"
    BY <1>1 DEF Load!At, Is, Early, FirstLoad, Ended, Finishing, Given
  <1>5. /\ d_pc'.at = "answer" /\ ~ Early(d_pc') /\ Given(d_pc') = N /\ Ended(d_pc')
        /\ Finishing(d_pc') /\ ~ FirstLoad(d_pc') /\ ~ Is(d_pc', "answer", "ping")
        /\ ~ Is(d_pc', "single", "ping") /\ ~ Is(d_pc', "end", "failed")
        /\ ~ Is(d_pc', "single", "done") /\ Is(d_pc', "answer", "done") /\ ~ Is(d_pc', "end", "ok")
    BY <1>1 DEF Load!At, Is, Early, FirstLoad, Ended, Finishing, Given
  <1>6. d_unacked' # << >>
    BY <1>1, <1>3, MoreKeeps
  <1>7. LoadTypes'
    <2>1. d_unacked' \in Seq(Frames) /\ Len(d_unacked') <= QueueLength /\ d_toMega' \in Seq(Frames)
      BY <1>1, <1>3, MoreKeeps, LoadSizesLemma
    <2>2. d_single' \in BOOLEAN /\ d_packet_seq' \in Nat
      BY <1>1, <1>2 DEF LoadTypes
    <2> QED
      BY <1>1, <1>2, <2>1, <2>2, PlacesLemma DEF LoadTypes
  <1>8. OrderInv'
    <2>1. InOrder(d_toMega, d_unacked)'
      BY <1>1, <1>2, <1>3, NewInOrder DEF OrderInv
    <2>2. NotBefore(d_toMega, d_ram)' /\ UpTo(d_toMega, N)'
      BY <1>1, <1>2, <1>3, <1>4, MoreKeeps DEF OrderInv
    <2>3. NotBefore(d_unacked, d_ram)' /\ UpTo(d_unacked, N)'
      BY <1>1, <1>2, <1>3, <1>4, MoreKeeps DEF OrderInv
    <2> QED
      BY <1>1, <1>2, <1>4, <1>5, <2>1, <2>2, <2>3 DEF OrderInv
  <1>9. StoreInv'
    <2>1. d_overdue' = {} => Settled(N, d_unacked', d_ram', d_losses')
      BY <1>1, <1>2, <1>3, <1>4, MoreKeeps DEF StoreInv, Settled
    <2>2. No("data", d_unacked) => No("data", d_unacked)'
      BY <1>1, <1>3, MoreKeeps
    <2>3. "single" \notin d_overdue => No("data", d_unacked)
      BY <1>1, NothingSent
    <2> QED
      BY <1>1, <1>2, <1>4, <1>5, <2>1, <2>2, <2>3 DEF StoreInv
  <1>10. RomInv'
    <2>1. FirstComesFirst(d_toMega) => FirstComesFirst(d_toMega)'
      BY <1>1, <1>3, MoreKeeps
    <2>2. No("data", d_toMega) => No("data", d_toMega)'
      BY <1>1, <1>3, MoreKeeps
    <2> QED
      BY <1>1, <1>2, <1>4, <1>5, <2>1, <2>2 DEF RomInv
  <1>11. RunInv'
    BY <1>1, <1>2, <1>4, <1>5, <1>6 DEF RunInv
  <1>12. PingInv'
    <2>1. FramesOf(d_pc, d_unacked)'
      <3>1. /\ Len(d_unacked') = Len(d_unacked) + 1 /\ d_unacked'[Len(d_unacked) + 1] = m
            /\ \A j \in 1 .. Len(d_unacked) : d_unacked'[j] = d_unacked[j]
            /\ \A j \in 1 .. Len(d_unacked') : j \in 1 .. Len(d_unacked) \/ j = Len(d_unacked) + 1
        BY <1>1, <1>3, OneMore
      <3>2. FramesOf(d_pc, d_unacked)
        BY <1>2 DEF PingInv
      <3> QED
        BY <1>3, <1>4, <1>5, <3>1, <3>2 DEF FramesOf
    <2>2. PingsFirst(d_toMega)' /\ (No("ping", d_toMega) => No("ping", d_toMega)')
      BY <1>1, <1>2, <1>3, MoreKeeps DEF PingInv
    <2>3. Awaited(1, d_unacked) => Awaited(1, d_unacked)'
      BY <1>1, <1>3, MoreKeeps
    <2> QED
      BY <1>1, <1>2, <1>4, <1>5, <1>6, <2>1, <2>2, <2>3 DEF PingInv
  <1>13. EndInv'
    BY <1>5 DEF EndInv
  <1> QED
    BY <1>7, <1>8, <1>9, <1>10, <1>11, <1>12, <1>13 DEF LoadInv

\* The first command is answered: the blocks follow, if there are any.
LEMMA EndPingStep ==
  ASSUME LoadInv, Load!EndSingle("ping")
  PROVE  LoadInv'
  <1>0. d_pc' = IF 1 <= N THEN Load!At("load", "", 1) ELSE Load!At("wait", "", 0)
    BY DEF Load!EndSingle, Load!Load, N
  <1>1. /\ d_pc = Load!At("answer", "ping", 0) /\ d_unacked = << >> /\ d_single' = FALSE
        /\ UNCHANGED <<d_packet_seq, d_unacked, d_rom_write_enabled, d_overdue, d_toMega, d_toPc,
                       d_loader, d_ram, d_rom_writable, d_losses, d_resends>>
    BY DEF Load!EndSingle, Load!mega, Load!net
  <1>2. LoadTypes /\ OrderInv /\ StoreInv /\ RomInv /\ RunInv /\ PingInv
    BY DEF LoadInv
  <1>3. /\ Early(d_pc) /\ Given(d_pc) = 0 /\ ~ Ended(d_pc) /\ Is(d_pc, "answer", "ping")
    BY <1>1 DEF Load!At, Is, Early, FirstLoad, Ended, Finishing, Given
  <1>4. /\ d_pc' \in Places /\ d_pc'.at # "answer" /\ ~ Early(d_pc') /\ Given(d_pc') = 0 /\ ~ Ended(d_pc')
        /\ ~ Finishing(d_pc') /\ (d_pc'.at = "load" => FirstLoad(d_pc'))
        /\ ~ Is(d_pc', "answer", "ping") /\ ~ Is(d_pc', "single", "done")
        /\ ~ Is(d_pc', "answer", "done") /\ ~ Is(d_pc', "end", "ok")
    <2>1. CASE N >= 1
      <3>1. d_pc' = Load!At("load", "", 1)
        BY <1>0, <2>1
      <3>2. d_pc' \in Places
        <4>1. 1 \in 1 .. N
          BY <2>1, LoadSizesLemma
        <4> QED
          BY <3>1, <4>1, PlacesLemma
      <3>3. d_pc'.at = "load" /\ d_pc'.kind = "" /\ d_pc'.i = 1
        BY <3>1 DEF Load!At
      <3>4. 1 - 1 = 0
        OBVIOUS
      <3> QED
        BY <3>2, <3>3, <3>4 DEF Is, Early, FirstLoad, Ended, Finishing, Given
    <2>2. CASE ~ (N >= 1)
      <3>1. d_pc' = Load!At("wait", "", 0)
        BY <1>0, <2>2
      <3>2. d_pc' \in Places
        BY <3>1, PlacesLemma
      <3>3. d_pc'.at = "wait" /\ d_pc'.kind = ""
        BY <3>1 DEF Load!At
      <3>4. N = 0
        BY <2>2, LoadSizesLemma
      <3> QED
        BY <3>2, <3>3, <3>4 DEF Is, Early, FirstLoad, Ended, Finishing, Given
    <2> QED
      BY <2>1, <2>2, LoadSizesLemma
  <1>5. LoadTypes'
    BY <1>1, <1>2, <1>4 DEF LoadTypes
  <1>6. OrderInv'
    BY <1>1, <1>2, <1>3, <1>4 DEF OrderInv
  <1>7. StoreInv'
    BY <1>1, <1>2, <1>3, <1>4 DEF StoreInv
  <1>8. RomInv'
    BY <1>1, <1>2, <1>3, <1>4 DEF RomInv
  <1>9. RunInv'
    BY <1>1, <1>2, <1>3, <1>4 DEF RunInv
  <1>10. PingInv'
    <2>1. FramesOf(d_pc, d_unacked)'
      BY <1>1, NothingSent
    <2> QED
      BY <1>1, <1>2, <1>3, <1>4, <2>1 DEF PingInv
  <1>11. EndInv'
    BY <1>4 DEF EndInv
  <1> QED
    BY <1>5, <1>6, <1>7, <1>8, <1>9, <1>10, <1>11 DEF LoadInv

\* The last command is answered.
LEMMA EndDoneStep ==
  ASSUME LoadInv, Load!EndSingle("done")
  PROVE  LoadInv'
  <1>1. /\ d_pc = Load!At("answer", "done", 0) /\ d_pc' = Load!At("end", "ok", 0)
        /\ d_unacked = << >> /\ d_single' = FALSE
        /\ UNCHANGED <<d_packet_seq, d_unacked, d_rom_write_enabled, d_overdue, d_toMega, d_toPc,
                       d_loader, d_ram, d_rom_writable, d_losses, d_resends>>
    BY DEF Load!EndSingle, Load!mega, Load!net
  <1>2. LoadTypes /\ OrderInv /\ StoreInv /\ RomInv /\ RunInv /\ PingInv
    BY DEF LoadInv
  <1>3. /\ ~ Early(d_pc) /\ Given(d_pc) = N /\ Ended(d_pc) /\ Is(d_pc, "answer", "done")
        /\ ~ Is(d_pc, "end", "failed")
    BY <1>1 DEF Load!At, Is, Early, FirstLoad, Ended, Finishing, Given
  <1>4. /\ d_pc'.at = "end" /\ ~ Early(d_pc') /\ Given(d_pc') = N /\ Ended(d_pc')
        /\ ~ FirstLoad(d_pc') /\ ~ Is(d_pc', "single", "ping") /\ ~ Is(d_pc', "end", "failed")
        /\ ~ Is(d_pc', "answer", "ping") /\ ~ Is(d_pc', "single", "done")
        /\ ~ Is(d_pc', "answer", "done")
    BY <1>1 DEF Load!At, Is, Early, FirstLoad, Ended, Finishing, Given
  <1>5. LoadTypes'
    BY <1>1, <1>2, PlacesLemma DEF LoadTypes
  <1>6. OrderInv'
    BY <1>1, <1>2, <1>3, <1>4 DEF OrderInv
  <1>7. StoreInv'
    BY <1>1, <1>2, <1>3, <1>4, NothingSent DEF StoreInv
  <1>8. RomInv'
    BY <1>1, <1>2, <1>3, <1>4 DEF RomInv
  <1>9. RunInv'
    BY <1>1, <1>2, <1>3, <1>4 DEF RunInv
  <1>10. PingInv'
    <2>1. FramesOf(d_pc, d_unacked)'
      BY <1>1, NothingSent
    <2> QED
      BY <1>1, <1>2, <1>3, <1>4, <2>1 DEF PingInv
  <1>11. EndInv'
    BY <1>1, <1>2, <1>3 DEF EndInv, PingInv
  <1> QED
    BY <1>5, <1>6, <1>7, <1>8, <1>9, <1>10, <1>11 DEF LoadInv

\* A block is sent: the ones before it have been, and no other one for its
\* address is without an answer.
LEMMA SendStep ==
  ASSUME LoadInv, NEW i \in 1 .. N, Load!send_mem(i)
  PROVE  LoadInv'
  <1> DEFINE m == [kind |-> "data", addr |-> Blocks[i], block |-> i, seq |-> d_packet_seq,
                   rom |-> ~ d_rom_write_enabled]
  <1>1. /\ d_pc = Load!At("load", "", i)
        /\ d_rom_write_enabled' = TRUE
        /\ d_unacked' = Append(d_unacked, m) /\ d_toMega' = Append(d_toMega, m)
        /\ UNCHANGED <<d_single, d_overdue, d_toPc, d_loader, d_ram, d_rom_writable,
                       d_losses, d_resends>>
    BY DEF Load!send_mem, Load!ethl_send_packet, Load!HasSlot, Load!Data, Load!mega
  <1>16. d_pc' = IF i + 1 <= N THEN Load!At("load", "", i + 1) ELSE Load!At("wait", "", 0)
    BY DEF Load!send_mem, Load!Load, N
  <1>17. Len(d_unacked) < QueueLength /\ d_packet_seq' = d_packet_seq + 1
    BY DEF Load!send_mem, Load!ethl_send_packet, Load!HasSlot
  <1>0. \A j \in DOMAIN d_unacked : d_unacked[j].kind = "data" => d_unacked[j].addr # m.addr
    BY DEF Load!send_mem, Load!ethl_send_packet, Load!HasSlot, Load!Data
  <1>2. LoadTypes /\ OrderInv /\ StoreInv /\ RomInv /\ RunInv /\ PingInv
    BY DEF LoadInv
  <1>3. /\ d_pc.at = "load" /\ ~ Early(d_pc) /\ Given(d_pc) = i - 1 /\ ~ Ended(d_pc)
        /\ (FirstLoad(d_pc) <=> i = 1)
        /\ ~ Is(d_pc, "end", "failed") /\ ~ Is(d_pc, "answer", "ping")
    BY <1>1 DEF Load!At, Is, Early, FirstLoad, Ended, Finishing, Given
  <1>4. /\ d_pc' \in Places /\ d_pc'.at # "answer" /\ ~ Early(d_pc') /\ Given(d_pc') = i /\ ~ Ended(d_pc')
        /\ ~ Finishing(d_pc') /\ ~ FirstLoad(d_pc') /\ d_pc'.at # "trigger"
        /\ ~ Is(d_pc', "answer", "ping") /\ ~ Is(d_pc', "single", "done")
        /\ ~ Is(d_pc', "single", "ping") /\ ~ Is(d_pc', "end", "failed")
        /\ ~ Is(d_pc', "answer", "done") /\ ~ Is(d_pc', "end", "ok")
    <2>1. CASE i + 1 <= N
      <3>1. d_pc' = Load!At("load", "", i + 1)
        BY <1>16, <2>1
      <3>2. d_pc' \in Places
        <4>1. i + 1 \in 1 .. N
          BY <2>1, LoadSizesLemma
        <4> QED
          BY <3>1, <4>1, PlacesLemma
      <3>3. i + 1 # 1 /\ (i + 1) - 1 = i
        BY LoadSizesLemma
      <3>4. d_pc'.at = "load" /\ d_pc'.kind = "" /\ d_pc'.i = i + 1
        BY <3>1 DEF Load!At
      <3> QED
        BY <3>2, <3>3, <3>4 DEF Is, Early, FirstLoad, Ended, Finishing, Given
    <2>2. CASE ~ (i + 1 <= N)
      <3>1. d_pc' = Load!At("wait", "", 0)
        BY <1>16, <2>2
      <3>2. d_pc' \in Places
        BY <3>1, PlacesLemma
      <3>3. N = i
        BY <2>2, LoadSizesLemma
      <3>4. d_pc'.at = "wait" /\ d_pc'.kind = ""
        BY <3>1 DEF Load!At
      <3> QED
        BY <3>2, <3>3, <3>4 DEF Is, Early, FirstLoad, Ended, Finishing, Given
    <2> QED
      BY <2>1, <2>2
  <1>5. /\ m \in Frames /\ m.kind = "data" /\ m.block = i /\ m.addr = Blocks[i] /\ m.addr \in Addresses
        /\ d_toMega \in Seq(Frames) /\ d_unacked \in Seq(Frames)
        /\ d_toPc \in Seq(Frames) /\ DOMAIN d_unacked = 1 .. Len(d_unacked)
    <2>1. ~ d_rom_write_enabled <=> i = 1
      BY <1>2, <1>3 DEF RomInv
    <2>2. d_packet_seq \in Nat /\ d_rom_write_enabled \in BOOLEAN
      BY <1>2 DEF LoadTypes
    <2>3. Blocks[i] \in Addresses
      BY LoadSizesLemma
    <2>4. m \in DataFrames
      BY <2>1, <2>2, <2>3 DEF DataFrames
    <2> QED
      BY <1>2, <2>3, <2>4 DEF Frames, LoadTypes
  <1> HIDE DEF m
  <1>6. i - 1 \in Nat /\ i \in Nat /\ i - 1 <= i
    OBVIOUS
  <1>7. d_ram[m.addr] <= i /\ d_ram \in [Addresses -> 0 .. N]
    <2>1. d_ram[m.addr] <= i - 1 /\ d_ram[m.addr] \in 0 .. N
      BY <1>2, <1>3, <1>5 DEF OrderInv, RamHolds, LoadTypes
    <2> QED
      BY <1>2, <2>1, LoadSizesLemma DEF LoadTypes
  <1>8. /\ UpTo(d_toMega, i) /\ UpTo(d_unacked, i) /\ UpTo(d_toPc, i) /\ RamHolds(d_ram, i)
    BY <1>2, <1>3, <1>5, <1>6, <1>7, MoreGiven DEF OrderInv
  <1>9. LoadTypes'
    <2>1. d_unacked' \in Seq(Frames) /\ Len(d_unacked') <= QueueLength /\ d_toMega' \in Seq(Frames)
      <3>1. /\ Append(d_unacked, m) \in Seq(Frames) /\ Append(d_toMega, m) \in Seq(Frames)
            /\ Len(Append(d_unacked, m)) = Len(d_unacked) + 1
        BY <1>5, OneMore
      <3>2. Len(d_unacked) + 1 <= QueueLength
        BY <1>5, <1>17, LoadSizesLemma
      <3> QED
        BY <1>1, <3>1, <3>2
    <2>2. d_packet_seq' \in Nat
      BY <1>2, <1>17 DEF LoadTypes
    <2>3. d_rom_write_enabled' \in BOOLEAN
      BY <1>1
    <2> QED
      BY <1>1, <1>2, <1>4, <2>1, <2>2, <2>3 DEF LoadTypes
  <1>10. OrderInv'
    <2>1. InOrder(d_toMega, d_unacked)'
      <3>1. \A p \in 1 .. Len(d_toMega) :
              d_toMega[p].kind = "data" /\ d_toMega[p].addr = m.addr => d_toMega[p].block <= m.block
        BY <1>5, <1>8 DEF UpTo
      <3>2. \A j \in 1 .. Len(d_unacked) : d_unacked[j].kind = "data" => d_unacked[j].addr # m.addr
        BY <1>0, <1>5
      <3>3. InOrder(d_toMega, d_unacked)
        BY <1>2 DEF OrderInv
      <3> QED
        BY <1>1, <1>5, <3>1, <3>2, <3>3, NewInOrder
    <2>2. NotBefore(d_toMega, d_ram) /\ NotBefore(d_unacked, d_ram)
      BY <1>2 DEF OrderInv
    <2>3. /\ NotBefore(Append(d_toMega, m), d_ram) /\ UpTo(Append(d_toMega, m), i)
          /\ NotBefore(Append(d_unacked, m), d_ram) /\ UpTo(Append(d_unacked, m), i)
      BY <1>5, <1>6, <1>7, <1>8, <2>2, MoreKeeps
    <2> QED
      BY <1>1, <1>4, <1>8, <2>1, <2>2, <2>3 DEF OrderInv
  <1>11. StoreInv'
    <2>1. ASSUME d_overdue = {}
          PROVE  Settled(i, d_unacked', d_ram', d_losses')
      <3>1. Settled(i - 1, d_unacked, d_ram, d_losses)
        BY <1>2, <1>3, <2>1 DEF StoreInv
      <3>2. \A b \in 1 .. i : b \in 1 .. i - 1 \/ b = i
        OBVIOUS
      <3>3. Awaited(i, d_unacked')
        BY <1>1, <1>5, MoreKeeps
      <3>4. \A b : Awaited(b, d_unacked) => Awaited(b, d_unacked')
        BY <1>1, <1>5, MoreKeeps
      <3> QED
        BY <1>1, <3>1, <3>2, <3>3, <3>4 DEF Settled
    <2>2. No("done", d_toMega)'
      BY <1>1, <1>2, <1>3, <1>5, MoreKeeps DEF StoreInv
    <2> QED
      BY <1>1, <1>2, <1>3, <1>4, <2>1, <2>2 DEF StoreInv
  <1>12. RomInv'
    <2>1. FirstComesFirst(d_toMega) => FirstComesFirst(d_toMega)'
      BY <1>1, <1>5, MoreKeeps
    <2>2. No("data", d_toMega) /\ i = 1 => FirstComesFirst(d_toMega)'
      BY <1>1, <1>5, MoreKeeps
    <2>3. i - 1 = 0 => i = 1
      OBVIOUS
    <2> QED
      BY <1>1, <1>2, <1>3, <1>4, <2>1, <2>2, <2>3 DEF RomInv
  <1>13. RunInv'
    BY <1>1, <1>2, <1>3, <1>4 DEF RunInv
  <1>14. PingInv'
    <2>1. FramesOf(d_pc, d_unacked)'
      <3>1. /\ Len(d_unacked') = Len(d_unacked) + 1 /\ d_unacked'[Len(d_unacked) + 1] = m
            /\ \A j \in 1 .. Len(d_unacked) : d_unacked'[j] = d_unacked[j]
            /\ \A j \in 1 .. Len(d_unacked') : j \in 1 .. Len(d_unacked) \/ j = Len(d_unacked) + 1
        <4>1. /\ Len(Append(d_unacked, m)) = Len(d_unacked) + 1
              /\ Append(d_unacked, m)[Len(d_unacked) + 1] = m
              /\ \A j \in 1 .. Len(d_unacked) : Append(d_unacked, m)[j] = d_unacked[j]
              /\ \A j \in 1 .. Len(d_unacked) + 1 : j \in 1 .. Len(d_unacked) \/ j = Len(d_unacked) + 1
          BY <1>5, OneMore
        <4> QED
          BY <1>1, <4>1
      <3>2. FramesOf(d_pc, d_unacked)
        BY <1>2 DEF PingInv
      <3> QED
        BY <1>3, <1>4, <1>5, <3>1, <3>2 DEF FramesOf
    <2>2. PingsFirst(d_toMega)' /\ (No("ping", d_toMega) => No("ping", d_toMega)')
      BY <1>1, <1>2, <1>5, MoreKeeps DEF PingInv
    <2>3. Awaited(1, d_unacked) => Awaited(1, d_unacked)'
      BY <1>1, <1>5, MoreKeeps
    <2>4. i = 1 => Awaited(1, d_unacked)'
      BY <1>1, <1>5, MoreKeeps
    <2>5. i = 1 \/ i - 1 > 0
      OBVIOUS
    <2>6. ~ Awaited(1, d_unacked)' => No("ping", d_toPc) /\ No("ping", d_toMega)
      BY <1>2, <1>3, <2>3, <2>4, <2>5 DEF PingInv
    <2> QED
      BY <1>1, <1>2, <1>3, <1>4, <2>1, <2>2, <2>6 DEF PingInv
  <1>15. EndInv'
    BY <1>4 DEF EndInv
  <1> QED
    BY <1>9, <1>10, <1>11, <1>12, <1>13, <1>14, <1>15 DEF LoadInv

\* All acknowledgements have come.
LEMMA WaitStep ==
  ASSUME LoadInv, Load!wait_all_acks
  PROVE  LoadInv'
  <1>1. /\ d_pc = Load!At("wait", "", 0) /\ d_pc' = Load!At("single", "done", 0)
        /\ d_unacked = << >>
        /\ UNCHANGED <<d_packet_seq, d_unacked, d_single, d_rom_write_enabled, d_overdue, d_toMega,
                       d_toPc, d_loader, d_ram, d_rom_writable, d_losses, d_resends>>
    BY DEF Load!wait_all_acks, Load!mega, Load!net
  <1>2. LoadTypes /\ OrderInv /\ StoreInv /\ RomInv /\ RunInv /\ PingInv
    BY DEF LoadInv
  <1>3. /\ ~ Early(d_pc) /\ Given(d_pc) = N /\ ~ Ended(d_pc) /\ d_pc.at = "wait"
        /\ ~ Is(d_pc, "end", "failed")
    BY <1>1 DEF Load!At, Is, Early, FirstLoad, Ended, Finishing, Given
  <1>4. /\ d_pc'.at = "single" /\ ~ Early(d_pc') /\ Given(d_pc') = N /\ ~ Ended(d_pc')
        /\ ~ FirstLoad(d_pc') /\ ~ Is(d_pc', "single", "ping") /\ ~ Is(d_pc', "end", "failed")
        /\ ~ Is(d_pc', "answer", "ping") /\ ~ Is(d_pc', "answer", "done") /\ ~ Finishing(d_pc')
        /\ ~ Is(d_pc', "end", "ok")
    BY <1>1 DEF Load!At, Is, Early, FirstLoad, Ended, Finishing, Given
  <1>5. LoadTypes'
    BY <1>1, <1>2, PlacesLemma DEF LoadTypes
  <1>6. OrderInv'
    BY <1>1, <1>2, <1>3, <1>4 DEF OrderInv
  <1>7. StoreInv'
    BY <1>1, <1>2, <1>3, <1>4, NothingSent DEF StoreInv
  <1>8. RomInv'
    BY <1>1, <1>2, <1>3, <1>4 DEF RomInv
  <1>9. RunInv'
    BY <1>1, <1>2, <1>3, <1>4 DEF RunInv
  <1>10. PingInv'
    <2>1. FramesOf(d_pc, d_unacked)'
      BY <1>1, NothingSent
    <2> QED
      BY <1>1, <1>2, <1>3, <1>4, <2>1 DEF PingInv
  <1>11. EndInv'
    BY <1>4 DEF EndInv
  <1> QED
    BY <1>5, <1>6, <1>7, <1>8, <1>9, <1>10, <1>11 DEF LoadInv

\* Numbers of blocks.
LEMMA InRange ==
  /\ \A n \in 0 .. N : n \in Nat /\ n <= N
  /\ \A n \in 1 .. N : n # 1 => n - 1 > 0 /\ n - 1 # 0
  BY LoadSizesLemma

\* A wait has lasted too long: the answer to a command.
LEMMA AnswerTimesOut ==
  ASSUME LoadInv, d_pc.at = "answer", d_pc' = Load!At("end", "failed", 0),
         d_overdue' = d_overdue \cup {"answer"}, d_unacked # << >>,
         UNCHANGED <<d_packet_seq, d_unacked, d_single, d_rom_write_enabled, d_toMega, d_toPc,
                     d_loader, d_ram, d_rom_writable, d_losses, d_resends>>
  PROVE  LoadInv'
  <1>1. LoadTypes /\ OrderInv /\ StoreInv /\ RomInv /\ RunInv /\ PingInv
    BY DEF LoadInv
  <1>2. d_pc \in Places /\ Given(d_pc) \in Nat /\ N \in Nat /\ Given(d_pc) <= N
    BY <1>1, GivenLemma, LoadSizesLemma DEF LoadTypes
  <1>3. /\ d_pc'.at = "end" /\ ~ Early(d_pc') /\ Given(d_pc') = N /\ Ended(d_pc')
        /\ ~ FirstLoad(d_pc') /\ ~ Is(d_pc', "single", "ping") /\ Is(d_pc', "end", "failed")
        /\ ~ Is(d_pc', "answer", "ping") /\ ~ Is(d_pc', "answer", "done") /\ ~ Finishing(d_pc')
        /\ ~ Is(d_pc', "end", "ok")
    BY DEF Load!At, Is, Early, FirstLoad, Ended, Finishing, Given
  <1>4. d_overdue' # {}
    OBVIOUS
  <1>5. d_toMega \in Seq(Frames) /\ d_unacked \in Seq(Frames) /\ d_toPc \in Seq(Frames)
        /\ d_ram \in [Addresses -> 0 .. N]
    BY <1>1 DEF LoadTypes
  <1>6. UpTo(d_toMega, N) /\ UpTo(d_unacked, N) /\ UpTo(d_toPc, N) /\ RamHolds(d_ram, N)
    BY <1>1, <1>2, <1>5, MoreGiven DEF OrderInv
  <1>7. LoadTypes'
    BY <1>1, PlacesLemma DEF LoadTypes
  <1>8. OrderInv'
    BY <1>1, <1>3, <1>6 DEF OrderInv
  <1>9. StoreInv'
    BY <1>1, <1>3, <1>4 DEF StoreInv
  <1>10. RomInv'
    <2>1. d_losses = 0 /\ ~ d_rom_writable /\ d_loader # "started" =>
            FirstComesFirst(d_toMega) \/ No("data", d_toMega)
      BY <1>1 DEF RomInv
    <2> QED
      BY <1>3, <2>1 DEF RomInv
  <1>11. RunInv'
    BY <1>1, <1>3 DEF RunInv
  <1>12. PingInv'
    <2>1. FramesOf(d_pc, d_unacked)'
      BY <1>1, <1>3 DEF PingInv, FramesOf
    <2> QED
      BY <1>1, <1>3, <2>1 DEF PingInv
  <1>13. EndInv'
    BY <1>3 DEF EndInv
  <1> QED
    BY <1>7, <1>8, <1>9, <1>10, <1>11, <1>12, <1>13 DEF LoadInv

\* A free slot for a block: the rest of the file is given up.
LEMMA BlockTimesOut ==
  ASSUME LoadInv, d_pc.at = "load", d_pc' = Load!At("wait", "", 0),
         d_overdue' = d_overdue \cup {"load"}, d_unacked # << >>,
         UNCHANGED <<d_packet_seq, d_unacked, d_single, d_rom_write_enabled, d_toMega, d_toPc,
                     d_loader, d_ram, d_rom_writable, d_losses, d_resends>>
  PROVE  LoadInv'
  <1>1. LoadTypes /\ OrderInv /\ StoreInv /\ RomInv /\ RunInv /\ PingInv
    BY DEF LoadInv
  <1>2. d_pc \in Places /\ Given(d_pc) \in Nat /\ N \in Nat /\ Given(d_pc) <= N
    <2>1. d_pc \in Places
      BY <1>1 DEF LoadTypes
    <2>2. Given(d_pc) \in 0 .. N
      BY <2>1, GivenLemma
    <2> QED
      BY <2>1, <2>2, InRange, LoadSizesLemma
  <1>3. /\ d_pc'.at = "wait" /\ ~ Early(d_pc') /\ Given(d_pc') = N /\ ~ Ended(d_pc')
        /\ ~ FirstLoad(d_pc') /\ ~ Is(d_pc', "single", "ping") /\ ~ Is(d_pc', "end", "failed")
        /\ ~ Is(d_pc', "answer", "ping") /\ ~ Is(d_pc', "answer", "done") /\ ~ Finishing(d_pc')
        /\ ~ Is(d_pc', "single", "done") /\ ~ Is(d_pc', "end", "ok")
    BY DEF Load!At, Is, Early, FirstLoad, Ended, Finishing, Given
  <1>4. d_overdue' # {}
    OBVIOUS
  <1>5. d_toMega \in Seq(Frames) /\ d_unacked \in Seq(Frames) /\ d_toPc \in Seq(Frames)
        /\ d_ram \in [Addresses -> 0 .. N]
    BY <1>1 DEF LoadTypes
  <1>6. UpTo(d_toMega, N) /\ UpTo(d_unacked, N) /\ UpTo(d_toPc, N) /\ RamHolds(d_ram, N)
    BY <1>1, <1>2, <1>5, MoreGiven DEF OrderInv
  <1>7. LoadTypes'
    BY <1>1, PlacesLemma DEF LoadTypes
  <1>8. OrderInv'
    BY <1>1, <1>3, <1>6 DEF OrderInv
  <1>9. /\ ~ Ended(d_pc) /\ ~ Early(d_pc) /\ ~ Is(d_pc, "end", "failed")
        /\ ~ Is(d_pc, "answer", "ping") /\ Given(d_pc) > 0 /\ Given(d_pc) # 0
    <2>1. d_pc.kind = "" /\ d_pc.i \in 1 .. N
      BY <1>2, PlaceLemma DEF Is
    <2>2. d_pc.i # 1
      BY <1>1 DEF RunInv, FirstLoad
    <2>3. d_pc.i - 1 > 0 /\ d_pc.i - 1 # 0
      BY <2>1, <2>2, InRange
    <2> QED
      BY <2>1, <2>3 DEF Ended, Is, Early, Given
  <1>10. StoreInv'
    BY <1>1, <1>3, <1>4, <1>9 DEF StoreInv
  <1>11. RomInv'
    <2>2. d_losses = 0 /\ ~ d_rom_writable /\ d_loader # "started" => FirstComesFirst(d_toMega)
      BY <1>1, <1>9 DEF RomInv
    <2> QED
      BY <1>3, <2>2 DEF RomInv
  <1>12. RunInv'
    BY <1>1, <1>3, <1>9 DEF RunInv
  <1>13. PingInv'
    <2>1. FramesOf(d_pc, d_unacked)'
      BY <1>1, <1>3, <1>9 DEF PingInv, FramesOf
    <2> QED
      BY <1>1, <1>3, <1>9, <2>1 DEF PingInv
  <1>14. EndInv'
    BY <1>3 DEF EndInv
  <1> QED
    BY <1>7, <1>8, <1>10, <1>11, <1>12, <1>13, <1>14 DEF LoadInv

\* The wait for all acknowledgements.
LEMMA WaitTimesOut ==
  ASSUME LoadInv, d_pc = Load!At("wait", "", 0), d_pc' = Load!At("single", "done", 0),
         d_overdue' = d_overdue \cup {"wait"},
         UNCHANGED <<d_packet_seq, d_unacked, d_single, d_rom_write_enabled, d_toMega, d_toPc,
                     d_loader, d_ram, d_rom_writable, d_losses, d_resends>>
  PROVE  LoadInv'
  <1>1. LoadTypes /\ OrderInv /\ StoreInv /\ RomInv /\ RunInv /\ PingInv
    BY DEF LoadInv
  <1>2. /\ ~ Early(d_pc) /\ Given(d_pc) = N /\ ~ Ended(d_pc) /\ d_pc.at = "wait"
        /\ ~ Is(d_pc, "end", "failed") /\ ~ Is(d_pc, "answer", "ping")
    BY DEF Load!At, Is, Early, FirstLoad, Ended, Finishing, Given
  <1>3. /\ d_pc'.at = "single" /\ ~ Early(d_pc') /\ Given(d_pc') = N /\ ~ Ended(d_pc')
        /\ ~ FirstLoad(d_pc') /\ ~ Is(d_pc', "single", "ping") /\ ~ Is(d_pc', "end", "failed")
        /\ ~ Is(d_pc', "answer", "ping") /\ ~ Is(d_pc', "answer", "done") /\ ~ Finishing(d_pc')
        /\ ~ Is(d_pc', "end", "ok")
    BY DEF Load!At, Is, Early, FirstLoad, Ended, Finishing, Given
  <1>4. d_overdue' # {}
    OBVIOUS
  <1>5. LoadTypes'
    BY <1>1, PlacesLemma DEF LoadTypes
  <1>6. OrderInv'
    BY <1>1, <1>2, <1>3 DEF OrderInv
  <1>7. StoreInv'
    BY <1>1, <1>2, <1>3, <1>4 DEF StoreInv
  <1>8. RomInv'
    BY <1>1, <1>2, <1>3 DEF RomInv
  <1>9. RunInv'
    BY <1>1, <1>2, <1>3 DEF RunInv
  <1>10. PingInv'
    <2>1. FramesOf(d_pc, d_unacked)'
      BY <1>1, <1>2, <1>3 DEF PingInv, FramesOf
    <2> QED
      BY <1>1, <1>2, <1>3, <2>1 DEF PingInv
  <1>11. EndInv'
    BY <1>3 DEF EndInv
  <1> QED
    BY <1>5, <1>6, <1>7, <1>8, <1>9, <1>10, <1>11 DEF LoadInv

\* The wait before a command, which is sent all the same.
LEMMA SingleTimesOut ==
  ASSUME LoadInv, d_pc.at = "single", d_overdue' = d_overdue \cup {"single"},
         UNCHANGED <<d_pc, d_packet_seq, d_unacked, d_single, d_rom_write_enabled, d_toMega, d_toPc,
                     d_loader, d_ram, d_rom_writable, d_losses, d_resends>>
  PROVE  LoadInv'
  <1>1. LoadTypes /\ OrderInv /\ StoreInv /\ RomInv /\ RunInv /\ PingInv
    BY DEF LoadInv
  <1>2. d_overdue' # {} /\ "single" \in d_overdue'
    OBVIOUS
  <1>3. LoadTypes'
    BY <1>1 DEF LoadTypes
  <1>4. OrderInv'
    BY <1>1 DEF OrderInv
  <1>5. StoreInv'
    BY <1>1, <1>2 DEF StoreInv
  <1>6. RomInv' /\ RunInv'
    BY <1>1 DEF RomInv, RunInv
  <1>7. PingInv'
    BY <1>1, <1>2 DEF PingInv
  <1>8. EndInv'
    BY <1>2 DEF EndInv
  <1> QED
    BY <1>3, <1>4, <1>5, <1>6, <1>7, <1>8 DEF LoadInv

LEMMA TimeoutStep ==
  ASSUME LoadInv, Load!Timeout
  PROVE  LoadInv'
  <1>1. /\ d_unacked # << >>
        /\ UNCHANGED <<d_packet_seq, d_unacked, d_single, d_rom_write_enabled, d_toMega, d_toPc,
                       d_loader, d_ram, d_rom_writable, d_losses, d_resends>>
    BY DEF Load!Timeout, Load!mega, Load!net
  <1>2. CASE /\ d_pc.at = "answer" /\ d_pc' = Load!At("end", "failed", 0)
             /\ d_overdue' = d_overdue \cup {"answer"}
    BY <1>1, <1>2, AnswerTimesOut
  <1>3. CASE /\ d_pc.at = "load" /\ d_pc' = Load!At("wait", "", 0)
             /\ d_overdue' = d_overdue \cup {"load"}
    BY <1>1, <1>3, BlockTimesOut
  <1>4. CASE /\ d_pc = Load!At("wait", "", 0) /\ d_pc' = Load!At("single", "done", 0)
             /\ d_overdue' = d_overdue \cup {"wait"}
    BY <1>1, <1>4, WaitTimesOut
  <1>5. CASE d_pc.at = "single" /\ d_overdue' = d_overdue \cup {"single"} /\ UNCHANGED d_pc
    BY <1>1, <1>5, SingleTimesOut
  <1> QED
    BY <1>2, <1>3, <1>4, <1>5 DEF Load!Timeout

\* An answer comes: the frame it acknowledges, if there is one, is done with.
LEMMA AckStep ==
  ASSUME LoadInv, Load!check_if_ack
  PROVE  LoadInv'
  <1>1. LoadTypes /\ OrderInv /\ StoreInv /\ RomInv /\ RunInv /\ PingInv /\ EndInv
    BY DEF LoadInv
  <1>2. /\ d_toPc # << >> /\ d_pc.at # "end" /\ d_unacked # << >> /\ d_toPc' = Tail(d_toPc)
        /\ UNCHANGED <<d_pc, d_packet_seq, d_single, d_rom_write_enabled, d_overdue, d_toMega,
                       d_loader, d_ram, d_rom_writable, d_losses, d_resends>>
    BY DEF Load!check_if_ack, Load!mega
  <1>3. /\ d_toPc \in Seq(Frames) /\ d_unacked \in Seq(Frames) /\ d_toMega \in Seq(Frames)
        /\ d_pc \in Places /\ DOMAIN d_unacked = 1 .. Len(d_unacked)
    BY <1>1 DEF LoadTypes
  <1> DEFINE rx == Head(d_toPc)
             acked == {i \in DOMAIN d_unacked : Load!IsAck(rx, d_unacked[i])}
  <1>4. /\ Tail(d_toPc) \in Seq(Frames) /\ Part(Tail(d_toPc), d_toPc) /\ rx = d_toPc[1] /\ rx \in Frames
        /\ 1 \in 1 .. Len(d_toPc)
    BY <1>2, <1>3, TailLemma
  <1>5. \/ d_unacked' = d_unacked
        \/ \E x \in 1 .. Len(d_unacked) :
             Load!IsAck(rx, d_unacked[x]) /\ d_unacked' = Load!RemoveAt(d_unacked, x)
    <2>1. CASE acked = {}
      BY <2>1 DEF Load!check_if_ack
    <2>2. CASE acked # {}
      <3>1. acked \in SUBSET Nat
        BY <1>3
      <3>2. \E x \in acked : \A j \in acked : x <= j
        BY <2>2, <3>1, LeastOf
      <3>3. d_unacked' = Load!RemoveAt(d_unacked, CHOOSE x \in acked : \A j \in acked : x <= j)
        BY <2>2 DEF Load!check_if_ack
      <3> DEFINE x == CHOOSE x \in acked : \A j \in acked : x <= j
      <3>4. x \in acked
        BY <3>2
      <3> QED
        BY <1>3, <3>3, <3>4
    <2> QED
      BY <2>1, <2>2
  <1> HIDE DEF rx, acked
  <1>6. /\ d_unacked' \in Seq(Frames) /\ Part(d_unacked', d_unacked) /\ Len(d_unacked') <= Len(d_unacked)
    <2>1. CASE d_unacked' = d_unacked
      BY <1>3, <2>1, SameLemma
    <2>2. ASSUME NEW x \in 1 .. Len(d_unacked), d_unacked' = Load!RemoveAt(d_unacked, x)
          PROVE  d_unacked' \in Seq(Frames) /\ Part(d_unacked', d_unacked) /\ Len(d_unacked') <= Len(d_unacked)
      BY <1>3, <2>2, RemovedLemma
    <2> QED
      BY <1>5, <2>1, <2>2
  <1>7. \* A block that is not awaited any longer was the one answered.
        \A i : Awaited(i, d_unacked) =>
          Awaited(i, d_unacked') \/ (~ d_single /\ rx.kind = "data" /\ rx.block = i)
    <2>1. SUFFICES ASSUME NEW i, Awaited(i, d_unacked), ~ Awaited(i, d_unacked')
          PROVE  ~ d_single /\ rx.kind = "data" /\ rx.block = i
      OBVIOUS
    <2>2. PICK j \in 1 .. Len(d_unacked) : d_unacked[j].kind = "data" /\ d_unacked[j].block = i
      BY <2>1 DEF Awaited
    <2>3. PICK x \in 1 .. Len(d_unacked) :
            Load!IsAck(rx, d_unacked[x]) /\ d_unacked' = Load!RemoveAt(d_unacked, x)
      BY <1>5, <2>1
    <2>4. j = x
      <3> SUFFICES ASSUME j # x PROVE FALSE
        OBVIOUS
      <3>1. \E k \in 1 .. Len(d_unacked') : d_unacked'[k] = d_unacked[j]
        BY <1>3, <2>3, RemovedLemma
      <3> QED
        BY <2>1, <2>2, <3>1 DEF Awaited
    <2> QED
      BY <2>2, <2>3, <2>4 DEF Load!IsAck
  <1>8. LoadTypes'
    <2>1. Len(d_unacked') <= QueueLength
      BY <1>1, <1>3, <1>6, LoadSizesLemma DEF LoadTypes
    <2> QED
      BY <1>1, <1>2, <1>4, <1>6, <2>1 DEF LoadTypes
  <1>9. OrderInv'
    <2>1. InOrder(d_toMega, d_unacked')
      BY <1>1, <1>3, <1>6, SameLemma, PartInOrder DEF OrderInv
    <2>2. /\ NotBefore(d_unacked', d_ram) /\ UpTo(d_unacked', Given(d_pc))
          /\ UpTo(Tail(d_toPc), Given(d_pc))
      BY <1>1, <1>3, <1>4, <1>6, PartKeeps DEF OrderInv
    <2> QED
      BY <1>1, <1>2, <2>1, <2>2 DEF OrderInv
  <1>10. StoreInv'
    <2>1. AllStored(Tail(d_toPc), d_ram, d_losses)
      BY <1>1, <1>3, <1>4, PartKeeps DEF StoreInv
    <2>2. No("data", d_unacked) => No("data", d_unacked')
      BY <1>3, <1>6, PartKeeps
    <2>3. rx.kind = "data" => Stored(rx.block, d_ram, d_losses)
      BY <1>1, <1>4 DEF StoreInv, AllStored
    <2>4. d_overdue = {} => Settled(Given(d_pc), d_unacked', d_ram, d_losses)
      BY <1>1, <1>7, <2>3 DEF StoreInv, Settled
    <2> QED
      BY <1>1, <1>2, <2>1, <2>2, <2>4 DEF StoreInv
  <1>11. RomInv'
    BY <1>1, <1>2 DEF RomInv
  <1>12. RunInv'
    BY <1>1, <1>2 DEF RunInv
  <1>13. PingInv'
    <2>1. FramesOf(d_pc, d_unacked') /\ (No("ping", d_toPc) => No("ping", Tail(d_toPc)))
          /\ (No("done", d_toPc) => No("done", Tail(d_toPc)))
          /\ (No("data", d_toPc) => No("data", Tail(d_toPc)))
          /\ No("hyperrupt", Tail(d_toPc)) /\ PingsFirst(Tail(d_toPc))
      BY <1>1, <1>3, <1>4, <1>6, PartKeeps DEF PingInv
    <2>2. ASSUME Given(d_pc) > 0, ~ Is(d_pc, "end", "failed"), ~ Awaited(1, d_unacked')
          PROVE  No("ping", Tail(d_toPc)) /\ No("ping", d_toMega)
      <3>1. CASE ~ Awaited(1, d_unacked)
        BY <1>1, <2>1, <2>2, <3>1 DEF PingInv
      <3>2. CASE Awaited(1, d_unacked)
        <4>1. d_toPc[1].kind = "data"
          BY <1>4, <1>7, <2>2, <3>2
        <4>2. No("ping", Tail(d_toPc)) /\ ~ No("data", d_toPc)
          BY <1>1, <1>2, <1>3, <4>1, FirstTaken DEF PingInv
        <4> QED
          BY <1>1, <4>2 DEF PingInv
      <3> QED
        BY <3>1, <3>2
    <2>3. ASSUME Is(d_pc, "answer", "done"), "single" \notin d_overdue, N > 0, d_unacked' = << >>
          PROVE  d_loader = "started"
      <3>1. No("data", d_unacked)
        BY <1>1, <2>3 DEF StoreInv, Finishing
      <3>2. ~ Awaited(1, d_unacked)
        BY <3>1 DEF No, Awaited
      <3>3. Given(d_pc) = N /\ ~ Is(d_pc, "end", "failed") /\ d_pc.at = "answer"
        BY <2>3 DEF Given, Early, Is
      <3>4. d_toPc[1].kind # "ping" /\ d_toPc[1].kind # "hyperrupt"
        BY <1>1, <1>2, <1>3, <2>3, <3>2, <3>3, FirstTaken DEF PingInv
      <3>5. d_single
        BY <1>1, <1>2, <3>3 DEF PingInv
      <3>6. d_toPc[1].kind # "data"
        <4>1. PICK x \in 1 .. Len(d_unacked) : Load!IsAck(rx, d_unacked[x])
          BY <1>2, <1>5, <2>3
        <4> QED
          BY <1>4, <3>5, <4>1 DEF Load!IsAck
      <3>7. d_toPc[1].kind = "done"
        BY <1>4, <3>4, <3>6, FrameLemma
      <3> QED
        BY <1>1, <1>2, <1>3, <3>7, FirstTaken DEF PingInv
    <2> QED
      BY <1>1, <1>2, <2>1, <2>2, <2>3 DEF PingInv
  <1>14. EndInv'
    BY <1>1, <1>2 DEF EndInv
  <1> QED
    BY <1>8, <1>9, <1>10, <1>11, <1>12, <1>13, <1>14 DEF LoadInv

\* The oldest frame without an answer is sent again.
LEMMA ResendStep ==
  ASSUME LoadInv, Load!maybe_send_ack
  PROVE  LoadInv'
  <1> DEFINE m == d_unacked[1]
  <1>1. LoadTypes /\ OrderInv /\ StoreInv /\ RomInv /\ RunInv /\ PingInv /\ EndInv
    BY DEF LoadInv
  <1>2. /\ d_unacked # << >> /\ d_pc.at # "end" /\ d_toMega' = Append(d_toMega, m)
        /\ UNCHANGED <<d_pc, d_packet_seq, d_unacked, d_single, d_rom_write_enabled, d_overdue, d_toPc,
                       d_loader, d_ram, d_rom_writable, d_losses>>
    BY DEF Load!maybe_send_ack, Load!client, Load!mega
  <1>3. d_resends < MaxResends /\ d_resends' = d_resends + 1
    BY DEF Load!maybe_send_ack
  <1>4. /\ d_toPc \in Seq(Frames) /\ d_unacked \in Seq(Frames) /\ d_toMega \in Seq(Frames)
        /\ d_pc \in Places
    BY <1>1 DEF LoadTypes
  <1>5. 1 \in 1 .. Len(d_unacked) /\ m \in Frames
    BY <1>2, <1>4, RestLemma
  <1> HIDE DEF m
  <1>6. /\ m.kind = "data" => d_ram[m.addr] <= m.block /\ m.block <= Given(d_pc)
        /\ m.kind = "ping" => Is(d_pc, "answer", "ping")
        /\ m.kind = "done" => Ended(d_pc)
    BY <1>1, <1>2, <1>5 DEF OrderInv, NotBefore, UpTo, PingInv, FramesOf, m
  <1>7. /\ Append(d_toMega, m) \in Seq(Frames)
        /\ \A kind : No(kind, d_toMega) /\ m.kind # kind => No(kind, Append(d_toMega, m))
        /\ FirstComesFirst(d_toMega) => FirstComesFirst(Append(d_toMega, m))
        /\ PingsFirst(d_toMega) /\ (m.kind # "ping" \/ No("data", d_toMega)) =>
             PingsFirst(Append(d_toMega, m))
    BY <1>4, <1>5, MoreKeeps
  <1>8. Given(d_pc) = 0 => m.kind # "data" /\ No("data", d_toMega) /\ No("data", d_toPc)
    BY <1>1, <1>4, <1>5, NoneGiven, FirstTaken, <1>2 DEF OrderInv, m
  <1>9. Early(d_pc) => Given(d_pc) = 0
    BY DEF Given
  <1>10. Is(d_pc, "answer", "ping") => Early(d_pc) /\ ~ Ended(d_pc) /\ Given(d_pc) = 0
    BY <1>9 DEF Is, Early, Ended
  <1>11. ~ Is(d_pc, "end", "failed")
    BY <1>2 DEF Is
  <1>12. LoadTypes'
    <2>1. d_resends' \in 0 .. MaxResends
      BY <1>1, <1>3, LoadSizesLemma DEF LoadTypes
    <2> QED
      BY <1>1, <1>2, <1>7, <2>1 DEF LoadTypes
  <1>13. OrderInv'
    <2>1. InOrder(d_toMega, d_unacked)'
      BY <1>1, <1>2, <1>4, AgainInOrder DEF OrderInv, m
    <2>2. NotBefore(Append(d_toMega, m), d_ram) /\ UpTo(Append(d_toMega, m), Given(d_pc))
      BY <1>1, <1>4, <1>5, <1>6, MoreKeeps DEF OrderInv
    <2> QED
      BY <1>1, <1>2, <2>1, <2>2 DEF OrderInv
  <1>14. StoreInv'
    BY <1>1, <1>2, <1>6, <1>7 DEF StoreInv
  <1>15. RomInv'
    BY <1>1, <1>2, <1>7, <1>8, <1>11 DEF RomInv
  <1>16. RunInv'
    BY <1>1, <1>2, <1>7, <1>8, <1>9, <1>11 DEF RunInv
  <1>17. PingInv'
    <2>1. PingsFirst(d_toMega)'
      BY <1>1, <1>2, <1>6, <1>7, <1>8, <1>10 DEF PingInv
    <2>2. No("data", d_toPc) \/ No("ping", d_toMega)'
      BY <1>1, <1>2, <1>6, <1>7, <1>8, <1>10 DEF PingInv
    <2>3. Given(d_pc) > 0 /\ ~ Awaited(1, d_unacked) => No("ping", d_toPc) /\ No("ping", d_toMega)'
      <3>1. SUFFICES ASSUME Given(d_pc) > 0, ~ Awaited(1, d_unacked)
            PROVE  No("ping", d_toPc) /\ No("ping", d_toMega)'
        OBVIOUS
      <3>2. No("ping", d_toPc) /\ No("ping", d_toMega)
        BY <1>1, <1>11, <3>1 DEF PingInv
      <3>3. Given(d_pc) # 0
        BY <3>1
      <3> QED
        BY <1>2, <1>6, <1>7, <1>10, <3>2, <3>3
    <2> QED
      BY <1>1, <1>2, <2>1, <2>2, <2>3 DEF PingInv
  <1>18. EndInv'
    BY <1>1, <1>2 DEF EndInv
  <1> QED
    BY <1>12, <1>13, <1>14, <1>15, <1>16, <1>17, <1>18 DEF LoadInv

LEMMA LoadStays ==
  ASSUME LoadInv, UNCHANGED d_vars
  PROVE  LoadInv'
  BY DEF d_vars, LoadInv, LoadTypes, OrderInv, StoreInv, RomInv, RunInv, PingInv, EndInv

-----------------------------------------------------------------------------
(* etherload: the network and the MEGA65 *)

\* A frame is lost.
LEMMA LoseStep ==
  ASSUME LoadInv, Load!Lose
  PROVE  LoadInv'
  <1>1. LoadTypes /\ OrderInv /\ StoreInv /\ RomInv /\ RunInv /\ PingInv /\ EndInv
    BY DEF LoadInv
  <1>2. UNCHANGED <<d_pc, d_packet_seq, d_unacked, d_single, d_rom_write_enabled, d_overdue,
                    d_loader, d_ram, d_rom_writable, d_resends>>
    BY DEF Load!Lose, Load!client, Load!mega
  <1>3. d_losses < MaxLosses /\ d_losses' = d_losses + 1
    BY DEF Load!Lose
  <1>4. \/ d_toMega # << >> /\ d_toMega' = Tail(d_toMega) /\ d_toPc' = d_toPc
        \/ d_toPc # << >> /\ d_toPc' = Tail(d_toPc) /\ d_toMega' = d_toMega
    BY DEF Load!Lose
  <1>5. /\ d_toPc \in Seq(Frames) /\ d_unacked \in Seq(Frames) /\ d_toMega \in Seq(Frames)
        /\ d_pc \in Places
    BY <1>1 DEF LoadTypes
  <1>6. /\ d_toMega' \in Seq(Frames) /\ d_toPc' \in Seq(Frames)
        /\ Part(d_toMega', d_toMega) /\ Part(d_toPc', d_toPc)
    BY <1>4, <1>5, TailLemma, SameLemma
  <1>7. d_losses' \in 0 .. MaxLosses /\ d_losses' # 0
    BY <1>1, <1>3, LoadSizesLemma DEF LoadTypes
  <1>8. LoadTypes'
    BY <1>1, <1>2, <1>6, <1>7 DEF LoadTypes
  <1>9. OrderInv'
    <2>1. InOrder(d_toMega', d_unacked)
      BY <1>1, <1>5, <1>6, SameLemma, PartInOrder DEF OrderInv
    <2>2. /\ NotBefore(d_toMega', d_ram) /\ UpTo(d_toMega', Given(d_pc))
          /\ UpTo(d_toPc', Given(d_pc))
      BY <1>1, <1>5, <1>6, PartKeeps DEF OrderInv
    <2> QED
      BY <1>1, <1>2, <2>1, <2>2 DEF OrderInv
  <1>10. \A i : Stored(i, d_ram, d_losses) => Stored(i, d_ram, d_losses')
    BY <1>7 DEF Stored
  <1>11. StoreInv'
    <2>1. AllStored(d_toPc', d_ram, d_losses')
      <3>1. AllStored(d_toPc', d_ram, d_losses)
        BY <1>1, <1>5, <1>6, PartKeeps DEF StoreInv
      <3> QED
        BY <1>10, <3>1 DEF AllStored
    <2>2. d_overdue = {} => Settled(Given(d_pc), d_unacked, d_ram, d_losses')
      BY <1>1, <1>10 DEF StoreInv, Settled
    <2>3. No("done", d_toMega) => No("done", d_toMega')
      BY <1>5, <1>6, PartKeeps
    <2> QED
      BY <1>1, <1>2, <2>1, <2>2, <2>3 DEF StoreInv
  <1>12. RomInv'
    BY <1>1, <1>2, <1>7 DEF RomInv
  <1>13. RunInv'
    <2>1. No("data", d_toMega) => No("data", d_toMega')
      BY <1>5, <1>6, PartKeeps
    <2>2. d_toPc = << >> => d_toPc' = << >>
      BY <1>4
    <2> QED
      BY <1>1, <1>2, <2>1, <2>2 DEF RunInv
  <1>14. PingInv'
    <2>1. /\ PingsFirst(d_toMega') /\ PingsFirst(d_toPc') /\ No("hyperrupt", d_toPc')
          /\ No("ping", d_toMega) => No("ping", d_toMega')
          /\ No("ping", d_toPc) => No("ping", d_toPc')
          /\ No("done", d_toPc) => No("done", d_toPc')
          /\ No("data", d_toPc) => No("data", d_toPc')
      BY <1>1, <1>5, <1>6, PartKeeps DEF PingInv
    <2> QED
      BY <1>1, <1>2, <2>1 DEF PingInv
  <1>15. EndInv'
    BY <1>1, <1>2 DEF EndInv
  <1> QED
    BY <1>8, <1>9, <1>11, <1>12, <1>13, <1>14, <1>15 DEF LoadInv

\* What the MEGA65 does with a frame that carries no block.
LEMMA CommandArrives ==
  ASSUME LoadInv, d_toMega # << >>, d_toMega' = Tail(d_toMega), d_toMega[1].kind # "data",
         \/ d_toMega[1].kind = "hyperrupt" /\ d_toPc' = d_toPc
            /\ d_loader' = (IF d_loader = "off" THEN "runs" ELSE d_loader)
         \/ d_toMega[1].kind = "ping" /\ d_loader = "runs" /\ d_toPc' = Append(d_toPc, d_toMega[1])
            /\ d_loader' = d_loader
         \/ d_toMega[1].kind = "done" /\ d_loader = "runs" /\ d_toPc' = Append(d_toPc, d_toMega[1])
            /\ d_loader' = "started"
         \/ d_loader # "runs" /\ d_toPc' = d_toPc /\ d_loader' = d_loader,
         UNCHANGED <<d_pc, d_packet_seq, d_unacked, d_single, d_rom_write_enabled, d_overdue,
                     d_ram, d_rom_writable, d_losses, d_resends>>
  PROVE  LoadInv'
  <1> DEFINE m == d_toMega[1]
  <1>1. LoadTypes /\ OrderInv /\ StoreInv /\ RomInv /\ RunInv /\ PingInv /\ EndInv
    BY DEF LoadInv
  <1>2. /\ d_toPc \in Seq(Frames) /\ d_unacked \in Seq(Frames) /\ d_toMega \in Seq(Frames)
        /\ d_pc \in Places /\ d_loader \in {"off", "runs", "started"}
    BY <1>1 DEF LoadTypes
  <1>3. /\ Tail(d_toMega) \in Seq(Frames) /\ Part(Tail(d_toMega), d_toMega) /\ m \in Frames
    BY <1>2, TailLemma
  <1>4. m.kind # "data"
    OBVIOUS
  <1>5. d_toPc' = d_toPc \/ d_toPc' = Append(d_toPc, m)
    OBVIOUS
  <1>6. d_loader' \in {"off", "runs", "started"} /\ (d_loader = "started" => d_loader' = "started")
        /\ (d_loader # "off" => d_loader' # "off")
    BY <1>2
  <1>7. d_loader' = "started" => d_loader = "started" \/ m.kind = "done"
    BY <1>2
  <1>8. d_toPc' # d_toPc => d_loader = "runs" /\ m.kind \in {"ping", "done"}
        /\ (m.kind = "done" => d_loader' = "started")
    OBVIOUS
  <1> HIDE DEF m
  <1>9. /\ d_toPc' \in Seq(Frames)
        /\ \A kind : No(kind, d_toPc) /\ m.kind # kind => No(kind, d_toPc')
        /\ \A given : UpTo(d_toPc, given) => UpTo(d_toPc', given)
        /\ \A ram, lost : AllStored(d_toPc, ram, lost) => AllStored(d_toPc', ram, lost)
        /\ PingsFirst(d_toPc) /\ (m.kind # "ping" \/ No("data", d_toPc)) => PingsFirst(d_toPc')
    BY <1>2, <1>3, <1>4, <1>5, MoreKeeps
  <1>10. /\ \A kind : No(kind, d_toMega) => No(kind, Tail(d_toMega)) /\ m.kind # kind
         /\ PingsFirst(d_toMega) => PingsFirst(Tail(d_toMega))
         /\ FirstComesFirst(d_toMega) => FirstComesFirst(Tail(d_toMega))
         /\ \A given : UpTo(d_toMega, given) => UpTo(Tail(d_toMega), given)
         /\ \A ram : NotBefore(d_toMega, ram) => NotBefore(Tail(d_toMega), ram)
    BY <1>2, <1>3, <1>4, PartKeeps, FirstTaken DEF m
  <1>11. LoadTypes'
    BY <1>1, <1>3, <1>6, <1>9 DEF LoadTypes
  <1>12. OrderInv'
    <2>1. InOrder(Tail(d_toMega), d_unacked)
      BY <1>1, <1>2, <1>3, SameLemma, PartInOrder DEF OrderInv
    <2> QED
      BY <1>1, <1>9, <1>10, <2>1 DEF OrderInv
  <1>13. StoreInv'
    BY <1>1, <1>7, <1>9, <1>10 DEF StoreInv
  <1>14. RomInv'
    BY <1>1, <1>6, <1>10 DEF RomInv
  <1>15. RunInv'
    <2>1. d_loader' = "off" => d_loader = "off" /\ d_toPc' = d_toPc
      BY <1>6, <1>8
    <2> QED
      BY <1>1, <1>10, <2>1 DEF RunInv
  <1>16. PingInv'
    <2>1. FramesOf(d_pc, d_unacked)'
      BY <1>1 DEF PingInv
    <2>2. No("hyperrupt", d_toPc)'
      BY <1>1, <1>8, <1>9 DEF PingInv
    <2>3. d_loader' # "started" => No("done", d_toPc)'
      BY <1>1, <1>6, <1>8, <1>9 DEF PingInv
    <2>4. PingsFirst(d_toMega)'
      BY <1>1, <1>10 DEF PingInv
    <2>5. m.kind = "ping" => No("data", d_toPc)
      BY <1>1, <1>10 DEF PingInv
    <2>6. PingsFirst(d_toPc)'
      BY <1>1, <1>9, <2>5 DEF PingInv
    <2>7. No("data", d_toPc)' \/ No("ping", d_toMega)'
      BY <1>1, <1>4, <1>9, <1>10 DEF PingInv
    <2>8. No("ping", d_toPc) /\ No("ping", d_toMega) => No("ping", d_toPc)' /\ No("ping", d_toMega)'
      BY <1>9, <1>10
    <2> QED
      BY <1>1, <1>6, <2>1, <2>2, <2>3, <2>4, <2>6, <2>7, <2>8 DEF PingInv
  <1>17. EndInv'
    BY <1>1, <1>6 DEF EndInv
  <1> QED
    BY <1>11, <1>12, <1>13, <1>14, <1>15, <1>16, <1>17 DEF LoadInv

\* A block comes when the routine does not run: nothing is done with it.
LEMMA BlockIgnored ==
  ASSUME LoadInv, d_toMega # << >>, d_toMega' = Tail(d_toMega), d_toMega[1].kind = "data",
         d_loader # "runs",
         UNCHANGED <<d_pc, d_packet_seq, d_unacked, d_single, d_rom_write_enabled, d_overdue, d_toPc,
                     d_loader, d_ram, d_rom_writable, d_losses, d_resends>>
  PROVE  LoadInv'
  <1>1. LoadTypes /\ OrderInv /\ StoreInv /\ RomInv /\ RunInv /\ PingInv /\ EndInv
    BY DEF LoadInv
  <1>2. /\ d_unacked \in Seq(Frames) /\ d_toMega \in Seq(Frames)
        /\ d_loader \in {"off", "runs", "started"}
    BY <1>1 DEF LoadTypes
  <1>3. Tail(d_toMega) \in Seq(Frames) /\ Part(Tail(d_toMega), d_toMega)
    BY <1>2, TailLemma
  <1>4. d_loader = "started"
    <2>1. ~ No("data", d_toMega)
      BY <1>2, FirstTaken
    <2> QED
      BY <1>1, <1>2, <2>1 DEF RunInv
  <1>5. /\ \A kind : No(kind, d_toMega) => No(kind, Tail(d_toMega))
        /\ PingsFirst(d_toMega) => PingsFirst(Tail(d_toMega))
        /\ \A given : UpTo(d_toMega, given) => UpTo(Tail(d_toMega), given)
        /\ \A ram : NotBefore(d_toMega, ram) => NotBefore(Tail(d_toMega), ram)
    BY <1>2, <1>3, PartKeeps
  <1>6. LoadTypes'
    BY <1>1, <1>3 DEF LoadTypes
  <1>7. OrderInv'
    <2>1. InOrder(Tail(d_toMega), d_unacked)
      BY <1>1, <1>2, <1>3, SameLemma, PartInOrder DEF OrderInv
    <2> QED
      BY <1>1, <1>5, <2>1 DEF OrderInv
  <1>8. StoreInv'
    BY <1>1, <1>5 DEF StoreInv
  <1>9. RomInv' /\ RunInv'
    BY <1>1, <1>4 DEF RomInv, RunInv
  <1>10. PingInv'
    BY <1>1, <1>5 DEF PingInv
  <1>11. EndInv'
    BY <1>1 DEF EndInv
  <1> QED
    BY <1>6, <1>7, <1>8, <1>9, <1>10, <1>11 DEF LoadInv

\* A block is written, unless it is for the write-protected area, and echoed.
LEMMA BlockArrives ==
  ASSUME LoadInv, d_toMega # << >>, d_toMega' = Tail(d_toMega), d_toMega[1].kind = "data",
         d_loader = "runs",
         d_rom_writable' = (d_rom_writable \/ d_toMega[1].rom),
         d_ram' = IF d_toMega[1].addr \in Rom /\ ~ d_rom_writable' THEN d_ram
                  ELSE [d_ram EXCEPT ![d_toMega[1].addr] = d_toMega[1].block],
         d_toPc' = Append(d_toPc, d_toMega[1]),
         UNCHANGED <<d_pc, d_packet_seq, d_unacked, d_single, d_rom_write_enabled, d_overdue,
                     d_loader, d_losses, d_resends>>
  PROVE  LoadInv'
  <1> DEFINE m == d_toMega[1]
  <1>1. LoadTypes /\ OrderInv /\ StoreInv /\ RomInv /\ RunInv /\ PingInv /\ EndInv
    BY DEF LoadInv
  <1>2. /\ d_toPc \in Seq(Frames) /\ d_unacked \in Seq(Frames) /\ d_toMega \in Seq(Frames)
        /\ d_pc \in Places /\ d_ram \in [Addresses -> 0 .. N] /\ d_rom_writable \in BOOLEAN
    BY <1>1 DEF LoadTypes
  <1>3. /\ Tail(d_toMega) \in Seq(Frames) /\ Part(Tail(d_toMega), d_toMega) /\ m \in Frames
        /\ 1 \in 1 .. Len(d_toMega)
        /\ \A p \in 1 .. Len(Tail(d_toMega)) :
             p + 1 \in 1 .. Len(d_toMega) /\ Tail(d_toMega)[p] = d_toMega[p + 1]
    BY <1>2, TailLemma
  <1>4. /\ m.kind = "data" /\ m.addr \in Addresses /\ m.block \in 1 .. N /\ m.addr = Blocks[m.block]
        /\ (m.rom <=> m.block = 1)
    BY <1>3, FrameLemma
  <1>5. d_rom_writable' \in BOOLEAN
    BY <1>2, <1>4
  <1>6. \/ d_ram' = d_ram /\ m.addr \in Rom /\ ~ d_rom_writable'
        \/ d_ram' = [d_ram EXCEPT ![m.addr] = m.block] /\ (m.addr \in Rom => d_rom_writable')
    OBVIOUS
  <1>7. d_rom_writable' = (d_rom_writable \/ m.rom)
    OBVIOUS
  <1>8. d_toPc' = Append(d_toPc, m) /\ d_toMega' = Tail(d_toMega)
    OBVIOUS
  <1>9. d_ram[m.addr] <= m.block /\ m.block <= Given(d_pc)
    BY <1>1, <1>3, <1>4 DEF OrderInv, NotBefore, UpTo
  <1>10. \A p \in 1 .. Len(Tail(d_toMega)) :
           Tail(d_toMega)[p].kind = "data" /\ Tail(d_toMega)[p].addr = m.addr =>
             m.block <= Tail(d_toMega)[p].block
    <2>1. SUFFICES ASSUME NEW p \in 1 .. Len(Tail(d_toMega)),
                          Tail(d_toMega)[p].kind = "data", Tail(d_toMega)[p].addr = m.addr
          PROVE  m.block <= Tail(d_toMega)[p].block
      OBVIOUS
    <2>2. p + 1 \in 1 .. Len(d_toMega) /\ Tail(d_toMega)[p] = d_toMega[p + 1] /\ 1 < p + 1
      BY <1>3
    <2> QED
      BY <1>1, <1>3, <1>4, <2>1, <2>2 DEF OrderInv, InOrder
  <1>11. \A j \in 1 .. Len(d_unacked) :
           d_unacked[j].kind = "data" /\ d_unacked[j].addr = m.addr => m.block <= d_unacked[j].block
    BY <1>1, <1>3, <1>4 DEF OrderInv, InOrder
  <1> HIDE DEF m
  <1>12. \* Memory gets no older block.
         /\ d_ram' \in [Addresses -> 0 .. N]
         /\ \A a \in Addresses : d_ram'[a] >= d_ram[a]
         /\ \A a \in Addresses : d_ram'[a] = d_ram[a] \/ (a = m.addr /\ d_ram'[a] = m.block)
    <2>1. m.block \in 0 .. N
      BY <1>4, LoadSizesLemma
    <2>2. CASE d_ram' = d_ram
      <3>1. \A a \in Addresses : d_ram[a] \in 0 .. N
        BY <1>2
      <3>2. \A n \in 0 .. N : n >= n
        BY LoadSizesLemma
      <3> QED
        BY <1>2, <2>2, <3>1, <3>2
    <2>3. CASE d_ram' = [d_ram EXCEPT ![m.addr] = m.block]
      <3>1. \A a \in Addresses : d_ram'[a] = IF a = m.addr THEN m.block ELSE d_ram[a]
        BY <1>2, <2>3
      <3>2. d_ram' \in [Addresses -> 0 .. N]
        BY <1>2, <2>1, <2>3
      <3>3. \A a \in Addresses : d_ram[a] \in 0 .. N
        BY <1>2
      <3>4. \A a \in Addresses : d_ram'[a] >= d_ram[a]
        BY <1>9, <2>1, <3>1, <3>3, LoadSizesLemma
      <3> QED
        BY <3>1, <3>2, <3>4
    <2> QED
      BY <1>6, <2>2, <2>3
  <1>13. \* The protection has been lifted when this block is written to the ROM.
         d_losses = 0 => d_rom_writable'
    <2>1. ~ No("data", d_toMega)
      BY <1>2, <1>4, FirstTaken DEF m
    <2>2. d_losses = 0 /\ ~ d_rom_writable => m.block = 1
      BY <1>1, <1>2, <1>4, <2>1, FirstTaken DEF RomInv, m
    <2> QED
      BY <1>4, <1>7, <2>2
  <1>14. Stored(m.block, d_ram', d_losses)
    <2>1. SUFFICES ASSUME Blocks[m.block] \in Rom => d_losses = 0
          PROVE  d_ram'[Blocks[m.block]] >= m.block
      BY DEF Stored
    <2>2. d_ram' = [d_ram EXCEPT ![m.addr] = m.block]
      BY <1>4, <1>6, <1>13, <2>1
    <2>3. d_ram'[m.addr] = m.block
      BY <1>2, <1>4, <2>2
    <2>4. m.block >= m.block
      BY <1>4, LoadSizesLemma
    <2> QED
      BY <1>4, <2>3, <2>4
  <1>15. \A i \in 1 .. N : Stored(i, d_ram, d_losses) => Stored(i, d_ram', d_losses)
    <2>1. SUFFICES ASSUME NEW i \in 1 .. N, d_ram[Blocks[i]] >= i
          PROVE  d_ram'[Blocks[i]] >= i
      BY DEF Stored
    <2>2. Blocks[i] \in Addresses /\ i \in Nat
      BY LoadSizesLemma
    <2>3. d_ram[Blocks[i]] \in 0 .. N /\ d_ram'[Blocks[i]] \in 0 .. N
          /\ d_ram'[Blocks[i]] >= d_ram[Blocks[i]]
      BY <1>2, <1>12, <2>2
    <2> QED
      BY <2>1, <2>2, <2>3, LoadSizesLemma
  <1>16. /\ Append(d_toPc, m) \in Seq(Frames)
         /\ \A kind : No(kind, d_toPc) /\ m.kind # kind => No(kind, Append(d_toPc, m))
         /\ UpTo(d_toPc, Given(d_pc)) => UpTo(Append(d_toPc, m), Given(d_pc))
         /\ PingsFirst(d_toPc) => PingsFirst(Append(d_toPc, m))
    BY <1>2, <1>3, <1>4, <1>9, MoreKeeps
  <1>17. /\ \A kind : No(kind, d_toMega) => No(kind, Tail(d_toMega))
         /\ PingsFirst(d_toMega) => PingsFirst(Tail(d_toMega)) /\ No("ping", Tail(d_toMega))
         /\ \A given : UpTo(d_toMega, given) => UpTo(Tail(d_toMega), given)
         /\ \A ram : NotBefore(d_toMega, ram) => NotBefore(Tail(d_toMega), ram)
    BY <1>2, <1>3, <1>4, PartKeeps, FirstTaken DEF m
  <1>18. LoadTypes'
    BY <1>1, <1>3, <1>5, <1>8, <1>12, <1>16 DEF LoadTypes
  <1>19. OrderInv'
    <2>1. InOrder(Tail(d_toMega), d_unacked)
      BY <1>1, <1>2, <1>3, SameLemma, PartInOrder DEF OrderInv
    <2>2. NotBefore(Tail(d_toMega), d_ram')
      <3>1. NotBefore(Tail(d_toMega), d_ram)
        BY <1>1, <1>17 DEF OrderInv
      <3>2. \A p \in 1 .. Len(Tail(d_toMega)) : Tail(d_toMega)[p].kind = "data" =>
              Tail(d_toMega)[p].addr \in Addresses
        BY <1>3, FrameLemma
      <3> QED
        BY <1>10, <1>12, <3>1, <3>2 DEF NotBefore
    <2>3. NotBefore(d_unacked, d_ram')
      <3>1. NotBefore(d_unacked, d_ram)
        BY <1>1 DEF OrderInv
      <3>2. \A p \in 1 .. Len(d_unacked) : d_unacked[p].kind = "data" => d_unacked[p].addr \in Addresses
        BY <1>2, FrameLemma
      <3> QED
        BY <1>11, <1>12, <3>1, <3>2 DEF NotBefore
    <2>4. RamHolds(d_ram', Given(d_pc))
      <3>1. RamHolds(d_ram, Given(d_pc))
        BY <1>1 DEF OrderInv
      <3> QED
        BY <1>4, <1>9, <1>12, <3>1 DEF RamHolds
    <2> QED
      BY <1>1, <1>8, <1>16, <1>17, <2>1, <2>2, <2>3, <2>4 DEF OrderInv
  <1>20. StoreInv'
    <2>1. AllStored(Append(d_toPc, m), d_ram', d_losses)
      <3>1. AllStored(d_toPc, d_ram, d_losses)
        BY <1>1 DEF StoreInv
      <3>2. \A p \in 1 .. Len(d_toPc) : d_toPc[p].kind = "data" => d_toPc[p].block \in 1 .. N
        BY <1>2, FrameLemma
      <3>3. AllStored(d_toPc, d_ram', d_losses)
        BY <1>15, <3>1, <3>2 DEF AllStored
      <3> QED
        BY <1>2, <1>3, <1>14, <3>3, MoreKeeps
    <2>2. d_overdue = {} => Settled(Given(d_pc), d_unacked, d_ram', d_losses)
      <3>1. \A i \in 1 .. Given(d_pc) : i \in 1 .. N
        BY <1>2, GivenLemma, LoadSizesLemma
      <3> QED
        BY <1>1, <1>15, <3>1 DEF StoreInv, Settled
    <2> QED
      BY <1>1, <1>8, <1>17, <2>1, <2>2 DEF StoreInv
  <1>21. RomInv'
    BY <1>1, <1>13 DEF RomInv
  <1>22. RunInv'
    BY <1>1 DEF RunInv
  <1>23. PingInv'
    <2>1. FramesOf(d_pc, d_unacked)'
      BY <1>1 DEF PingInv
    <2>2. No("hyperrupt", Append(d_toPc, m)) /\ (No("done", d_toPc) => No("done", Append(d_toPc, m)))
          /\ (No("ping", d_toPc) => No("ping", Append(d_toPc, m)))
      BY <1>1, <1>4, <1>16 DEF PingInv
    <2>3. PingsFirst(Tail(d_toMega)) /\ No("ping", Tail(d_toMega)) /\ PingsFirst(Append(d_toPc, m))
      BY <1>1, <1>16, <1>17 DEF PingInv
    <2> QED
      BY <1>1, <1>8, <2>1, <2>2, <2>3 DEF PingInv
  <1>24. EndInv'
    BY <1>1 DEF EndInv
  <1> QED
    BY <1>18, <1>19, <1>20, <1>21, <1>22, <1>23, <1>24 DEF LoadInv

LEMMA ExecuteStep ==
  ASSUME LoadInv, Load!ethlet_dma_load
  PROVE  LoadInv'
  <1> DEFINE m == d_toMega[1]
  <1>1. /\ d_toMega # << >> /\ d_toMega' = Tail(d_toMega) /\ Load!Execute(Head(d_toMega))
        /\ UNCHANGED <<d_pc, d_packet_seq, d_unacked, d_single, d_rom_write_enabled, d_overdue,
                       d_losses, d_resends>>
    BY DEF Load!ethlet_dma_load, Load!client
  <1>2. d_toMega \in Seq(Frames) /\ d_loader \in {"off", "runs", "started"}
    BY DEF LoadInv, LoadTypes
  <1>3. Head(d_toMega) = m /\ m \in Frames
    BY <1>1, <1>2, TailLemma
  <1>4. m.kind \in {"hyperrupt", "ping", "done", "data"}
    BY <1>3, FrameLemma
  <1>5. Load!Execute(m)
    BY <1>1, <1>3
  <1> HIDE DEF m
  <1>6. CASE m.kind = "hyperrupt"
    <2>1. /\ d_loader' = (IF d_loader = "off" THEN "runs" ELSE d_loader)
          /\ d_ram' = d_ram /\ d_rom_writable' = d_rom_writable /\ d_toPc' = d_toPc
      BY <1>5, <1>6 DEF Load!Execute
    <2> QED
      BY <1>1, <1>6, <2>1, CommandArrives DEF m
  <1>7. CASE m.kind # "hyperrupt" /\ d_loader # "runs"
    <2>1. d_loader' = d_loader /\ d_ram' = d_ram /\ d_rom_writable' = d_rom_writable /\ d_toPc' = d_toPc
      BY <1>5, <1>7 DEF Load!Execute, Load!mega
    <2>2. CASE m.kind = "data"
      BY <1>1, <1>7, <2>1, <2>2, BlockIgnored DEF m
    <2>3. CASE m.kind # "data"
      BY <1>1, <1>7, <2>1, <2>3, CommandArrives DEF m
    <2> QED
      BY <2>2, <2>3
  <1>8. CASE m.kind = "ping" /\ d_loader = "runs"
    <2>1. d_loader' = d_loader /\ d_ram' = d_ram /\ d_rom_writable' = d_rom_writable
          /\ d_toPc' = Append(d_toPc, m)
      BY <1>5, <1>8 DEF Load!Execute, Load!mega
    <2> QED
      BY <1>1, <1>8, <2>1, CommandArrives DEF m
  <1>9. CASE m.kind = "done" /\ d_loader = "runs"
    <2>1. d_loader' = "started" /\ d_ram' = d_ram /\ d_rom_writable' = d_rom_writable
          /\ d_toPc' = Append(d_toPc, m)
      BY <1>5, <1>9 DEF Load!Execute
    <2> QED
      BY <1>1, <1>9, <2>1, CommandArrives DEF m
  <1>10. CASE m.kind = "data" /\ d_loader = "runs"
    <2>1. /\ d_loader' = d_loader /\ d_toPc' = Append(d_toPc, m)
          /\ d_rom_writable' = (d_rom_writable \/ m.rom)
          /\ d_ram' = IF m.addr \in Rom /\ ~ d_rom_writable' THEN d_ram
                      ELSE [d_ram EXCEPT ![m.addr] = m.block]
      BY <1>5, <1>10 DEF Load!Execute
    <2> QED
      BY <1>1, <1>10, <2>1, BlockArrives DEF m
  <1> QED
    BY <1>2, <1>4, <1>6, <1>7, <1>8, <1>9, <1>10

\* Each step of etherload and of the MEGA65 keeps the invariant.
LEMMA LoadStep ==
  ASSUME LoadInv, Load!Next
  PROVE  LoadInv'
  <1>1. CASE \E kind \in {"ping", "done"} : Load!BeginSingle(kind) \/ Load!EndSingle(kind)
    BY <1>1, BeginPingStep, BeginDoneStep, EndPingStep, EndDoneStep
  <1>2. CASE \E i \in DOMAIN Blocks : Load!send_mem(i)
    BY <1>2, SendStep, LoadSizesLemma
  <1>3. CASE Load!trigger_eth_hyperrupt \/ Load!wait_all_acks \/ Load!Timeout
    BY <1>3, TriggerStep, WaitStep, TimeoutStep
  <1>4. CASE Load!check_if_ack \/ Load!maybe_send_ack \/ Load!ethlet_dma_load \/ Load!Lose
    BY <1>4, AckStep, ResendStep, ExecuteStep, LoseStep
  <1> QED
    BY <1>1, <1>2, <1>3, <1>4 DEF Load!Next

-----------------------------------------------------------------------------
(* The search: the inductive invariant *)

Packets ==
  [addr : {m.addr : m \in Machines}, scope_id : {m.scope_id : m \in Machines},
   says : {m.says : m \in Machines}, round : Nat, behind : Nat]
Sockets == 1 .. Len(s_if_addrs)
Searching == s_phase \in {"opening", "probing"}

SearchTypes ==
  /\ s_phase \in {"start", "opening", "probing", "found", "ready", "failed"}
  /\ s_system \in Systems /\ s_target \in Targets
  /\ DOMAIN s_if_addrs = Sockets /\ Len(s_if_addrs) \in Nat
  /\ s_round \in Nat
  /\ Searching => s_idx \in Sockets /\ s_waiting \in [Sockets -> Seq(Packets)]

\* The sockets are opened one after the other, before any is read, and closed
\* when the search ends.
SocketInv ==
  /\ s_open = CASE s_phase = "opening" -> 1 .. s_idx - 1
                [] s_phase = "probing" -> Sockets
                [] OTHER -> {}
  /\ s_phase = "probing" => s_round < Rounds
  /\ s_phase \in {"start", "opening"} => s_round = 0
  /\ Searching => s_target = << >>

\* How often a socket has been read.
TimesRead(i) ==
  IF s_phase = "opening" THEN 0 ELSE IF i < s_idx THEN s_round + 1 ELSE s_round

\* Each reading brings a packet one place forward.
Forward(s, reads) == \A k \in 1 .. Len(s) : k + reads <= s[k].behind + s[k].round + 2
Announced(s, heard) ==
  \A k \in 1 .. Len(s) :
    s[k].says = "mega65" => [addr |-> s[k].addr, scope_id |-> s[k].scope_id] \in heard

QueueInv ==
  Searching =>
    \A i \in Sockets : Forward(s_waiting[i], TimesRead(i)) /\ Announced(s_waiting[i], s_heard)

SearchInv ==
  /\ SearchTypes /\ SocketInv /\ QueueInv
  /\ Search!FoundIsThere /\ Search!BroadcastsGoThere /\ Search!NothingOverlooked

-----------------------------------------------------------------------------
(* The search: the addresses that are given and found *)

LEMMA SameFinite ==
  ASSUME NEW S
  PROVE  Search!IsFiniteSet(S) <=> IsFiniteSet(S)
  BY DEF Search!IsFiniteSet, IsFiniteSet

LEMMA SameCardinality ==
  ASSUME NEW S
  PROVE  Search!Cardinality(S) = Cardinality(S)
  BY DEF Search!Cardinality, Cardinality

LEMMA SearchSizesLemma ==
  /\ Rounds \in Nat /\ Rounds > 0 /\ MAX_INTERFACES \in Nat
  /\ \A s \in Systems : IsFiniteSet(DOMAIN s)
  /\ \A t \in Targets : t \in Seq(STRING)
  <1>1. Search!DiscoveryAssumption
    BY SearchSizes
  <1>2. Rounds \in Nat \ {0}
    BY <1>1 DEF Search!DiscoveryAssumption
  <1>3. Rounds > 0
    BY <1>2
  <1>4. MAX_INTERFACES \in Nat /\ \A s \in Systems : IsFiniteSet(DOMAIN s)
    <2>1. MAX_INTERFACES \in Nat /\ \A s \in Systems : Search!IsFiniteSet(DOMAIN s)
      BY <1>1 DEF Search!DiscoveryAssumption
    <2> QED
      BY <2>1, SameFinite
  <1>5. \A t \in Targets : t \in Seq(STRING)
    BY <1>1 DEF Search!DiscoveryAssumption
  <1> QED
    BY <1>2, <1>3, <1>4, <1>5

\* The first and the second of a set of numbers are in it.
LEMMA FirstTwo ==
  ASSUME NEW S \in SUBSET Nat, IsFiniteSet(S), Cardinality(S) >= 2
  PROVE  Search!Nth(S, 1) \in S /\ Search!Nth(S, 2) \in S
  <1>1. S # {}
    BY FS_EmptySet
  <1>2. PICK a \in S : \A m \in S : a <= m
    BY <1>1, LeastOf
  <1>3. IsFiniteSet(S \ {a}) /\ Cardinality(S \ {a}) = Cardinality(S) - 1
    BY FS_RemoveElement
  <1>4. S \ {a} # {}
    BY <1>3, FS_EmptySet, FS_CardinalityType
  <1>5. PICK b \in S \ {a} : \A m \in S \ {a} : b <= m
    <2>1. S \ {a} \in SUBSET Nat
      OBVIOUS
    <2> QED
      BY <1>4, <2>1, LeastOf
  <1>6. a \in Nat /\ b \in Nat /\ a < b
    BY <1>2, <1>5
  <1>7. {j \in S : j <= a} = {a}
    <2>1. \A j \in S : j <= a => j = a
      BY <1>2
    <2>2. a <= a
      BY <1>6
    <2> QED
      BY <2>1, <2>2
  <1>8. {j \in S : j <= b} = {a, b}
    <2>1. \A j \in S : j <= b => j = a \/ j = b
      BY <1>5
    <2>2. a <= b /\ b <= b
      BY <1>6
    <2> QED
      BY <2>1, <2>2
  <1>9. Cardinality({a}) = 1 /\ Cardinality({a, b}) = 2
    <2>1. Cardinality({a}) = 1 /\ IsFiniteSet({a})
      BY FS_Singleton
    <2>2. {a, b} = {a} \cup {b} /\ b \notin {a}
      OBVIOUS
    <2>3. Cardinality({a} \cup {b}) = Cardinality({a}) + 1
      BY <2>1, <2>2, FS_AddElement
    <2> QED
      BY <2>1, <2>2, <2>3
  <1>10. \E i \in S : Search!Cardinality({j \in S : j <= i}) = 1
    BY <1>7, <1>9, SameCardinality
  <1>11. \E i \in S : Search!Cardinality({j \in S : j <= i}) = 2
    BY <1>8, <1>9, SameCardinality
  <1>12. Search!Nth(S, 1) \in S
    BY <1>10, Zenon DEF Search!Nth
  <1>13. Search!Nth(S, 2) \in S
    BY <1>11, Zenon DEF Search!Nth
  <1> QED
    BY <1>12, <1>13

\* What is taken from the address that was given is a part of it.
LEMMA PartsLemma ==
  ASSUME NEW t \in Seq(STRING), Len(Search!parse_ipv6_and_interface(t)) >= 2
  PROVE  /\ Search!parse_ipv6_and_interface(t)[1] \in Search!Range(t)
         /\ Search!parse_ipv6_and_interface(t)[2] \in Search!Range(t)
  <1> DEFINE kept == {i \in DOMAIN t : t[i] # ""}
             p == Search!parse_ipv6_and_interface(t)
  <1>1. kept \in SUBSET Nat /\ IsFiniteSet(kept) /\ kept \subseteq DOMAIN t
    <2>1. DOMAIN t = 1 .. Len(t) /\ Len(t) \in Nat
      OBVIOUS
    <2>2. IsFiniteSet(1 .. Len(t))
      BY <2>1, FS_Interval
    <2>3. kept \subseteq 1 .. Len(t)
      BY <2>1
    <2>4. IsFiniteSet(kept)
      BY <2>2, <2>3, FS_Subset
    <2>5. 1 .. Len(t) \subseteq Nat
      BY <2>1
    <2>6. kept \in SUBSET Nat
      BY <2>3, <2>5, Zenon
    <2> QED
      BY <2>4, <2>6
  <1>2. Cardinality(kept) \in Nat
    BY <1>1, FS_CardinalityType
  <1>3. p = [n \in 1 .. Cardinality(kept) |-> t[Search!Nth(kept, n)]]
    <2>1. p = [n \in 1 .. Search!Cardinality(kept) |-> t[Search!Nth(kept, n)]]
      BY Zenon DEF Search!parse_ipv6_and_interface
    <2> QED
      BY <2>1, SameCardinality
  <1> HIDE DEF kept, p
  <1>4. Len(p) = Cardinality(kept)
    BY <1>2, <1>3
  <1>5. Cardinality(kept) >= 2
    BY <1>4 DEF p
  <1>6. Search!Nth(kept, 1) \in kept /\ Search!Nth(kept, 2) \in kept
    BY <1>1, <1>5, FirstTwo
  <1>7. p[1] = t[Search!Nth(kept, 1)] /\ p[2] = t[Search!Nth(kept, 2)]
    <2>1. 1 \in 1 .. Cardinality(kept) /\ 2 \in 1 .. Cardinality(kept)
      BY <1>2, <1>5
    <2> QED
      BY <1>3, <2>1
  <1> QED
    BY <1>1, <1>6, <1>7 DEF Search!Range, p

\* The interfaces of a system can be listed.
LEMMA InterfacesLemma ==
  ASSUME s_system \in Systems
  PROVE  /\ Len(Search!enumerate_interfaces) \in Nat
         /\ DOMAIN Search!enumerate_interfaces = 1 .. Len(Search!enumerate_interfaces)
         /\ Search!enumerate_interfaces # << >> => Len(Search!enumerate_interfaces) > 0
  <1> DEFINE usable == {i \in DOMAIN s_system : s_system[i].family = "inet6" /\ s_system[i].up
                                                  /\ s_system[i].link_local}
             some == IF Cardinality(usable) < MAX_INTERFACES THEN Cardinality(usable) ELSE MAX_INTERFACES
             list == [n \in 1 .. some |-> s_system[Search!Nth(usable, n)].scope_id]
  <1>1. IsFiniteSet(usable)
    <2>1. IsFiniteSet(DOMAIN s_system) /\ usable \subseteq DOMAIN s_system
      BY SearchSizesLemma
    <2> QED
      BY <2>1, FS_Subset
  <1>2. Cardinality(usable) \in Nat
    BY <1>1, FS_CardinalityType
  <1> HIDE DEF usable
  <1>3. some \in Nat
    BY <1>2, SearchSizesLemma
  <1>4. Search!enumerate_interfaces = list
    <2> DEFINE size == Search!Cardinality(usable)
               least == IF size < MAX_INTERFACES THEN size ELSE MAX_INTERFACES
    <2>1. Search!enumerate_interfaces = [n \in 1 .. least |-> s_system[Search!Nth(usable, n)].scope_id]
      BY Zenon DEF Search!enumerate_interfaces, usable
    <2>2. size = Cardinality(usable)
      BY SameCardinality
    <2> QED
      BY <2>1, <2>2
  <1> HIDE DEF some
  <1>5. Len(list) = some /\ DOMAIN list = 1 .. some
    BY <1>3
  <1>6. some = 0 => list = << >>
    OBVIOUS
  <1> HIDE DEF list
  <1> QED
    BY <1>3, <1>4, <1>5, <1>6

-----------------------------------------------------------------------------
(* The search: what it does *)

LEMMA SearchStarts ==
  ASSUME Search!Init
  PROVE  SearchInv
  <1>1. /\ s_system \in Systems /\ s_target \in Targets /\ s_if_addrs = << >> /\ s_open = {}
        /\ s_idx = 1 /\ s_round = 0 /\ s_phase = "start"
    BY DEF Search!Init
  <1>2. DOMAIN s_if_addrs = Sockets /\ Len(s_if_addrs) \in Nat
    BY <1>1 DEF Sockets
  <1>3. ~ Searching
    BY <1>1 DEF Searching
  <1>4. SearchTypes
    BY <1>1, <1>2, <1>3 DEF SearchTypes
  <1>5. SocketInv
    BY <1>1, <1>3 DEF SocketInv
  <1>6. QueueInv
    BY <1>3 DEF QueueInv
  <1> QED
    BY <1>1, <1>4, <1>5, <1>6
       DEF SearchInv, Search!FoundIsThere, Search!BroadcastsGoThere, Search!NothingOverlooked

\* The address that was given is taken apart.
LEMMA GivenStep ==
  ASSUME SearchInv, Search!ethl_configure_ip_address_and_interface
  PROVE  SearchInv'
  <1>1. SearchTypes /\ SocketInv
    BY DEF SearchInv
  <1>2. /\ s_phase = "start" /\ s_target # << >>
        /\ UNCHANGED <<s_system, s_target, s_if_addrs, s_open, s_waiting, s_idx, s_round, s_broadcast,
                       s_heard, s_sent>>
    BY DEF Search!ethl_configure_ip_address_and_interface
  <1> DEFINE p == Search!parse_ipv6_and_interface(s_target)
             good == Len(p) >= 2 /\ p[1] \in Known.addresses /\ p[2] \in DOMAIN Known.interfaces
  <1>3. /\ good => s_phase' = "found" /\ s_servaddr' = [addr |-> p[1], scope_id |-> Known.interfaces[p[2]]]
        /\ ~ good => s_phase' = "failed"
    BY DEF Search!ethl_configure_ip_address_and_interface
  <1>4. s_phase' \in {"found", "failed"}
    BY <1>3
  <1>5. s_round = 0 /\ s_open = {}
    BY <1>1, <1>2 DEF SocketInv
  <1>6. ~ Searching /\ ~ Searching'
    BY <1>2, <1>4 DEF Searching
  <1>7. SearchTypes'
    BY <1>1, <1>2, <1>4, <1>6 DEF SearchTypes, Sockets
  <1>8. SocketInv' /\ QueueInv'
    BY <1>1, <1>2, <1>4, <1>5, <1>6 DEF SocketInv, QueueInv
  <1>9. Search!FoundIsThere'
    <2>1. SUFFICES ASSUME s_phase' \in {"found", "ready"}
          PROVE  /\ s_servaddr'.addr \in Search!Range(s_target)
                 /\ \E name \in DOMAIN Known.interfaces :
                      name \in Search!Range(s_target) /\ s_servaddr'.scope_id = Known.interfaces[name]
      BY <1>2 DEF Search!FoundIsThere
    <2>2. good
      BY <1>3, <2>1
    <2>3. s_target \in Seq(STRING)
      BY <1>1, SearchSizesLemma DEF SearchTypes
    <2>4. p[1] \in Search!Range(s_target) /\ p[2] \in Search!Range(s_target)
      BY <2>2, <2>3, PartsLemma
    <2>5. s_servaddr'.addr = p[1] /\ s_servaddr'.scope_id = Known.interfaces[p[2]]
      BY <1>3, <2>2
    <2> QED
      BY <2>2, <2>4, <2>5
  <1>10. Search!BroadcastsGoThere' /\ Search!NothingOverlooked'
    <2>1. ~ (s_round' >= Rounds)
      BY <1>2, <1>5, SearchSizesLemma
    <2> QED
      BY <1>4, <2>1 DEF Search!BroadcastsGoThere, Search!NothingOverlooked
  <1> QED
    BY <1>7, <1>8, <1>9, <1>10 DEF SearchInv

\* The interfaces are listed.
LEMMA ProbeStep ==
  ASSUME SearchInv, Search!Probe
  PROVE  SearchInv'
  <1>1. SearchTypes /\ SocketInv
    BY DEF SearchInv
  <1>2. /\ s_phase = "start" /\ s_target = << >> /\ s_if_addrs' = Search!enumerate_interfaces
        /\ s_idx' = 1 /\ s_waiting' = [i \in DOMAIN s_if_addrs' |-> << >>]
        /\ s_phase' = IF s_if_addrs' = << >> THEN "failed" ELSE "opening"
        /\ UNCHANGED <<s_system, s_target, s_open, s_round, s_servaddr, s_broadcast, s_heard, s_sent>>
    BY DEF Search!Probe
  <1>3. s_round = 0 /\ s_open = {} /\ s_system \in Systems
    BY <1>1, <1>2 DEF SocketInv, SearchTypes
  <1>4. /\ Len(s_if_addrs') \in Nat /\ DOMAIN s_if_addrs' = Sockets'
        /\ s_if_addrs' # << >> => Len(s_if_addrs') > 0
    BY <1>2, <1>3, InterfacesLemma DEF Sockets
  <1>5. s_phase' \in {"failed", "opening"} /\ (s_phase' = "opening" => 1 \in Sockets')
    BY <1>2, <1>4 DEF Sockets
  <1>6. SearchTypes'
    <2>1. s_waiting' \in [Sockets' -> Seq(Packets')]
      BY <1>2, <1>4
    <2> QED
      BY <1>1, <1>2, <1>4, <1>5, <2>1 DEF SearchTypes, Searching
  <1>7. SocketInv'
    <2>1. 1 .. 1 - 1 = {}
      OBVIOUS
    <2> QED
      BY <1>2, <1>3, <1>5, <2>1 DEF SocketInv, Searching
  <1>8. QueueInv'
    <2>1. SUFFICES ASSUME NEW i \in Sockets'
          PROVE  Forward(s_waiting'[i], TimesRead(i)') /\ Announced(s_waiting'[i], s_heard')
      BY DEF QueueInv
    <2>2. s_waiting'[i] = << >>
      BY <1>2, <1>4, <2>1
    <2> QED
      BY <2>2 DEF Forward, Announced
  <1>9. Search!FoundIsThere' /\ Search!BroadcastsGoThere' /\ Search!NothingOverlooked'
    <2>1. ~ (s_round' >= Rounds)
      BY <1>2, <1>3, SearchSizesLemma
    <2> QED
      BY <1>5, <2>1 DEF Search!FoundIsThere, Search!BroadcastsGoThere, Search!NothingOverlooked
  <1> QED
    BY <1>6, <1>7, <1>8, <1>9 DEF SearchInv

\* Sockets that were opened from the first are all closed.
LEMMA AllClose ==
  ASSUME NEW m \in Int, s_open = 1 .. m, Search!CloseSockets
  PROVE  s_open' = {}
  BY DEF Search!CloseSockets

\* A search that is over has no sockets.
LEMMA SearchIsOver ==
  ASSUME SearchTypes, UNCHANGED <<s_system, s_target, s_if_addrs>>, s_round' \in Nat,
         s_phase' \in {"found", "ready", "failed"}, s_open' = {}
  PROVE  SearchTypes' /\ SocketInv' /\ QueueInv'
  <1>1. ~ Searching'
    BY DEF Searching
  <1>2. SearchTypes'
    BY <1>1 DEF SearchTypes, Sockets
  <1>3. SocketInv'
    BY <1>1 DEF SocketInv
  <1>4. QueueInv'
    BY <1>1 DEF QueueInv
  <1> QED
    BY <1>2, <1>3, <1>4

\* While it goes on the properties are about nothing.
LEMMA SearchGoesOn ==
  ASSUME Searching'
  PROVE  Search!FoundIsThere' /\ Search!BroadcastsGoThere' /\ Search!NothingOverlooked'
  BY DEF Searching, Search!FoundIsThere, Search!BroadcastsGoThere, Search!NothingOverlooked

\* The next socket is opened.
LEMMA OpenStep ==
  ASSUME SearchInv, Search!OpenSocket
  PROVE  SearchInv'
  <1>1. SearchTypes /\ SocketInv /\ QueueInv
    BY DEF SearchInv
  <1>2. /\ s_phase = "opening" /\ s_open' = s_open \cup {s_idx}
        /\ s_idx' = IF s_idx = Len(s_if_addrs) THEN 1 ELSE s_idx + 1
        /\ s_phase' = IF s_idx = Len(s_if_addrs) THEN "probing" ELSE s_phase
        /\ UNCHANGED <<s_system, s_target, s_if_addrs, s_waiting, s_round, s_servaddr, s_broadcast,
                       s_heard, s_sent>>
    BY DEF Search!OpenSocket
  <1>3. Searching /\ Searching'
    BY <1>2 DEF Searching
  <1>4. s_idx \in Sockets /\ s_waiting \in [Sockets -> Seq(Packets)] /\ Len(s_if_addrs) \in Nat
    BY <1>1, <1>3 DEF SearchTypes
  <1>5. s_open = 1 .. s_idx - 1 /\ s_round = 0 /\ s_target = << >>
    BY <1>1, <1>2, <1>3 DEF SocketInv
  <1>6. s_idx' \in Sockets /\ Sockets' = Sockets
    BY <1>2, <1>4 DEF Sockets
  <1>7. SearchTypes'
    BY <1>1, <1>2, <1>3, <1>4, <1>6 DEF SearchTypes, Packets
  <1>8. SocketInv'
    <2>1. s_open' = 1 .. s_idx
      BY <1>2, <1>4, <1>5 DEF Sockets
    <2>2. CASE s_idx = Len(s_if_addrs)
      <3>1. s_phase' = "probing" /\ s_open' = Sockets' /\ s_round' < Rounds
        BY <1>2, <1>5, <2>1, <2>2, SearchSizesLemma DEF Sockets
      <3> QED
        BY <1>2, <1>5, <3>1 DEF SocketInv
    <2>3. CASE s_idx # Len(s_if_addrs)
      <3>1. s_phase' = "opening" /\ s_open' = 1 .. s_idx' - 1
        BY <1>2, <1>4, <2>1, <2>3 DEF Sockets
      <3> QED
        BY <1>2, <1>5, <3>1 DEF SocketInv
    <2> QED
      BY <2>2, <2>3
  <1>9. QueueInv'
    <2>1. SUFFICES ASSUME NEW i \in Sockets'
          PROVE  Forward(s_waiting'[i], TimesRead(i)') /\ Announced(s_waiting'[i], s_heard')
      BY DEF QueueInv
    <2>2. TimesRead(i) = 0 /\ TimesRead(i)' = 0
      BY <1>2, <1>5, <1>6 DEF TimesRead, Sockets
    <2>3. Forward(s_waiting[i], TimesRead(i)) /\ Announced(s_waiting[i], s_heard)
      BY <1>1, <1>3, <1>6, <2>1 DEF QueueInv
    <2> QED
      BY <1>2, <2>2, <2>3
  <1> QED
    BY <1>3, <1>7, <1>8, <1>9, SearchGoesOn DEF SearchInv

\* A call for a socket fails.
LEMMA OpenFailsStep ==
  ASSUME SearchInv, Search!OpenFails
  PROVE  SearchInv'
  <1>1. SearchTypes /\ SocketInv
    BY DEF SearchInv
  <1>2. /\ s_phase = "opening" /\ Search!CloseSockets /\ s_phase' = "failed"
        /\ UNCHANGED <<s_system, s_target, s_if_addrs, s_round>>
    BY DEF Search!OpenFails
  <1>3. s_open = 1 .. s_idx - 1 /\ s_round = 0 /\ s_idx - 1 \in Int
    BY <1>1, <1>2 DEF SocketInv, SearchTypes, Searching, Sockets
  <1>4. s_open' = {}
    BY <1>2, <1>3, AllClose
  <1>5. ~ (s_round' >= Rounds) /\ s_round' \in Nat
    BY <1>2, <1>3, SearchSizesLemma
  <1>6. SearchTypes' /\ SocketInv' /\ QueueInv'
    BY <1>1, <1>2, <1>4, <1>5, SearchIsOver
  <1> QED
    BY <1>2, <1>5, <1>6
       DEF SearchInv, Search!FoundIsThere, Search!BroadcastsGoThere, Search!NothingOverlooked

\* Something sends.
LEMMA SendsStep ==
  ASSUME SearchInv, Search!Sends
  PROVE  SearchInv'
  <1>1. SearchTypes /\ SocketInv /\ QueueInv
    BY DEF SearchInv
  <1>2. Searching /\ Searching'
    BY DEF Search!Sends, Searching
  <1>3. UNCHANGED <<s_system, s_target, s_if_addrs, s_open, s_idx, s_round, s_servaddr, s_broadcast, s_phase>>
    BY DEF Search!Sends
  <1>4. PICK m \in Machines, to \in SUBSET s_open :
          /\ s_waiting' = [i \in DOMAIN s_waiting |->
                             IF i \in to THEN Append(s_waiting[i], Search!Packet(m, i)) ELSE s_waiting[i]]
          /\ s_heard' = IF m.says = "mega65" THEN s_heard \cup {[addr |-> m.addr, scope_id |-> m.scope_id]}
                        ELSE s_heard
    BY DEF Search!Sends
  <1>5. s_idx \in Sockets /\ s_waiting \in [Sockets -> Seq(Packets)] /\ s_round \in Nat
    BY <1>1, <1>2 DEF SearchTypes
  <1>6. \A i \in Sockets : s_waiting[i] \in Seq(Packets) /\ Search!Packet(m, i) \in Packets
    BY <1>5 DEF Search!Packet, Packets
  <1>7. s_waiting' \in [Sockets -> Seq(Packets)]
    BY <1>4, <1>5, <1>6
  <1>8. SearchTypes'
    BY <1>1, <1>2, <1>3, <1>7 DEF SearchTypes, Sockets, Packets
  <1>9. SocketInv'
    BY <1>1, <1>2, <1>3 DEF SocketInv, Sockets
  <1>10. QueueInv'
    <2>1. SUFFICES ASSUME NEW i \in Sockets
          PROVE  Forward(s_waiting'[i], TimesRead(i)) /\ Announced(s_waiting'[i], s_heard')
      BY <1>3 DEF QueueInv, Sockets, TimesRead
    <2> DEFINE q == s_waiting[i]
               p == Search!Packet(m, i)
    <2>2. q \in Seq(Packets) /\ p \in Packets /\ Len(q) \in Nat
      BY <1>6
    <2>3. Forward(q, TimesRead(i)) /\ Announced(q, s_heard)
      BY <1>1, <1>2 DEF QueueInv
    <2>4. s_heard \subseteq s_heard'
      BY <1>4
    <2>5. Announced(q, s_heard')
      BY <2>3, <2>4 DEF Announced
    <2>6. s_waiting'[i] = IF i \in to THEN Append(q, p) ELSE q
      BY <1>4, <1>5
    <2>7. CASE i \notin to
      BY <2>3, <2>5, <2>6, <2>7
    <2>8. CASE i \in to
      <3>1. /\ p.behind = Len(q) /\ p.round = s_round
            /\ p.says = "mega65" => [addr |-> p.addr, scope_id |-> p.scope_id] \in s_heard'
        BY <1>4 DEF Search!Packet
      <3> HIDE DEF p, q
      <3>2. TimesRead(i) <= s_round + 1 /\ TimesRead(i) \in Nat
        BY <1>5 DEF TimesRead, Sockets
      <3>3. Len(q) + 1 + TimesRead(i) <= p.behind + p.round + 2
        BY <1>5, <2>2, <3>1, <3>2
      <3>4. /\ Len(Append(q, p)) = Len(q) + 1 /\ Append(q, p)[Len(q) + 1] = p
            /\ \A k \in 1 .. Len(q) : Append(q, p)[k] = q[k]
            /\ \A k \in 1 .. Len(q) + 1 : k \in 1 .. Len(q) \/ k = Len(q) + 1
        BY <2>2, OneMore
      <3>5. Forward(Append(q, p), TimesRead(i))
        BY <2>3, <3>3, <3>4 DEF Forward
      <3>6. Announced(Append(q, p), s_heard')
        BY <2>5, <3>1, <3>4 DEF Announced
      <3> QED
        BY <2>6, <2>8, <3>5, <3>6
    <2> QED
      BY <2>7, <2>8
  <1> QED
    BY <1>2, <1>8, <1>9, <1>10, SearchGoesOn DEF SearchInv

\* A packet is taken from the queue of a socket, if there is one.
LEMMA QueueIsRead ==
  ASSUME SearchInv, s_phase = "probing",
         s_waiting' = IF s_waiting[s_idx] # << >> THEN [s_waiting EXCEPT ![s_idx] = Tail(@)]
                      ELSE s_waiting
  PROVE  /\ s_waiting' \in [Sockets -> Seq(Packets)]
         /\ \A i \in Sockets :
              /\ Announced(s_waiting'[i], s_heard)
              /\ Forward(s_waiting'[i], IF i <= s_idx THEN s_round + 1 ELSE s_round)
         /\ s_waiting[s_idx] # << >> =>
              LET m == Head(s_waiting[s_idx])
              IN m.says = "mega65" => [addr |-> m.addr, scope_id |-> m.scope_id] \in s_heard
  <1>1. SearchTypes /\ QueueInv /\ Searching
    BY DEF SearchInv, Searching
  <1>2. s_idx \in Sockets /\ s_waiting \in [Sockets -> Seq(Packets)] /\ s_round \in Nat
    BY <1>1 DEF SearchTypes
  <1>3. \A i \in Sockets : Forward(s_waiting[i], TimesRead(i)) /\ Announced(s_waiting[i], s_heard)
    BY <1>1 DEF QueueInv
  <1> DEFINE q == s_waiting[s_idx]
  <1>4. q \in Seq(Packets) /\ Forward(q, s_round) /\ Announced(q, s_heard)
    <2>1. TimesRead(s_idx) = s_round
      BY <1>2 DEF TimesRead, Sockets
    <2> QED
      BY <1>2, <1>3, <2>1
  <1>5. \A i \in Sockets : i # s_idx => s_waiting'[i] = s_waiting[i]
    BY <1>2
  <1>6. s_waiting'[s_idx] = IF q = << >> THEN q ELSE Tail(q)
    BY <1>2
  <1>7. s_waiting' \in [Sockets -> Seq(Packets)]
    <2>1. q # << >> => Tail(q) \in Seq(Packets)
      BY <1>4, RestLemma
    <2> QED
      BY <1>2, <2>1
  <1>8. ASSUME NEW i \in Sockets, i # s_idx
        PROVE  /\ Announced(s_waiting'[i], s_heard)
               /\ Forward(s_waiting'[i], IF i <= s_idx THEN s_round + 1 ELSE s_round)
    <2>1. TimesRead(i) = IF i <= s_idx THEN s_round + 1 ELSE s_round
      <3>1. i \in Nat /\ s_idx \in Nat /\ s_phase # "opening"
        BY <1>2 DEF Sockets
      <3>2. i < s_idx <=> i <= s_idx
        BY <1>8, <3>1
      <3> QED
        BY <3>1, <3>2 DEF TimesRead
    <2> QED
      BY <1>3, <1>5, <1>8, <2>1
  <1> HIDE DEF q
  <1>9. Announced(s_waiting'[s_idx], s_heard) /\ Forward(s_waiting'[s_idx], s_round + 1)
    <2>1. CASE q = << >>
      <3>1. s_waiting'[s_idx] = << >>
        BY <1>6, <2>1
      <3> QED
        BY <3>1 DEF Announced, Forward
    <2>2. CASE q # << >>
      <3>1. s_waiting'[s_idx] = Tail(q)
        BY <1>6, <2>2
      <3>2. \A k \in 1 .. Len(Tail(q)) : Tail(q)[k] = q[k + 1] /\ k + 1 \in 1 .. Len(q)
        BY <1>4, <2>2, RestLemma
      <3>3. Announced(Tail(q), s_heard)
        BY <1>4, <3>2 DEF Announced
      <3>4. Forward(Tail(q), s_round + 1)
        <4>1. SUFFICES ASSUME NEW k \in 1 .. Len(Tail(q))
              PROVE  k + (s_round + 1) <= Tail(q)[k].behind + Tail(q)[k].round + 2
          BY DEF Forward
        <4>2. Tail(q)[k] = q[k + 1] /\ k + 1 \in 1 .. Len(q)
          BY <3>2
        <4>3. (k + 1) + s_round <= q[k + 1].behind + q[k + 1].round + 2
          BY <1>4, <4>2 DEF Forward
        <4>4. (k + 1) + s_round = k + (s_round + 1)
          BY <1>2
        <4> QED
          BY <4>2, <4>3, <4>4
      <3> QED
        BY <3>1, <3>3, <3>4
    <2> QED
      BY <2>1, <2>2
  <1>10. q # << >> =>
           (Head(q).says = "mega65" => [addr |-> Head(q).addr, scope_id |-> Head(q).scope_id] \in s_heard)
    <2>1. q # << >> => Head(q) = q[1] /\ 1 \in 1 .. Len(q)
      BY <1>4, RestLemma
    <2> QED
      BY <1>4, <2>1 DEF Announced
  <1>11. s_idx <= s_idx
    BY <1>2 DEF Sockets
  <1>12. ASSUME NEW i \in Sockets
         PROVE  /\ Announced(s_waiting'[i], s_heard)
                /\ Forward(s_waiting'[i], IF i <= s_idx THEN s_round + 1 ELSE s_round)
    <2>1. CASE i = s_idx
      BY <1>9, <1>11, <2>1
    <2>2. CASE i # s_idx
      BY <1>8, <2>2
    <2> QED
      BY <2>1, <2>2
  <1> QED
    BY <1>7, <1>10, <1>12 DEF q

\* A socket is read.
LEMMA SocketReadStep ==
  ASSUME SearchInv, Search!Receive
  PROVE  SearchInv'
  <1> DEFINE m == Head(s_waiting[s_idx])
             any == s_waiting[s_idx] # << >>
             last == s_idx = Len(s_if_addrs)
             over == last /\ s_round + 1 >= Rounds
             found == any /\ m.says = "mega65"
  <1>1. SearchTypes /\ SocketInv
    BY DEF SearchInv
  <1>2. /\ s_phase = "probing"
        /\ s_waiting' = IF any THEN [s_waiting EXCEPT ![s_idx] = Tail(@)] ELSE s_waiting
        /\ s_idx' = IF last THEN 1 ELSE s_idx + 1
        /\ s_round' = IF last THEN s_round + 1 ELSE s_round
        /\ UNCHANGED <<s_system, s_target, s_if_addrs, s_broadcast, s_heard>>
    BY DEF Search!Receive
  <1>3. /\ found => /\ s_servaddr' = [addr |-> m.addr, scope_id |-> m.scope_id]
                    /\ s_phase' = "found" /\ Search!CloseSockets
        /\ ~ found /\ over => s_phase' = "failed" /\ Search!CloseSockets
        /\ ~ found /\ ~ over => UNCHANGED <<s_servaddr, s_phase, s_open>>
    BY DEF Search!Receive
  <1>4. /\ s_waiting' \in [Sockets -> Seq(Packets)]
        /\ \A i \in Sockets :
             /\ Announced(s_waiting'[i], s_heard)
             /\ Forward(s_waiting'[i], IF i <= s_idx THEN s_round + 1 ELSE s_round)
        /\ found => [addr |-> m.addr, scope_id |-> m.scope_id] \in s_heard
    BY <1>2, QueueIsRead
  <1> HIDE DEF m, any, found
  <1>5. /\ Searching /\ s_idx \in Sockets /\ s_round \in Nat /\ Len(s_if_addrs) \in Nat
        /\ s_waiting \in [Sockets -> Seq(Packets)]
    BY <1>1, <1>2 DEF SearchTypes, Searching
  <1>6. s_open = Sockets /\ s_round < Rounds /\ s_target = << >>
    BY <1>1, <1>2, <1>5 DEF SocketInv
  <1>7. s_round' \in Nat /\ Sockets' = Sockets /\ Packets' = Packets
    BY <1>2, <1>5 DEF Sockets, Packets
  <1>8. Search!CloseSockets => s_open' = {}
    BY <1>5, <1>6, AllClose DEF Sockets
  <1>9. CASE found
    <2>1. SearchTypes' /\ SocketInv' /\ QueueInv'
      BY <1>1, <1>2, <1>3, <1>7, <1>8, <1>9, SearchIsOver
    <2>2. Search!FoundIsThere'
      BY <1>2, <1>3, <1>4, <1>6, <1>9 DEF Search!FoundIsThere
    <2> QED
      BY <1>3, <1>9, <2>1, <2>2 DEF SearchInv, Search!BroadcastsGoThere, Search!NothingOverlooked
  <1>10. CASE ~ found /\ over
    <2>1. SearchTypes' /\ SocketInv' /\ QueueInv'
      BY <1>1, <1>2, <1>3, <1>7, <1>8, <1>10, SearchIsOver
    <2>2. Search!NothingOverlooked'
      <3>1. DOMAIN s_waiting' = Sockets
        BY <1>4
      <3>2. SUFFICES ASSUME NEW i \in Sockets, NEW k \in DOMAIN s_waiting'[i]
            PROVE  s_waiting'[i][k].round + s_waiting'[i][k].behind + 1 >= Rounds
        BY <3>1 DEF Search!NothingOverlooked
      <3>3. i <= s_idx
        BY <1>5, <1>10 DEF Sockets
      <3>4. Forward(s_waiting'[i], s_round + 1)
        BY <1>4, <3>3
      <3>5. s_waiting'[i] \in Seq(Packets)
        BY <1>4
      <3> DEFINE q == s_waiting'[i]
      <3>6. k \in 1 .. Len(q) /\ k \in Nat /\ k >= 1 /\ q[k] \in Packets
        BY <3>2, <3>5
      <3>7. k + (s_round + 1) <= q[k].behind + q[k].round + 2
        BY <3>4, <3>6 DEF Forward
      <3>8. q[k].behind \in Nat /\ q[k].round \in Nat
        BY <3>6 DEF Packets
      <3> HIDE DEF q
      <3>9. q[k].round + q[k].behind + 1 >= Rounds
        BY <1>5, <1>10, <3>6, <3>7, <3>8, SearchSizesLemma
      <3> QED
        BY <3>9 DEF q
    <2> QED
      BY <1>3, <1>10, <2>1, <2>2 DEF SearchInv, Search!FoundIsThere, Search!BroadcastsGoThere
  <1>11. CASE ~ found /\ ~ over
    <2>1. s_phase' = "probing" /\ Searching' /\ UNCHANGED <<s_servaddr, s_open>>
      BY <1>2, <1>3, <1>11 DEF Searching
    <2>2. s_idx' \in Sockets
      BY <1>2, <1>5 DEF Sockets
    <2>3. SearchTypes'
      BY <1>1, <1>2, <1>4, <1>7, <2>1, <2>2 DEF SearchTypes, Sockets
    <2>4. SocketInv'
      <3>1. s_round' < Rounds
        BY <1>2, <1>5, <1>6, <1>11, SearchSizesLemma
      <3> QED
        BY <1>2, <1>6, <1>7, <2>1, <3>1 DEF SocketInv
    <2>5. QueueInv'
      <3>1. SUFFICES ASSUME NEW i \in Sockets
            PROVE  Forward(s_waiting'[i], TimesRead(i)') /\ Announced(s_waiting'[i], s_heard)
        BY <1>2, <1>7 DEF QueueInv
      <3>2. TimesRead(i)' = IF i <= s_idx THEN s_round + 1 ELSE s_round
        <4>1. TimesRead(i)' = IF i < s_idx' THEN s_round' + 1 ELSE s_round'
          BY <2>1 DEF TimesRead
        <4>2. i \in 1 .. Len(s_if_addrs) /\ s_idx \in 1 .. Len(s_if_addrs)
          BY <1>5 DEF Sockets
        <4>3. CASE last
          BY <1>2, <1>5, <4>1, <4>2, <4>3
        <4>4. CASE ~ last
          BY <1>2, <1>5, <4>1, <4>2, <4>4
        <4> QED
          BY <4>3, <4>4
      <3> QED
        BY <1>4, <3>2
    <2> QED
      BY <2>1, <2>3, <2>4, <2>5, SearchGoesOn DEF SearchInv
  <1> QED
    BY <1>9, <1>10, <1>11

\* A call that reads a socket fails.
LEMMA ReadFailsStep ==
  ASSUME SearchInv, Search!ReceiveFails
  PROVE  SearchInv'
  <1>1. SearchTypes /\ SocketInv
    BY DEF SearchInv
  <1>2. /\ s_phase = "probing" /\ s_phase' = "failed" /\ Search!CloseSockets
        /\ UNCHANGED <<s_system, s_target, s_if_addrs, s_round>>
    BY DEF Search!ReceiveFails
  <1>3. s_open = Sockets /\ s_round < Rounds /\ s_round \in Nat /\ Len(s_if_addrs) \in Nat
    BY <1>1, <1>2 DEF SocketInv, SearchTypes
  <1>4. s_open' = {}
    BY <1>2, <1>3, AllClose DEF Sockets
  <1>5. SearchTypes' /\ SocketInv' /\ QueueInv'
    BY <1>1, <1>2, <1>3, <1>4, SearchIsOver
  <1>6. ~ (s_round' >= Rounds)
    BY <1>2, <1>3, SearchSizesLemma
  <1> QED
    BY <1>2, <1>5, <1>6
       DEF SearchInv, Search!FoundIsThere, Search!BroadcastsGoThere, Search!NothingOverlooked

\* The network of the MEGA65 is taken over.
LEMMA TakeOverStep ==
  ASSUME SearchInv, Search!etherload_init
  PROVE  SearchInv'
  <1>1. SearchTypes /\ SocketInv /\ Search!FoundIsThere
    BY DEF SearchInv
  <1>2. /\ s_phase = "found" /\ s_phase' = "ready" /\ s_broadcast' = s_servaddr.scope_id
        /\ UNCHANGED <<s_system, s_target, s_if_addrs, s_open, s_round, s_servaddr, s_heard>>
    BY DEF Search!etherload_init
  <1>3. s_round \in Nat /\ s_open = {}
    BY <1>1, <1>2 DEF SearchTypes, SocketInv
  <1>4. SearchTypes' /\ SocketInv' /\ QueueInv'
    BY <1>1, <1>2, <1>3, SearchIsOver
  <1>5. Search!FoundIsThere'
    BY <1>1, <1>2 DEF Search!FoundIsThere
  <1> QED
    BY <1>2, <1>4, <1>5 DEF SearchInv, Search!BroadcastsGoThere, Search!NothingOverlooked

\* Each step of the search keeps the invariant.
LEMMA SearchStep ==
  ASSUME SearchInv, Search!Next
  PROVE  SearchInv'
  BY GivenStep, ProbeStep, OpenStep, OpenFailsStep, SendsStep, SocketReadStep, ReadFailsStep, TakeOverStep
     DEF Search!Next

LEMMA SearchStays ==
  ASSUME SearchInv, UNCHANGED s_vars
  PROVE  SearchInv'
  BY DEF s_vars, SearchInv, SearchTypes, Packets, Sockets, Searching, SocketInv, QueueInv, Forward,
         Announced, TimesRead, Search!FoundIsThere, Search!BroadcastsGoThere, Search!NothingOverlooked

\* The invariant says what is asked of the search.
LEMMA SearchIsSafe ==
  ASSUME SearchInv
  PROVE  /\ Search!FoundIsThere /\ Search!BroadcastsGoThere /\ Search!SocketsAreClosed
         /\ Search!NothingOverlooked
  BY DEF SearchInv, SocketInv, Search!SocketsAreClosed

-----------------------------------------------------------------------------
(* What holds of every run *)

\* The component a behaviour is about keeps its invariant; the others are off.
IInv ==
  /\ subject = "tftp" => TftpInv
  /\ subject = "etherload" => LoadInv
  /\ subject = "discovery" => SearchInv

LEMMA Invariant == Spec => []IInv
  <1>1. ASSUME Init
        PROVE  IInv
    <2>1. CASE subject = "tftp" /\ Tftp!Init
      BY <2>1, TftpStarts DEF IInv
    <2>2. CASE subject = "etherload" /\ Load!Init
      BY <2>2, LoadStarts DEF IInv
    <2>3. CASE subject = "discovery" /\ Search!Init
      BY <2>3, SearchStarts DEF IInv
    <2>4. CASE subject \in {"filehost", "remotesd_eth"}
      BY <2>4 DEF IInv
    <2> QED
      BY <1>1, <2>1, <2>2, <2>3, <2>4 DEF Init
  <1>2. ASSUME IInv, [Next]_vars
        PROVE  IInv'
    <2>1. CASE subject = "tftp" /\ Tftp!Next /\ OnlyTftp
      BY <1>2, <2>1, TftpStep DEF IInv, OnlyTftp
    <2>2. CASE subject = "etherload" /\ Load!Next /\ OnlyLoad
      BY <1>2, <2>2, LoadStep DEF IInv, OnlyLoad
    <2>3. CASE subject = "discovery" /\ Search!Next /\ OnlySearch
      BY <1>2, <2>3, SearchStep DEF IInv, OnlySearch
    <2>4. CASE subject \in {"filehost", "remotesd_eth"} /\ subject' = subject
      BY <2>4 DEF IInv
    <2>5. CASE UNCHANGED vars
      <3>1. UNCHANGED subject /\ UNCHANGED t_vars /\ UNCHANGED d_vars /\ UNCHANGED s_vars
        BY <2>5 DEF vars
      <3>2. subject = "tftp" => TftpInv'
        BY <1>2, <3>1, TftpStays DEF IInv
      <3>3. subject = "etherload" => LoadInv'
        BY <1>2, <3>1, LoadStays DEF IInv
      <3>4. subject = "discovery" => SearchInv'
        BY <1>2, <3>1, SearchStays DEF IInv
      <3> QED
        BY <3>1, <3>2, <3>3, <3>4 DEF IInv
    <2> QED
      BY <1>2, <2>1, <2>2, <2>3, <2>4, <2>5 DEF Next, OnlyHost, OnlyNet
  <1> QED
    BY <1>1, <1>2, PTL DEF Spec

\* A file that was read to its end is the file asked for, block by block: for all
\* files, however long, so also where the block numbers wrap, for any number of
\* packets lost and repeated, and with the packets of earlier transfers still on
\* the network (tftpserver.a65: processpacket, tftp_ack_seen, tftp_read_req).
THEOREM TransferIsTheFileTheorem == Spec => []TransferIsTheFile
  <1>1. IInv => TransferIsTheFile
    BY DEF IInv, TftpInv, TransferIsTheFile
  <1> QED
    BY <1>1, Invariant, PTL

\* Whatever the addresses of the blocks, the window and what the network loses,
\* the MEGA65 is started with every block in memory unless the frame that lifts
\* the write protection was lost, and a run that ends well has started it
\* (etherload_common.c: send_mem, check_if_ack, wait_all_acks,
\* ethl_single_command; ethlet_dma_load.a65).  Whatever the interfaces, the
\* address given and what others send, the MEGA65 that is found is one that
\* announced itself, no socket stays open and no announcement that could be read
\* is passed over (probe_mega65_ipv6_address, enumerate_interfaces).
THEOREM StartsCompleteTheorem == Spec => []StartsComplete
  <1>1. IInv => StartsComplete
    BY LoadIsSafe, SearchIsSafe DEF IInv, StartsComplete
  <1> QED
    BY <1>1, Invariant, PTL

=============================================================================
