--------------------------- MODULE SerialLineProofs ---------------------------
(****************************************************************************)
(* What is proved of the components on the serial line: the calls of        *)
(* m65common.c against the monitor, for every program, address, slab and    *)
(* chunk, and the debugger, whose own theorems are in DebuggerProofs.       *)
(****************************************************************************)
EXTENDS MCSerialLine, WellFoundedInduction, TLAPS

-----------------------------------------------------------------------------
(* The monitor link: types *)

Commands ==
  [cmd : {"t"}, n : {0, 1}] \cup [cmd : {"l"}, a : Nat, n : Nat, hot : BOOLEAN]
    \cup [cmd : {"m"}, a : Reads] \cup [cmd : {"#"}, n : Nat]

Values == {Link!Pushed} \cup 0 .. MaxVersion

Answers ==
  [is : {"echo"}, of : Commands] \cup {Link!Prompt}
    \cup [is : {"dump"}, a : Reads, v : Values]

Pushing == [at : {"chunk"}, a : Nat, n : Nat, saved : BOOLEAN]
Calls ==
  {Link!Idle, [at |-> "sync"], [at |-> "token"]} \cup Pushing
    \cup [at : {"purge"}, n : {0, 1}, then : {Link!Idle} \cup Pushing]
    \cup [at : {"echo", "prompt"}, cmd : Commands, saved : BOOLEAN, a : Nat, n : Nat]
    \cup [at : {"load", "loading"}, a : Nat, n : Nat]
    \cup [at : {"fetch"}, a : Reads] \cup [at : {"fetched"}, a : Reads, v : Values]

LinkTypes ==
  /\ l_call \in Calls /\ l_calls \in 0 .. MaxCalls /\ l_repeats \in 0 .. MaxRepeats
  /\ l_cpu_stopped \in BOOLEAN /\ l_faked \in BOOLEAN /\ l_running \in BOOLEAN
  /\ l_doubled \in BOOLEAN /\ l_version \in 0 .. MaxVersion
  /\ l_toMonitor \in Seq(Commands) /\ l_fromMonitor \in Seq(Answers)
  /\ l_ram \in [Link!Addresses -> Values]
  /\ l_history \in [Link!Addresses -> SUBSET Values]
  /\ \A a \in Link!Addresses : l_ram[a] \in l_history[a]

-----------------------------------------------------------------------------
(* The monitor link: the inductive invariant *)

\* The processor is as after tn (t0 runs it, t1 stops it) when the monitor comes to
\* place i of the commands q, if it runs now or not.
Reaches(q, run, i, n) ==
  \/ (run <=> n = 0) /\ \A j \in 1 .. i - 1 : q[j].cmd # "t"
  \/ \E j \in 1 .. i - 1 :
       /\ q[j].cmd = "t" /\ q[j].n = n
       /\ \A k \in j + 1 .. i - 1 : q[k].cmd # "t"

\* The commands leave the processor as tn does, and load with it stopped unless
\* the tool leaves that open.
LeavesIt(q, run, n) ==
  /\ Reaches(q, run, Len(q) + 1, n)
  /\ \A i \in 1 .. Len(q) : q[i].cmd = "l" /\ ~q[i].hot => Reaches(q, run, i, 1)

\* What fake_stop_cpu leaves: its own wait for the echo, or a tool that takes the
\* processor for stopped, so that nothing it writes starts it at the end.
FakeInv ==
  l_faked =>
    IF l_call.at = "purge"
    THEN l_call.n = 1 /\ l_call.then = Link!Idle
    ELSE l_cpu_stopped /\ (l_call.at \in {"chunk", "echo", "prompt"} => l_call.saved)

\* What the tool believes is what the commands under way come to; during the wait
\* for the echo of t1 or t0, what that command asks for.  After fake_stop_cpu the
\* processor is left running.
StopInv ==
  /\ LeavesIt(l_toMonitor, l_running,
              IF l_call.at = "purge" /\ ~l_faked THEN l_call.n
              ELSE IF l_cpu_stopped /\ ~l_faked THEN 1 ELSE 0)
  /\ FakeInv

NoRequest(q) == \A i \in 1 .. Len(q) : q[i].cmd # "m"
NoDump(f) == \A i \in 1 .. Len(f) : f[i].is # "dump"

\* A request of a line, or the answer to it, is under way once.
OneAnswer(q, f, a, values) ==
  /\ \A i \in 1 .. Len(q) : q[i].cmd = "m" =>
       /\ q[i].a = a /\ NoDump(f)
       /\ \A j \in 1 .. Len(q) : q[j].cmd = "m" => j = i
  /\ \A i \in 1 .. Len(f) : f[i].is = "dump" =>
       /\ f[i].a = a /\ f[i].v \in values
       /\ \A j \in 1 .. Len(f) : f[j].is = "dump" => j = i

\* As long as no request is repeated, there is an answer under way only while
\* it is waited for.
FetchInv ==
  ~l_doubled =>
    IF l_call.at = "fetch"
    THEN OneAnswer(l_toMonitor, l_fromMonitor, l_call.a, l_history[l_call.a])
    ELSE NoRequest(l_toMonitor) /\ NoDump(l_fromMonitor)

\* The comments sent so far have numbers up to n.
TokensUpTo(q, f, n) ==
  /\ \A i \in 1 .. Len(q) : q[i].cmd = "#" => q[i].n <= n
  /\ \A i \in 1 .. Len(f) : f[i].is = "echo" /\ f[i].of.cmd = "#" => f[i].of.n <= n

\* Behind comment n there are no requests, and behind its echo no answers to any.
LastIsToken(q, f, n) ==
  /\ \A i, j \in 1 .. Len(q) : i < j /\ q[i] = Link!Token(n) => q[j].cmd # "m"
  /\ \A i \in 1 .. Len(f) : f[i] = Link!EchoOf(Link!Token(n)) =>
       /\ NoRequest(q)
       /\ \A j \in i + 1 .. Len(f) : f[j].is # "dump"

TokenInv ==
  /\ TokensUpTo(l_toMonitor, l_fromMonitor,
                IF l_call.at = "sync" THEN l_calls - 1 ELSE l_calls)
  /\ l_call.at \in {"sync", "token"} => l_calls > 0
  /\ l_call.at = "token" => LastIsToken(l_toMonitor, l_fromMonitor, l_calls)

FetchedInv ==
  l_call.at = "fetched" /\ ~l_doubled => l_call.v \in l_history[l_call.a]

LinkInv == LinkTypes /\ StopInv /\ FetchInv /\ TokenInv /\ FetchedInv

-----------------------------------------------------------------------------
(* The monitor link: commands in a row *)

LEMMA CommandTypes ==
  /\ \A n \in {0, 1} : Link!T(n) \in Commands
  /\ \A a, n \in Nat, hot \in BOOLEAN : Link!L(a, n, hot) \in Commands
  /\ \A a \in Reads : Link!M(a) \in Commands
  /\ \A n \in Nat : Link!Token(n) \in Commands
  BY DEF Commands, Link!T, Link!L, Link!M, Link!Token

\* A command at the end does not change what is reached before it.
LEMMA ReachesBefore ==
  ASSUME NEW q \in Seq(Commands), NEW c \in Commands,
         NEW run \in BOOLEAN, NEW r \in {0, 1},
         NEW i \in 1 .. Len(q) + 1
  PROVE  Reaches(Append(q, c), run, i, r) <=> Reaches(q, run, i, r)
  <1>1. \A j \in 1 .. i - 1 : Append(q, c)[j] = q[j]
    OBVIOUS
  <1> QED
    BY <1>1 DEF Reaches

\* t0 and t1 decide the state of the processor, whatever was before.
LEMMA LeavesAfterT ==
  ASSUME NEW q \in Seq(Commands), NEW run \in BOOLEAN, NEW r \in {0, 1},
         NEW n \in {0, 1}, LeavesIt(q, run, r)
  PROVE  LeavesIt(Append(q, Link!T(n)), run, n)
  <1> DEFINE c == Link!T(n)
             p == Append(q, c)
  <1>1. c \in Commands /\ c.cmd = "t" /\ c.n = n
    BY DEF Commands, Link!T
  <1> HIDE DEF c
  <1>2. Len(p) = Len(q) + 1 /\ p[Len(q) + 1] = c /\ \A i \in 1 .. Len(q) : p[i] = q[i]
    BY <1>1
  <1>3. Reaches(p, run, Len(p) + 1, n)
    BY <1>1, <1>2 DEF Reaches
  <1>4. ASSUME NEW i \in 1 .. Len(p), p[i].cmd = "l", ~p[i].hot
        PROVE  Reaches(p, run, i, 1)
    <2>1. i \in 1 .. Len(q) /\ q[i].cmd = "l" /\ ~q[i].hot
      BY <1>1, <1>2, <1>4
    <2> QED
      BY <1>1, <2>1, ReachesBefore DEF LeavesIt
  <1> QED
    BY <1>3, <1>4 DEF LeavesIt, c

\* Another command leaves it as it was; a load needs it stopped.
LEMMA LeavesAfterOther ==
  ASSUME NEW q \in Seq(Commands), NEW run \in BOOLEAN, NEW r \in {0, 1},
         NEW c \in Commands, c.cmd # "t", c.cmd = "l" /\ ~c.hot => r = 1, LeavesIt(q, run, r)
  PROVE  LeavesIt(Append(q, c), run, r)
  <1> DEFINE p == Append(q, c)
  <1>1. Len(p) = Len(q) + 1 /\ p[Len(q) + 1] = c /\ \A i \in 1 .. Len(q) : p[i] = q[i]
    OBVIOUS
  <1>2. Reaches(q, run, Len(q) + 1, r)
    BY DEF LeavesIt
  <1>3. Reaches(p, run, Len(q) + 1, r)
    BY <1>2, ReachesBefore
  <1>4. Reaches(p, run, Len(p) + 1, r)
    <2>1. CASE (run <=> r = 0) /\ \A j \in 1 .. Len(q) : q[j].cmd # "t"
      BY <1>1, <2>1 DEF Reaches
    <2>2. CASE \E j \in 1 .. Len(q) :
                 /\ q[j].cmd = "t" /\ q[j].n = r
                 /\ \A k \in j + 1 .. Len(q) : q[k].cmd # "t"
      <3>1. PICK j \in 1 .. Len(q) :
              /\ q[j].cmd = "t" /\ q[j].n = r
              /\ \A k \in j + 1 .. Len(q) : q[k].cmd # "t"
        BY <2>2
      <3>2. \A k \in j + 1 .. Len(p) : p[k].cmd # "t"
        BY <1>1, <3>1
      <3> QED
        BY <1>1, <3>1, <3>2 DEF Reaches
    <2> QED
      BY <1>2, <2>1, <2>2 DEF Reaches
  <1>5. ASSUME NEW i \in 1 .. Len(p), p[i].cmd = "l", ~p[i].hot
        PROVE  Reaches(p, run, i, 1)
    <2>1. CASE i \in 1 .. Len(q)
      BY <1>1, <1>5, <2>1, ReachesBefore DEF LeavesIt
    <2>2. CASE i = Len(q) + 1
      <3>1. r = 1
        BY <1>1, <1>5, <2>2
      <3> QED
        BY <1>3, <2>2, <3>1
    <2> QED
      BY <1>1, <2>1, <2>2
  <1> QED
    BY <1>4, <1>5 DEF LeavesIt

\* The monitor executes the first command; the others come to the same.
LEMMA LeavesAfterFirst ==
  ASSUME NEW q \in Seq(Commands), q # << >>, NEW run \in BOOLEAN, NEW r \in {0, 1},
         LeavesIt(q, run, r), NEW after \in BOOLEAN,
         after <=> (IF q[1].cmd = "t" THEN q[1].n = 0 ELSE run)
  PROVE  LeavesIt(Tail(q), after, r)
  <1> DEFINE p == Tail(q)
  <1>1. Len(p) = Len(q) - 1 /\ Len(q) > 0 /\ \A i \in 1 .. Len(p) : p[i] = q[i + 1]
    OBVIOUS
  <1>2. ASSUME NEW i \in 1 .. Len(p) + 1, NEW s \in {0, 1}, Reaches(q, run, i + 1, s)
        PROVE  Reaches(p, after, i, s)
    <2>1. CASE (run <=> s = 0) /\ \A j \in 1 .. i : q[j].cmd # "t"
      <3>1. (after <=> s = 0) /\ \A j \in 1 .. i - 1 : p[j].cmd # "t"
        BY <1>1, <2>1
      <3> QED
        BY <3>1 DEF Reaches
    <2>2. CASE \E j \in 1 .. i :
                 /\ q[j].cmd = "t" /\ q[j].n = s
                 /\ \A k \in j + 1 .. i : q[k].cmd # "t"
      <3>1. PICK j \in 1 .. i :
              /\ q[j].cmd = "t" /\ q[j].n = s
              /\ \A k \in j + 1 .. i : q[k].cmd # "t"
        BY <2>2
      <3>2. CASE j = 1
        <4>1. (after <=> s = 0) /\ \A k \in 1 .. i - 1 : p[k].cmd # "t"
          BY <1>1, <3>1, <3>2
        <4> QED
          BY <4>1 DEF Reaches
      <3>3. CASE j > 1
        <4>1. /\ j - 1 \in 1 .. i - 1 /\ p[j - 1] = q[j]
              /\ \A k \in (j - 1) + 1 .. i - 1 : p[k].cmd # "t"
          BY <1>1, <3>1, <3>3
        <4> QED
          BY <3>1, <4>1 DEF Reaches
      <3> QED
        BY <3>2, <3>3
    <2> QED
      BY <1>2, <2>1, <2>2 DEF Reaches
  <1>3. Reaches(p, after, Len(p) + 1, r)
    BY <1>1, <1>2 DEF LeavesIt
  <1>4. ASSUME NEW i \in 1 .. Len(p), p[i].cmd = "l", ~p[i].hot
        PROVE  Reaches(p, after, i, 1)
    <2>1. i + 1 \in 1 .. Len(q) /\ q[i + 1].cmd = "l" /\ ~q[i + 1].hot
      BY <1>1, <1>4
    <2> QED
      BY <1>2, <2>1 DEF LeavesIt
  <1> QED
    BY <1>3, <1>4 DEF LeavesIt

\* What slow_write_safe puts on the line: the command, with t1 and t0 around it
\* when the processor is believed to run.
LEMMA SentLemma ==
  ASSUME LinkTypes, NEW c \in Commands, c.cmd # "t", c.cmd = "l" => c.hot = l_faked,
         Link!slow_write_safe(c)
  PROVE  /\ l_toMonitor' \in Seq(Commands) /\ Len(l_toMonitor') >= Len(l_toMonitor)
         /\ \A i \in 1 .. Len(l_toMonitor) : l_toMonitor'[i] = l_toMonitor[i]
         /\ \E p \in Len(l_toMonitor) + 1 .. Len(l_toMonitor') :
              /\ l_toMonitor'[p] = c
              /\ \A i \in Len(l_toMonitor) + 1 .. Len(l_toMonitor') :
                   i # p => l_toMonitor'[i].cmd = "t"
         /\ LET n == IF l_cpu_stopped /\ ~l_faked THEN 1 ELSE 0 IN
            LeavesIt(l_toMonitor, l_running, n) => LeavesIt(l_toMonitor', l_running, n)
  <1> DEFINE q == l_toMonitor
             A1 == Append(q, Link!T(1))
             A2 == Append(A1, c)
             A3 == Append(A2, Link!T(0))
  <1>1. /\ q \in Seq(Commands) /\ l_cpu_stopped \in BOOLEAN /\ l_running \in BOOLEAN
        /\ l_faked \in BOOLEAN
    BY DEF LinkTypes
  <1>2. Link!T(1) \in Commands /\ Link!T(0) \in Commands /\ Link!T(1).cmd = "t" /\ Link!T(0).cmd = "t"
    BY CommandTypes DEF Link!T
  <1>3. CASE l_cpu_stopped
    <2>1. l_toMonitor' = Append(q, c)
      BY <1>1, <1>3 DEF Link!slow_write_safe, Link!slow_write
    <2>2. LET n == IF l_faked THEN 0 ELSE 1 IN
          LeavesIt(q, l_running, n) => LeavesIt(Append(q, c), l_running, n)
      BY <1>1, LeavesAfterOther
    <2>3. /\ l_toMonitor' \in Seq(Commands) /\ Len(l_toMonitor') = Len(q) + 1
          /\ l_toMonitor'[Len(q) + 1] = c
          /\ \A i \in 1 .. Len(q) : l_toMonitor'[i] = q[i]
      BY <1>1, <2>1
    <2> QED
      BY <1>3, <2>1, <2>2, <2>3
  <1>4. CASE ~l_cpu_stopped
    <2> HIDE DEF A1, A2, A3
    <2>1. /\ A1 \in Seq(Commands) /\ Len(A1) = Len(q) + 1 /\ A1[Len(q) + 1] = Link!T(1)
          /\ \A i \in 1 .. Len(q) : A1[i] = q[i]
      BY <1>1, <1>2 DEF A1
    <2>2. /\ A2 \in Seq(Commands) /\ Len(A2) = Len(q) + 2 /\ A2[Len(q) + 2] = c
          /\ \A i \in 1 .. Len(q) + 1 : A2[i] = A1[i]
      BY <2>1 DEF A2
    <2>3. /\ A3 \in Seq(Commands) /\ Len(A3) = Len(q) + 3 /\ A3[Len(q) + 3] = Link!T(0)
          /\ \A i \in 1 .. Len(q) + 2 : A3[i] = A2[i]
      BY <1>2, <2>2 DEF A3
    <2>4. l_toMonitor' = A3
      <3>1. l_toMonitor' = q \o <<Link!T(1), c, Link!T(0)>>
        BY <1>4 DEF Link!slow_write_safe, Link!slow_write
      <3> QED
        BY <1>1, <1>2, <3>1 DEF A1, A2, A3
    <2>5. LeavesIt(q, l_running, 0) => LeavesIt(A3, l_running, 0)
      <3>1. LeavesIt(q, l_running, 0) => LeavesIt(A1, l_running, 1)
        BY <1>1, LeavesAfterT DEF A1
      <3>2. LeavesIt(A1, l_running, 1) => LeavesIt(A2, l_running, 1)
        BY <1>1, <2>1, LeavesAfterOther DEF A2
      <3>3. LeavesIt(A2, l_running, 1) => LeavesIt(A3, l_running, 0)
        BY <1>1, <2>2, LeavesAfterT DEF A3
      <3> QED
        BY <3>1, <3>2, <3>3
    <2>6. \A i \in 1 .. Len(q) : A3[i] = q[i]
      BY <1>1, <2>1, <2>2, <2>3
    <2>7. A3[Len(q) + 1].cmd = "t" /\ A3[Len(q) + 2] = c /\ A3[Len(q) + 3].cmd = "t"
      BY <1>1, <1>2, <2>1, <2>2, <2>3
    <2>8. \E p \in Len(q) + 1 .. Len(A3) :
            /\ A3[p] = c /\ \A i \in Len(q) + 1 .. Len(A3) : i # p => A3[i].cmd = "t"
      <3>1. \A i \in Len(q) + 1 .. Len(A3) : i # Len(q) + 2 => A3[i].cmd = "t"
        BY <1>1, <2>3, <2>7
      <3> QED
        BY <1>1, <2>3, <2>7, <3>1
    <2> QED
      BY <1>1, <1>4, <2>3, <2>4, <2>5, <2>6, <2>8
  <1> QED
    BY <1>3, <1>4

\* One t0 or t1 put on the line.
LEMMA SentT ==
  ASSUME LinkTypes, NEW n \in {0, 1}, Link!slow_write(<<Link!T(n)>>)
  PROVE  /\ l_toMonitor' \in Seq(Commands) /\ Len(l_toMonitor') = Len(l_toMonitor) + 1
         /\ \A i \in 1 .. Len(l_toMonitor) : l_toMonitor'[i] = l_toMonitor[i]
         /\ l_toMonitor'[Len(l_toMonitor) + 1].cmd = "t"
         /\ \A m \in {0, 1} : LeavesIt(l_toMonitor, l_running, m)
                               => LeavesIt(l_toMonitor', l_running, n)
  <1>1. l_toMonitor \in Seq(Commands) /\ l_running \in BOOLEAN
    BY DEF LinkTypes
  <1>2. Link!T(n) \in Commands /\ Link!T(n).cmd = "t"
    BY CommandTypes DEF Link!T
  <1>3. l_toMonitor' = Append(l_toMonitor, Link!T(n))
    BY <1>1, <1>2 DEF Link!slow_write
  <1> QED
    BY <1>1, <1>2, <1>3, LeavesAfterT

\* What fake_stop_cpu puts on the line: t1, and around it the t1 and t0 of
\* slow_write_safe.
LEMMA SentFake ==
  ASSUME LinkTypes, ~l_cpu_stopped, Link!slow_write_safe(Link!T(1)),
         NEW m \in {0, 1}, LeavesIt(l_toMonitor, l_running, m)
  PROVE  /\ l_toMonitor' \in Seq(Commands) /\ Len(l_toMonitor') = Len(l_toMonitor) + 3
         /\ \A i \in 1 .. Len(l_toMonitor) : l_toMonitor'[i] = l_toMonitor[i]
         /\ \A i \in Len(l_toMonitor) + 1 .. Len(l_toMonitor') : l_toMonitor'[i].cmd = "t"
         /\ LeavesIt(l_toMonitor', l_running, 0)
  <1> DEFINE q == l_toMonitor
             A1 == Append(q, Link!T(1))
             A2 == Append(A1, Link!T(1))
             A3 == Append(A2, Link!T(0))
  <1>1. q \in Seq(Commands) /\ l_running \in BOOLEAN
    BY DEF LinkTypes
  <1>2. Link!T(1) \in Commands /\ Link!T(0) \in Commands /\ Link!T(1).cmd = "t" /\ Link!T(0).cmd = "t"
    BY CommandTypes DEF Link!T
  <1> HIDE DEF A1, A2, A3
  <1>3. /\ A1 \in Seq(Commands) /\ Len(A1) = Len(q) + 1 /\ A1[Len(q) + 1].cmd = "t"
        /\ \A i \in 1 .. Len(q) : A1[i] = q[i]
    BY <1>1, <1>2 DEF A1
  <1>4. /\ A2 \in Seq(Commands) /\ Len(A2) = Len(q) + 2 /\ A2[Len(q) + 2].cmd = "t"
        /\ \A i \in 1 .. Len(q) + 1 : A2[i] = A1[i]
    BY <1>2, <1>3 DEF A2
  <1>5. /\ A3 \in Seq(Commands) /\ Len(A3) = Len(q) + 3 /\ A3[Len(q) + 3].cmd = "t"
        /\ \A i \in 1 .. Len(q) + 2 : A3[i] = A2[i]
    BY <1>2, <1>4 DEF A3
  <1>6. q' = A3
    <2>1. q' = q \o <<Link!T(1), Link!T(1), Link!T(0)>>
      BY DEF Link!slow_write_safe, Link!slow_write
    <2> QED
      BY <1>1, <1>2, <2>1 DEF A1, A2, A3
  <1>7. LeavesIt(A1, l_running, 1)
    BY <1>1, LeavesAfterT DEF A1
  <1>8. LeavesIt(A2, l_running, 1)
    BY <1>1, <1>3, <1>7, LeavesAfterT DEF A2
  <1>9. LeavesIt(A3, l_running, 0)
    BY <1>1, <1>4, <1>8, LeavesAfterT DEF A3
  <1>10. \A i \in 1 .. Len(q) : A3[i] = q[i]
    BY <1>1, <1>3, <1>4, <1>5
  <1>11. \A i \in Len(q) + 1 .. Len(A3) : A3[i].cmd = "t"
    BY <1>1, <1>3, <1>4, <1>5
  <1> QED
    BY <1>5, <1>6, <1>9, <1>10, <1>11

-----------------------------------------------------------------------------
(* The monitor link: answers that are read and dropped *)

\* The order of the natural numbers, as the library writes it.
Less == OpToRel(<, Nat)

\* A set of places has a first one.
LEMMA FirstOf ==
  ASSUME NEW S \in SUBSET Nat, S # {}
  PROVE  \E n \in S : \A m \in S : n <= m
  <1>1. PICK n \in S : \A m \in S : ~ (<<m, n>> \in Less)
    BY NatLessThanWellFounded, WFMin DEF Less
  <1>2. \A m \in S : ~ (m < n)
    BY <1>1 DEF Less, OpToRel
  <1>3. \A m \in S : m \in Nat
    OBVIOUS
  <1> QED
    BY <1>2, <1>3

\* What is left when the first k answers have been read.
LEMMA DroppedLemma ==
  ASSUME NEW f \in Seq(Answers), NEW k \in 1 .. Len(f), NEW g, g = SubSeq(f, k + 1, Len(f))
  PROVE  /\ g \in Seq(Answers) /\ Len(g) = Len(f) - k
         /\ \A i \in 1 .. Len(g) : g[i] = f[i + k] /\ i + k \in 1 .. Len(f)
  OBVIOUS

LEMMA TailLemma ==
  ASSUME NEW f \in Seq(Answers), f # << >>
  PROVE  Tail(f) = SubSeq(f, 1 + 1, Len(f)) /\ 1 \in 1 .. Len(f) /\ Head(f) = f[1]
  OBVIOUS

\* Reading breaks none of the promises about what is under way.
LEMMA DroppingKeeps ==
  ASSUME NEW f \in Seq(Answers), NEW k \in 1 .. Len(f), NEW g, g = SubSeq(f, k + 1, Len(f)),
         NEW q \in Seq(Commands)
  PROVE  /\ NoDump(f) => NoDump(g)
         /\ \A a, values : OneAnswer(q, f, a, values) => OneAnswer(q, g, a, values)
         /\ \A n : TokensUpTo(q, f, n) => TokensUpTo(q, g, n)
         /\ \A n : LastIsToken(q, f, n) => LastIsToken(q, g, n)
  <1>1. /\ g \in Seq(Answers) /\ Len(g) = Len(f) - k
        /\ \A i \in 1 .. Len(g) : g[i] = f[i + k] /\ i + k \in 1 .. Len(f)
    BY DroppedLemma
  <1>2. NoDump(f) => NoDump(g)
    BY <1>1 DEF NoDump
  <1>3. ASSUME NEW a, NEW values, OneAnswer(q, f, a, values)
        PROVE  OneAnswer(q, g, a, values)
    <2>1. \A i \in 1 .. Len(g) : g[i].is = "dump" =>
            /\ g[i].a = a /\ g[i].v \in values
            /\ \A j \in 1 .. Len(g) : g[j].is = "dump" => j = i
      <3> SUFFICES ASSUME NEW i \in 1 .. Len(g), g[i].is = "dump"
                   PROVE  /\ g[i].a = a /\ g[i].v \in values
                          /\ \A j \in 1 .. Len(g) : g[j].is = "dump" => j = i
        OBVIOUS
      <3>1. /\ f[i + k].a = a /\ f[i + k].v \in values
            /\ \A j \in 1 .. Len(f) : f[j].is = "dump" => j = i + k
        BY <1>1, <1>3 DEF OneAnswer
      <3>2. ASSUME NEW j \in 1 .. Len(g), g[j].is = "dump"
            PROVE  j = i
        <4>1. j + k = i + k
          BY <1>1, <3>1, <3>2
        <4> QED
          BY <4>1
      <3> QED
        BY <1>1, <3>1, <3>2
    <2> QED
      BY <1>2, <1>3, <2>1 DEF OneAnswer
  <1>4. ASSUME NEW n, TokensUpTo(q, f, n)
        PROVE  TokensUpTo(q, g, n)
    BY <1>1, <1>4 DEF TokensUpTo
  <1>5. ASSUME NEW n, LastIsToken(q, f, n)
        PROVE  LastIsToken(q, g, n)
    <2> SUFFICES ASSUME NEW i \in 1 .. Len(g), g[i] = Link!EchoOf(Link!Token(n))
                 PROVE  NoRequest(q) /\ \A j \in i + 1 .. Len(g) : g[j].is # "dump"
      BY <1>5 DEF LastIsToken
    <2>1. NoRequest(q) /\ \A j \in i + k + 1 .. Len(f) : f[j].is # "dump"
      BY <1>1, <1>5 DEF LastIsToken
    <2>2. ASSUME NEW j \in i + 1 .. Len(g)
          PROVE  g[j].is # "dump"
      <3>1. j + k \in i + k + 1 .. Len(f) /\ g[j] = f[j + k]
        BY <1>1
      <3> QED
        BY <2>1, <3>1
    <2> QED
      BY <2>1, <2>2
  <1> QED
    BY <1>2, <1>3, <1>4, <1>5

LEMMA DroppingAnswer ==
  ASSUME NEW f \in Seq(Answers), NEW k \in 1 .. Len(f), NEW q \in Seq(Commands),
         NEW a, NEW values, OneAnswer(q, f, a, values)
  PROVE  OneAnswer(q, SubSeq(f, k + 1, Len(f)), a, values)
  BY DroppingKeeps

\* Commands that are no requests break none either.
LEMMA AddingKeeps ==
  ASSUME NEW q \in Seq(Commands), NEW p \in Seq(Commands), Len(p) >= Len(q),
         \A i \in 1 .. Len(q) : p[i] = q[i],
         \A i \in Len(q) + 1 .. Len(p) : p[i].cmd # "m",
         NEW f \in Seq(Answers)
  PROVE  /\ NoRequest(q) => NoRequest(p)
         /\ \A a, values : OneAnswer(q, f, a, values) => OneAnswer(p, f, a, values)
         /\ \A n : LastIsToken(q, f, n) => LastIsToken(p, f, n)
  <1>0. \A i \in 1 .. Len(p) : i \in 1 .. Len(q) \/ i \in Len(q) + 1 .. Len(p)
    OBVIOUS
  <1>1. NoRequest(q) => NoRequest(p)
    BY <1>0 DEF NoRequest
  <1>2. ASSUME NEW a, NEW values, OneAnswer(q, f, a, values)
        PROVE  OneAnswer(p, f, a, values)
    <2>1. \A i \in 1 .. Len(p) : p[i].cmd = "m" => i \in 1 .. Len(q) /\ q[i] = p[i]
      BY <1>0
    <2>2. ASSUME NEW i \in 1 .. Len(p), p[i].cmd = "m"
          PROVE  /\ p[i].a = a /\ NoDump(f)
                 /\ \A j \in 1 .. Len(p) : p[j].cmd = "m" => j = i
      <3>1. i \in 1 .. Len(q) /\ q[i].cmd = "m" /\ q[i] = p[i]
        BY <2>1, <2>2
      <3>2. /\ q[i].a = a /\ NoDump(f)
            /\ \A j \in 1 .. Len(q) : q[j].cmd = "m" => j = i
        BY <1>2, <3>1 DEF OneAnswer
      <3> QED
        BY <2>1, <3>1, <3>2
    <2> QED
      BY <1>2, <2>2 DEF OneAnswer
  <1>3. ASSUME NEW n, LastIsToken(q, f, n)
        PROVE  LastIsToken(p, f, n)
    <2>1. ASSUME NEW i \in 1 .. Len(p), NEW j \in 1 .. Len(p), i < j, p[i] = Link!Token(n)
          PROVE  p[j].cmd # "m"
      <3>1. CASE j \in 1 .. Len(q)
        <4>1. i \in 1 .. Len(q)
          BY <2>1, <3>1
        <4> QED
          BY <1>3, <2>1, <3>1, <4>1 DEF LastIsToken
      <3> QED
        BY <1>0, <3>1
    <2> QED
      BY <1>1, <1>3, <2>1 DEF LastIsToken
  <1> QED
    BY <1>1, <1>2, <1>3

\* Comments that are put on the line have numbers that are known.
LEMMA AddingTokens ==
  ASSUME NEW q \in Seq(Commands), NEW p \in Seq(Commands), Len(p) >= Len(q),
         NEW m \in Int, NEW n \in Int, m <= n,
         \A i \in 1 .. Len(q) : p[i] = q[i],
         \A i \in Len(q) + 1 .. Len(p) : p[i].cmd = "#" => p[i].n <= n,
         NEW f \in Seq(Answers), TokensUpTo(q, f, m)
  PROVE  TokensUpTo(p, f, n)
  <1>1. ASSUME NEW i \in 1 .. Len(p), p[i].cmd = "#"
        PROVE  p[i].n <= n
    <2>1. CASE i \in 1 .. Len(q)
      <3>1. p[i].n <= m /\ p[i] \in Commands
        BY <1>1, <2>1 DEF TokensUpTo
      <3>2. p[i].n \in Nat
        BY <1>1, <3>1 DEF Commands
      <3> QED
        BY <3>1, <3>2
    <2> QED
      BY <1>1, <2>1
  <1>2. ASSUME NEW i \in 1 .. Len(f), f[i].is = "echo", f[i].of.cmd = "#"
        PROVE  f[i].of.n <= n
    <2>1. f[i].of.n <= m /\ f[i] \in Answers
      BY <1>2 DEF TokensUpTo
    <2>2. f[i].of \in Commands
      BY <1>2, <2>1 DEF Answers, Link!Prompt
    <2>3. f[i].of.n \in Nat
      BY <1>2, <2>2 DEF Commands
    <2> QED
      BY <2>1, <2>3
  <1> QED
    BY <1>1, <1>2 DEF TokensUpTo

\* An answer stays a good one when memory has had more values.
LEMMA MoreValues ==
  ASSUME NEW q, NEW f, NEW a, NEW values, NEW more, values \subseteq more,
         OneAnswer(q, f, a, values)
  PROVE  OneAnswer(q, f, a, more)
  BY DEF OneAnswer

-----------------------------------------------------------------------------
(* The monitor link: every step keeps the invariant *)

\* Between two calls.
LEMMA IdleLemma ==
  ASSUME LinkInv, NEW c, Link!Begin(c)
  PROVE  /\ l_call = Link!Idle /\ l_call.at = "idle" /\ l_call' = c
         /\ l_calls \in Nat /\ l_calls' = l_calls + 1 /\ l_calls' \in 0 .. MaxCalls
         /\ LeavesIt(l_toMonitor, l_running, IF l_cpu_stopped /\ ~l_faked THEN 1 ELSE 0)
         /\ l_faked => l_cpu_stopped
         /\ ~l_doubled => NoRequest(l_toMonitor) /\ NoDump(l_fromMonitor)
         /\ TokensUpTo(l_toMonitor, l_fromMonitor, l_calls)
         /\ (l_ram' = l_ram => /\ l_history' \in [Link!Addresses -> SUBSET Values]
                               /\ \A a \in Link!Addresses : l_ram'[a] \in l_history'[a])
  <1>1. l_call = Link!Idle /\ l_call.at = "idle" /\ l_call' = c /\ l_calls' = l_calls + 1
        /\ l_calls < MaxCalls
    BY DEF Link!Begin, Link!Idle
  <1>2. l_calls \in Nat /\ l_calls' \in 0 .. MaxCalls
    BY <1>1, LinkSizes DEF LinkInv, LinkTypes, Link!LinkAssumption
  <1>3. l_history' = [a \in Link!Addresses |-> {l_ram[a]}]
    BY DEF Link!Begin
  <1> QED
    BY <1>1, <1>2, <1>3 DEF LinkInv, LinkTypes, StopInv, FakeInv, FetchInv, TokenInv

\* A call that stops, starts and writes nothing keeps what fake_stop_cpu left.
LEMMA FakeKept ==
  ASSUME LinkInv, l_call.at # "purge", l_call'.at \notin {"purge", "chunk", "echo", "prompt"},
         l_faked' = l_faked, l_cpu_stopped' = l_cpu_stopped
  PROVE  FakeInv'
  BY DEF LinkInv, StopInv, FakeInv

LEMMA CallTypes ==
  /\ Link!Idle \in Calls /\ [at |-> "sync"] \in Calls /\ [at |-> "token"] \in Calls
  /\ \A a, n \in Nat, saved \in BOOLEAN :
       Link!PushAt(a, n, saved) \in Pushing /\ Link!PushAt(a, n, saved) \in Calls
  /\ \A n \in {0, 1}, then \in {Link!Idle} \cup Pushing :
       Link!Purge(n, then) \in Calls /\ Link!Purge(n, then).at = "purge"
         /\ Link!Purge(n, then).n = n
  /\ \A a \in Reads : [at |-> "fetch", a |-> a] \in Calls
  /\ \A a, n \in Nat : Link!LoadAt(a, n) \in Calls
  BY DEF Calls, Pushing, Link!PushAt, Link!LoadAt, Link!Purge, Link!Idle

\* A call that begins, or goes on, with t1 or t0, or with nothing.
LEMMA QuietBegin ==
  ASSUME LinkInv, NEW c \in Calls, Link!Begin(c), c.at \notin {"sync", "token", "fetch", "fetched"},
         UNCHANGED <<l_repeats, l_doubled, l_fromMonitor, Link!machine>>,
         l_cpu_stopped' \in BOOLEAN, l_faked' \in BOOLEAN, FakeInv', NEW n \in {0, 1},
         \/ Link!slow_write(<<Link!T(n)>>)
         \/ n = 0 /\ ~l_cpu_stopped /\ Link!slow_write_safe(Link!T(1))
         \/ UNCHANGED l_toMonitor /\ n = IF l_cpu_stopped /\ ~l_faked THEN 1 ELSE 0,
         n = IF c.at = "purge" /\ ~l_faked' THEN c.n
             ELSE IF l_cpu_stopped' /\ ~l_faked' THEN 1 ELSE 0
  PROVE  LinkInv'
  <1>1. LinkTypes
    BY DEF LinkInv
  <1>2. /\ l_toMonitor \in Seq(Commands) /\ l_fromMonitor \in Seq(Answers)
        /\ l_fromMonitor' = l_fromMonitor /\ l_running' = l_running /\ l_ram' = l_ram
        /\ l_version' = l_version /\ l_doubled' = l_doubled /\ l_repeats' = l_repeats
    BY <1>1 DEF LinkTypes, Link!machine
  <1>3. /\ l_toMonitor' \in Seq(Commands) /\ Len(l_toMonitor') >= Len(l_toMonitor)
        /\ \A i \in 1 .. Len(l_toMonitor) : l_toMonitor'[i] = l_toMonitor[i]
        /\ \A i \in Len(l_toMonitor) + 1 .. Len(l_toMonitor') : l_toMonitor'[i].cmd = "t"
        /\ LeavesIt(l_toMonitor', l_running, n)
    <2>1. CASE Link!slow_write(<<Link!T(n)>>)
      <3>1. LeavesIt(l_toMonitor', l_running, n)
        BY <1>1, <2>1, SentT, IdleLemma
      <3> QED
        BY <1>1, <1>2, <2>1, <3>1, SentT
    <2>2. CASE UNCHANGED l_toMonitor /\ n = IF l_cpu_stopped /\ ~l_faked THEN 1 ELSE 0
      BY <1>2, <2>2, IdleLemma
    <2>3. CASE n = 0 /\ ~l_cpu_stopped /\ Link!slow_write_safe(Link!T(1))
      <3>1. LeavesIt(l_toMonitor, l_running, IF l_cpu_stopped /\ ~l_faked THEN 1 ELSE 0)
        BY IdleLemma
      <3> QED
        BY <1>1, <1>2, <2>3, <3>1, SentFake
    <2> QED
      BY <2>1, <2>2, <2>3
  <1>4. LinkTypes'
    BY <1>1, <1>2, <1>3, IdleLemma DEF LinkTypes
  <1>5. StopInv'
    BY <1>2, <1>3, IdleLemma DEF StopInv
  <1>6. FetchInv' /\ FetchedInv'
    <2>1. NoRequest(l_toMonitor) => NoRequest(l_toMonitor')
      BY <1>2, <1>3, AddingKeeps
    <2>2. l_call'.at \notin {"fetch", "fetched"}
      BY IdleLemma
    <2>3. ~l_doubled => NoRequest(l_toMonitor) /\ NoDump(l_fromMonitor)
      BY IdleLemma
    <2> QED
      BY <1>2, <2>1, <2>2, <2>3 DEF FetchInv, FetchedInv
  <1>7. TokenInv'
    <2>1. TokensUpTo(l_toMonitor', l_fromMonitor, l_calls')
      <3>1. l_calls \in Int /\ l_calls' \in Int /\ l_calls <= l_calls'
        BY IdleLemma
      <3>2. TokensUpTo(l_toMonitor, l_fromMonitor, l_calls)
        BY IdleLemma
      <3> QED
        BY <1>2, <1>3, <3>1, <3>2, AddingTokens
    <2>2. l_call'.at \notin {"sync", "token"}
      BY IdleLemma
    <2> QED
      BY <1>2, <2>1, <2>2 DEF TokenInv
  <1> QED
    BY <1>4, <1>5, <1>6, <1>7 DEF LinkInv

\* A tool goes on between two waits: it puts commands on the line that are no
\* requests and no comments, or drops what it has read.
LEMMA QuietStep ==
  ASSUME LinkInv, l_call.at \notin {"sync", "token", "fetch"},
         l_call' \in Calls, l_call'.at \notin {"sync", "token", "fetch", "fetched"},
         UNCHANGED <<l_calls, l_doubled, Link!machine, l_history>>,
         l_repeats' = l_repeats \/ l_repeats' \in 0 .. MaxRepeats,
         l_cpu_stopped' \in BOOLEAN, l_faked' \in BOOLEAN,
         l_toMonitor' \in Seq(Commands), Len(l_toMonitor') >= Len(l_toMonitor),
         \A i \in 1 .. Len(l_toMonitor) : l_toMonitor'[i] = l_toMonitor[i],
         \A i \in Len(l_toMonitor) + 1 .. Len(l_toMonitor') :
           l_toMonitor'[i].cmd \notin {"m", "#"},
         \/ UNCHANGED l_fromMonitor
         \/ \E k \in 1 .. Len(l_fromMonitor) :
              l_fromMonitor' = SubSeq(l_fromMonitor, k + 1, Len(l_fromMonitor)),
         StopInv'
  PROVE  LinkInv'
  <1> DEFINE q == l_toMonitor
             f == l_fromMonitor
  <1>1. /\ q \in Seq(Commands) /\ f \in Seq(Answers) /\ l_calls \in Int
        /\ l_calls' = l_calls /\ l_doubled' = l_doubled
    BY LinkSizes DEF LinkInv, LinkTypes, Link!LinkAssumption
  <1>2. /\ f' \in Seq(Answers) /\ (NoDump(f) => NoDump(f'))
        /\ \A n : TokensUpTo(q, f, n) => TokensUpTo(q, f', n)
    BY <1>1, DroppedLemma, DroppingKeeps
  <1>3. LinkTypes'
    BY <1>1, <1>2 DEF LinkInv, LinkTypes, Link!machine
  <1>4. FetchInv' /\ FetchedInv'
    <2>1. ~l_doubled => NoRequest(q) /\ NoDump(f)
      BY DEF LinkInv, FetchInv
    <2>2. NoRequest(q) => NoRequest(q')
      BY <1>1, AddingKeeps
    <2> QED
      BY <1>1, <1>2, <2>1, <2>2 DEF FetchInv, FetchedInv
  <1>5. TokenInv'
    <2>1. TokensUpTo(q, f', l_calls)
      BY <1>2 DEF LinkInv, TokenInv
    <2>2. TokensUpTo(q', f', l_calls)
      <3>1. l_calls <= l_calls /\ \A i \in Len(q) + 1 .. Len(q') : q'[i].cmd # "#"
        BY <1>1
      <3>2. q' \in Seq(Commands) /\ Len(q') >= Len(q) /\ \A i \in 1 .. Len(q) : q'[i] = q[i]
        OBVIOUS
      <3> HIDE DEF q, f
      <3> QED
        BY <1>1, <1>2, <2>1, <3>1, <3>2, AddingTokens
    <2> QED
      BY <1>1, <2>2 DEF TokenInv
  <1> QED
    BY <1>3, <1>4, <1>5 DEF LinkInv

LEMMA CallsThatBegin ==
  ASSUME LinkInv, \/ Link!real_stop_cpu \/ Link!fake_stop_cpu \/ Link!start_cpu
                  \/ \E p \in Pushes : Link!BeginPush(p[1], p[2])
                  \/ \E p \in Loads : Link!BeginLoad(p[1], p[2])
  PROVE  LinkInv'
  <1>0. l_cpu_stopped \in BOOLEAN /\ l_faked \in BOOLEAN
    BY DEF LinkInv, LinkTypes
  <1>i. /\ Link!Idle \in Calls /\ Link!Idle.at = "idle"
        /\ \A n \in {0, 1}, then \in {Link!Idle} \cup Pushing :
             /\ Link!Purge(n, then) \in Calls /\ Link!Purge(n, then).at = "purge"
             /\ Link!Purge(n, then).n = n /\ Link!Purge(n, then).then = then
    BY CallTypes DEF Link!Idle, Link!Purge
  <1>1. CASE Link!real_stop_cpu
    <2>1. CASE l_cpu_stopped
      <3>1. Link!Begin(Link!Idle) /\ UNCHANGED <<l_cpu_stopped, l_toMonitor, l_faked>>
        BY <1>1, <2>1 DEF Link!real_stop_cpu
      <3>2. FakeInv'
        BY <1>i, <2>1, <3>1, IdleLemma DEF FakeInv
      <3> QED
        BY <1>0, <1>i, <1>1, <2>1, <3>1, <3>2, QuietBegin DEF Link!real_stop_cpu
    <2>2. CASE ~l_cpu_stopped
      <3>1. Link!Begin(Link!Purge(1, Link!Idle)) /\ l_faked' = l_faked
        BY <1>1, <2>2 DEF Link!real_stop_cpu
      <3>2. ~l_faked'
        BY <2>2, <3>1, IdleLemma
      <3>3. FakeInv'
        BY <3>2 DEF FakeInv
      <3> QED
        BY <1>0, <1>i, <1>1, <2>2, <3>1, <3>2, <3>3, QuietBegin DEF Link!real_stop_cpu
    <2> QED
      BY <2>1, <2>2
  <1>2. CASE Link!start_cpu
    <2>1. Link!Begin(Link!Purge(0, Link!Idle)) /\ ~l_faked' /\ l_faked' \in BOOLEAN
      BY <1>2 DEF Link!start_cpu
    <2>2. FakeInv'
      BY <2>1 DEF FakeInv
    <2> QED
      BY <1>0, <1>i, <1>2, <2>1, <2>2, QuietBegin DEF Link!start_cpu
  <1>3. CASE \E p \in Pushes : Link!BeginPush(p[1], p[2])
    <2>1. PICK p \in Pushes : Link!BeginPush(p[1], p[2])
      BY <1>3
    <2>2. p[1] \in Nat /\ p[2] \in Nat
      BY LinkSizes DEF Link!LinkAssumption
    <2>3. CASE l_cpu_stopped
      <3> DEFINE c == Link!PushAt(p[1], p[2], TRUE)
      <3>1. Link!Begin(c) /\ c \in Calls /\ c.at = "chunk" /\ c.saved
            /\ UNCHANGED <<l_cpu_stopped, l_toMonitor, l_faked>>
        BY <2>1, <2>2, <2>3, CallTypes DEF Link!BeginPush, Link!PushAt
      <3>2. l_call' = c
        BY <3>1, IdleLemma
      <3> HIDE DEF c
      <3>3. FakeInv'
        BY <2>3, <3>1, <3>2 DEF FakeInv
      <3> QED
        BY <1>0, <2>1, <2>3, <3>1, <3>3, QuietBegin DEF Link!BeginPush
    <2>4. CASE ~l_cpu_stopped
      <3> DEFINE t == Link!PushAt(p[1], p[2], FALSE)
                 c == Link!Purge(1, t)
      <3>1. t \in Pushing
        BY <2>2, CallTypes
      <3>2. Link!Begin(c) /\ c \in Calls /\ c.at = "purge" /\ c.n = 1 /\ l_faked' = l_faked
        BY <1>i, <2>1, <2>4, <3>1 DEF Link!BeginPush
      <3>3. ~l_faked'
        BY <2>4, <3>2, IdleLemma
      <3>4. FakeInv'
        BY <3>3 DEF FakeInv
      <3> QED
        BY <1>0, <2>1, <2>4, <3>2, <3>3, <3>4, QuietBegin DEF Link!BeginPush
    <2> QED
      BY <1>0, <2>3, <2>4
  <1>4. CASE Link!fake_stop_cpu
    <2>1. CASE l_cpu_stopped
      <3>1. Link!Begin(Link!Idle) /\ UNCHANGED <<l_cpu_stopped, l_toMonitor, l_faked>>
        BY <1>4, <2>1 DEF Link!fake_stop_cpu
      <3>2. FakeInv'
        BY <1>i, <2>1, <3>1, IdleLemma DEF FakeInv
      <3> QED
        BY <1>0, <1>i, <1>4, <2>1, <3>1, <3>2, QuietBegin DEF Link!fake_stop_cpu
    <2>2. CASE ~l_cpu_stopped
      <3> DEFINE c == Link!Purge(1, Link!Idle)
      <3>1. /\ Link!Begin(c) /\ Link!slow_write_safe(Link!T(1)) /\ l_faked'
            /\ l_faked' \in BOOLEAN /\ l_cpu_stopped' = l_cpu_stopped
        BY <1>4, <2>2 DEF Link!fake_stop_cpu
      <3>2. c \in Calls /\ c.at = "purge" /\ c.n = 1 /\ c.then = Link!Idle /\ l_call' = c
        BY <1>i, <3>1, IdleLemma
      <3> HIDE DEF c
      <3>3. FakeInv'
        BY <3>2 DEF FakeInv
      <3> QED
        BY <1>0, <1>4, <2>2, <3>1, <3>2, <3>3, QuietBegin DEF Link!fake_stop_cpu
    <2> QED
      BY <2>1, <2>2
  <1>5. CASE \E p \in Loads : Link!BeginLoad(p[1], p[2])
    <2>1. PICK p \in Loads : Link!BeginLoad(p[1], p[2])
      BY <1>5
    <2>2. p[1] \in Nat /\ p[2] \in Nat
      BY LinkSizes DEF Link!LinkAssumption
    <2> DEFINE c == Link!LoadAt(p[1], p[2])
    <2>3. /\ Link!Begin(c) /\ c \in Calls /\ c.at = "load"
          /\ UNCHANGED <<l_cpu_stopped, l_faked, l_repeats, l_doubled, l_toMonitor,
                         l_fromMonitor, Link!machine>>
      BY <2>1, <2>2, CallTypes DEF Link!BeginLoad, Link!LoadAt, Link!lineVars
    <2>4. l_call' = c
      BY <2>3, IdleLemma
    <2> HIDE DEF c
    <2>5. FakeInv'
      BY <2>3, <2>4, IdleLemma DEF FakeInv
    <2> QED
      BY <1>0, <2>3, <2>5, QuietBegin
  <1> QED
    BY <1>1, <1>2, <1>3, <1>4, <1>5

LEMMA LeastOfThree ==
  ASSUME NEW x \in Nat, NEW y \in Nat, NEW z \in Nat
  PROVE  Link!Min({x, y, z}) \in Nat /\ Link!Min({x, y, z}) <= x
  <1> DEFINE S == {x, y, z}
             P(k) == k \in S /\ \A m \in S : k <= m
  <1>1. \E k : P(k)
    <2>1. CASE x <= y /\ x <= z
      BY <2>1
    <2>2. CASE y <= x /\ y <= z
      BY <2>2
    <2>3. CASE z <= x /\ z <= y
      BY <2>3
    <2> QED
      BY <2>1, <2>2, <2>3
  <1>2. Link!Min(S) \in S /\ \A m \in S : Link!Min(S) <= m
    <2>1. Link!Min(S) = CHOOSE k \in S : \A m \in S : k <= m
      BY DEF Link!Min
    <2> HIDE DEF S
    <2> QED
      BY <1>1, <2>1
  <1> QED
    BY <1>2

\* A chunk of a file is no larger than what is left of it.
LEMMA FileChunkLemma ==
  ASSUME NEW a \in Nat, NEW n \in Nat
  PROVE  Link!FileChunk(a, n) \in Nat /\ Link!FileChunk(a, n) <= n
  <1>1. Slab \in Nat /\ Slab > 0 /\ Chunk \in Nat
    BY LinkSizes DEF Link!LinkAssumption
  <1>2. a % Slab \in 0 .. Slab - 1
    BY <1>1
  <1> QED
    BY <1>1, <1>2, LeastOfThree DEF Link!FileChunk

\* A chunk is no larger than what is left, and loaded with the processor stopped.
LEMMA PushLemma ==
  ASSUME LinkInv, Link!push_chunk
  PROVE  LinkInv'
  <1> DEFINE n == Link!ChunkSize(l_call.a, l_call.n)
             c == Link!L(l_call.a, n, l_faked)
  <1>1. LinkTypes /\ l_call \in Pushing
    BY DEF LinkInv, LinkTypes, Calls, Link!push_chunk, Link!Idle
  <1>2. l_call.a \in Nat /\ l_call.n \in Nat /\ l_call.n > 0 /\ l_call.saved \in BOOLEAN
        /\ l_call.at = "chunk"
    BY <1>1 DEF Pushing, Link!push_chunk
  <1>3. Slab \in Nat /\ Slab > 0 /\ Chunk \in Nat
    BY LinkSizes DEF Link!LinkAssumption
  <1>4. l_call.a % Slab \in 0 .. Slab - 1
    BY <1>2, <1>3
  <1>5. n \in 0 .. l_call.n
    BY <1>2, <1>3, <1>4 DEF Link!ChunkSize
  <1> HIDE DEF n
  <1>6. c \in Commands /\ c.cmd = "l" /\ c.n = n /\ c.hot = l_faked
    BY <1>1, <1>2, <1>5, CommandTypes DEF Link!L, LinkTypes
  <1> HIDE DEF c
  <1>7. /\ Link!slow_write_safe(c)
        /\ l_call' = [at |-> "echo", cmd |-> c, saved |-> l_call.saved,
                      a |-> l_call.a + c.n, n |-> l_call.n - c.n]
        /\ UNCHANGED <<l_calls, l_cpu_stopped, l_faked, l_repeats, l_doubled, l_fromMonitor,
                       Link!machine, l_history>>
    BY DEF Link!push_chunk, n, c
  <1>8. l_call' \in Calls /\ l_call'.at = "echo" /\ l_call'.saved = l_call.saved
    BY <1>2, <1>5, <1>6, <1>7 DEF Calls
  <1>9. /\ l_toMonitor' \in Seq(Commands) /\ Len(l_toMonitor') >= Len(l_toMonitor)
        /\ \A i \in 1 .. Len(l_toMonitor) : l_toMonitor'[i] = l_toMonitor[i]
        /\ \A i \in Len(l_toMonitor) + 1 .. Len(l_toMonitor') :
             l_toMonitor'[i].cmd \notin {"m", "#"}
    BY <1>1, <1>6, <1>7, SentLemma
  <1>10. StopInv'
    <2>1. LeavesIt(l_toMonitor, l_running, IF l_cpu_stopped /\ ~l_faked THEN 1 ELSE 0)
      BY <1>2 DEF LinkInv, StopInv
    <2>2. LeavesIt(l_toMonitor', l_running, IF l_cpu_stopped /\ ~l_faked THEN 1 ELSE 0)
      BY <1>1, <1>6, <1>7, <2>1, SentLemma
    <2>3. l_running' = l_running /\ l_cpu_stopped' = l_cpu_stopped /\ l_faked' = l_faked
      BY <1>7 DEF Link!machine
    <2>4. FakeInv'
      BY <1>2, <1>8, <2>3 DEF LinkInv, StopInv, FakeInv
    <2> QED
      BY <1>8, <2>2, <2>3, <2>4 DEF StopInv
  <1>11. l_cpu_stopped' \in BOOLEAN /\ l_faked' \in BOOLEAN
    BY <1>1, <1>7 DEF LinkTypes
  <1> QED
    BY <1>2, <1>7, <1>8, <1>9, <1>10, <1>11, QuietStep

\* A chunk of a file, with the processor stopped or not.
LEMMA LoadLemma ==
  ASSUME LinkInv, Link!load_chunk \/ Link!end_load
  PROVE  LinkInv'
  <1>0. /\ LinkTypes /\ l_call \in Calls /\ l_call.at = "load"
        /\ l_cpu_stopped \in BOOLEAN /\ l_faked \in BOOLEAN /\ l_running \in BOOLEAN
        /\ l_toMonitor \in Seq(Commands) /\ FakeInv
        /\ UNCHANGED <<l_calls, l_cpu_stopped, l_faked, l_repeats, l_doubled, l_fromMonitor,
                       Link!machine, l_history>>
    BY DEF LinkInv, LinkTypes, StopInv, Link!load_chunk, Link!end_load, Link!lineVars
  <1>1. l_call.a \in Nat /\ l_call.n \in Nat
    BY <1>0 DEF Calls, Pushing, Link!Idle
  <1>2. LeavesIt(l_toMonitor, l_running, IF l_cpu_stopped /\ ~l_faked THEN 1 ELSE 0)
    BY <1>0 DEF LinkInv, StopInv
  <1>3. CASE Link!load_chunk
    <2> DEFINE n == Link!FileChunk(l_call.a, l_call.n)
               c == Link!L(l_call.a, n, ~l_cpu_stopped \/ l_faked)
    <2>1. n \in Nat /\ n <= l_call.n
      BY <1>1, FileChunkLemma
    <2> HIDE DEF n
    <2>2. c \in Commands /\ c.cmd = "l" /\ (c.hot <=> ~l_cpu_stopped \/ l_faked)
      BY <1>0, <1>1, <2>1, CommandTypes DEF Link!L
    <2> HIDE DEF c
    <2>3. /\ l_toMonitor' = l_toMonitor \o <<c>>
          /\ l_call' = [at |-> "loading", a |-> l_call.a + n, n |-> l_call.n - n]
      BY <1>3 DEF Link!load_chunk, Link!slow_write, n, c
    <2>4. l_toMonitor' = Append(l_toMonitor, c)
      BY <1>0, <2>2, <2>3
    <2>5. l_call' \in Calls /\ l_call'.at = "loading"
      BY <1>1, <2>1, <2>3 DEF Calls
    <2>6. LeavesIt(l_toMonitor', l_running, IF l_cpu_stopped /\ ~l_faked THEN 1 ELSE 0)
      BY <1>0, <1>2, <2>2, <2>4, LeavesAfterOther
    <2>7. StopInv'
      <3>1. FakeInv'
        BY <1>0, <2>5 DEF FakeInv
      <3> QED
        BY <1>0, <2>5, <2>6, <3>1 DEF StopInv, Link!machine
    <2>8. /\ l_toMonitor' \in Seq(Commands) /\ Len(l_toMonitor') >= Len(l_toMonitor)
          /\ \A i \in 1 .. Len(l_toMonitor) : l_toMonitor'[i] = l_toMonitor[i]
          /\ \A i \in Len(l_toMonitor) + 1 .. Len(l_toMonitor') :
               l_toMonitor'[i].cmd \notin {"m", "#"}
      BY <1>0, <2>2, <2>4
    <2> QED
      BY <1>0, <2>5, <2>7, <2>8, QuietStep
  <1>4. CASE Link!end_load
    <2>1. l_call' = Link!Idle /\ l_toMonitor' = l_toMonitor
      BY <1>4 DEF Link!end_load, Link!lineVars
    <2>2. l_call' \in Calls /\ l_call'.at = "idle"
      BY <2>1, CallTypes DEF Link!Idle
    <2>3. StopInv'
      <3>1. FakeInv'
        BY <1>0, <2>2 DEF FakeInv
      <3> QED
        BY <1>0, <1>2, <2>1, <2>2, <3>1 DEF StopInv, Link!machine
    <2> QED
      BY <1>0, <2>1, <2>2, <2>3, QuietStep
  <1> QED
    BY <1>3, <1>4

\* The end of a write, and each wait for an echo, a prompt or the end of a call.
LEMMA WaitsAndEnds ==
  ASSUME LinkInv, \/ Link!end_push \/ Link!wait_for_answer \/ Link!purge
                  \/ Link!repeat_purge \/ Link!end_fetch
  PROVE  LinkInv'
  <1>0. /\ LinkTypes /\ l_call \in Calls /\ l_cpu_stopped \in BOOLEAN
        /\ l_toMonitor \in Seq(Commands) /\ l_fromMonitor \in Seq(Answers)
        /\ l_faked \in BOOLEAN /\ FakeInv
    BY DEF LinkInv, LinkTypes, StopInv
  <1>1. CASE Link!end_push
    <2>1. l_call.at = "chunk"
      BY <1>1 DEF Link!end_push
    <2>2. LeavesIt(l_toMonitor, l_running, IF l_cpu_stopped /\ ~l_faked THEN 1 ELSE 0)
      BY <2>1 DEF LinkInv, StopInv
    <2>3. CASE l_call.saved
      <3>1. l_call' = Link!Idle /\ l_call'.at = "idle" /\ l_call' \in Calls
        BY <1>1, <2>3, CallTypes DEF Link!end_push, Link!Idle
      <3>2. StopInv'
        <4>1. FakeInv'
          BY <1>0, <1>1, <2>1, <3>1 DEF Link!end_push, FakeInv
        <4> QED
          BY <1>1, <2>2, <2>3, <3>1, <4>1 DEF Link!end_push, StopInv, Link!machine
      <3> QED
        BY <1>0, <1>1, <2>1, <2>3, <3>1, <3>2, QuietStep DEF Link!end_push
    <2>4. CASE ~l_call.saved
      <3>1. /\ l_call' = Link!Purge(0, Link!Idle) /\ Link!slow_write(<<Link!T(0)>>)
            /\ l_call' \in Calls /\ l_call'.at = "purge" /\ l_call'.n = 0
        BY <1>1, <2>4, CallTypes DEF Link!end_push
      <3>2. /\ l_toMonitor' \in Seq(Commands) /\ Len(l_toMonitor') = Len(l_toMonitor) + 1
            /\ \A i \in 1 .. Len(l_toMonitor) : l_toMonitor'[i] = l_toMonitor[i]
            /\ l_toMonitor'[Len(l_toMonitor) + 1].cmd = "t"
            /\ LeavesIt(l_toMonitor', l_running, 0)
        BY <1>0, <2>2, <3>1, SentT
      <3>3. StopInv'
        <4>1. ~l_faked /\ l_faked' = l_faked
          BY <1>0, <1>1, <2>1, <2>4 DEF Link!end_push, FakeInv
        <4> QED
          BY <1>1, <3>1, <3>2, <4>1 DEF Link!end_push, StopInv, FakeInv, Link!machine
      <3>4. \A i \in Len(l_toMonitor) + 1 .. Len(l_toMonitor') :
              l_toMonitor'[i].cmd \notin {"m", "#"}
        BY <3>2
      <3>5. UNCHANGED <<l_calls, l_cpu_stopped, l_faked, l_repeats, l_doubled, l_fromMonitor,
                        Link!machine, l_history>>
        BY <1>1 DEF Link!end_push
      <3> QED
        BY <1>0, <2>1, <3>1, <3>2, <3>3, <3>4, <3>5, QuietStep
    <2> QED
      BY <2>3, <2>4
  <1>2. CASE Link!wait_for_answer
    <2>1. /\ l_call.at \in {"echo", "prompt", "loading"} /\ l_fromMonitor # << >>
          /\ l_fromMonitor' = Tail(l_fromMonitor)
          /\ UNCHANGED <<l_calls, l_cpu_stopped, l_faked, l_repeats, l_doubled, l_toMonitor,
                         Link!machine, l_history>>
      BY <1>2 DEF Link!wait_for_answer
    <2>2. \/ l_call \in [at : {"echo", "prompt"}, cmd : Commands, saved : BOOLEAN, a : Nat, n : Nat]
          \/ l_call \in [at : {"load", "loading"}, a : Nat, n : Nat]
      BY <1>0, <2>1 DEF Calls, Pushing, Link!Idle
    <2>3. /\ l_call' \in Calls /\ l_call'.at \in {"echo", "prompt", "chunk", "load", "loading"}
          /\ l_call'.at \in {"chunk", "echo", "prompt"} =>
               l_call.at \in {"echo", "prompt"} /\ l_call'.saved = l_call.saved
      <3>1. CASE l_call \in [at : {"echo", "prompt"}, cmd : Commands, saved : BOOLEAN, a : Nat, n : Nat]
        <4>1. /\ [l_call EXCEPT !.at = "prompt"] \in Calls
              /\ [l_call EXCEPT !.at = "prompt"].saved = l_call.saved
              /\ [l_call EXCEPT !.at = "prompt"].at = "prompt"
          BY <3>1 DEF Calls
        <4>2. /\ Link!PushAt(l_call.a, l_call.n, l_call.saved) \in Calls
              /\ Link!PushAt(l_call.a, l_call.n, l_call.saved).saved = l_call.saved
              /\ Link!PushAt(l_call.a, l_call.n, l_call.saved).at = "chunk"
          BY <3>1, CallTypes DEF Link!PushAt
        <4>3. \/ l_call' = [l_call EXCEPT !.at = "prompt"]
              \/ l_call' = Link!PushAt(l_call.a, l_call.n, l_call.saved)
              \/ l_call' = l_call
          BY <1>2, <3>1 DEF Link!wait_for_answer
        <4> QED
          BY <1>0, <2>1, <3>1, <4>1, <4>2, <4>3
      <3>2. CASE l_call \in [at : {"load", "loading"}, a : Nat, n : Nat]
        <4>1. /\ Link!LoadAt(l_call.a, l_call.n) \in Calls
              /\ Link!LoadAt(l_call.a, l_call.n).at = "load"
          BY <3>2, CallTypes DEF Link!LoadAt
        <4>2. l_call' = Link!LoadAt(l_call.a, l_call.n) \/ l_call' = l_call
          BY <1>2, <2>1, <3>2 DEF Link!wait_for_answer
        <4> QED
          BY <1>0, <2>1, <3>2, <4>1, <4>2
      <3> QED
        BY <2>2, <3>1, <3>2
    <2>4. StopInv'
      <3>1. FakeInv'
        BY <1>0, <2>1, <2>3 DEF FakeInv
      <3> QED
        BY <2>1, <2>3, <3>1 DEF LinkInv, StopInv, Link!machine
    <2>5. l_fromMonitor' = SubSeq(l_fromMonitor, 1 + 1, Len(l_fromMonitor))
          /\ 1 \in 1 .. Len(l_fromMonitor)
      BY <1>0, <2>1, TailLemma
    <2> QED
      BY <1>0, <2>1, <2>3, <2>4, <2>5, QuietStep
  <1>3. CASE Link!purge
    <2>1. /\ l_call.at = "purge"
          /\ UNCHANGED <<l_calls, l_faked, l_repeats, l_doubled, l_toMonitor, Link!machine,
                         l_history>>
          /\ \E k \in 1 .. Len(l_fromMonitor) :
               l_fromMonitor' = SubSeq(l_fromMonitor, k + 1, Len(l_fromMonitor))
          /\ \/ l_cpu_stopped' = (l_call.n = 1) /\ l_call' = l_call.then
             \/ UNCHANGED <<l_call, l_cpu_stopped>>
      BY <1>3 DEF Link!purge
    <2>2. l_call.n \in {0, 1} /\ l_call.then \in {Link!Idle} \cup Pushing
      BY <1>0, <2>1 DEF Calls, Pushing, Link!Idle
    <2>3. l_call.then \in Calls /\ l_call.then.at \in {"idle", "chunk"}
          /\ (l_call.then = Link!Idle => l_call.then.at = "idle")
      BY <2>2 DEF Calls, Pushing, Link!Idle
    <2>4. /\ l_faked => LeavesIt(l_toMonitor, l_running, 0)
          /\ ~l_faked => LeavesIt(l_toMonitor, l_running, l_call.n)
      BY <2>1 DEF LinkInv, StopInv
    <2>5. l_call' \in Calls /\ l_call'.at \in {"idle", "chunk", "purge"}
          /\ l_cpu_stopped' \in BOOLEAN /\ l_faked' \in BOOLEAN
      BY <1>0, <2>1, <2>3
    <2>6. StopInv'
      <3>1. FakeInv'
        BY <1>0, <2>1, <2>3 DEF FakeInv
      <3>2. l_toMonitor' = l_toMonitor /\ l_running' = l_running /\ l_faked' = l_faked
        BY <2>1 DEF Link!machine
      <3>3. CASE l_cpu_stopped' = (l_call.n = 1) /\ l_call' = l_call.then
        BY <1>0, <2>2, <2>3, <2>4, <3>1, <3>2, <3>3 DEF StopInv
      <3>4. CASE UNCHANGED <<l_call, l_cpu_stopped>>
        BY <2>1, <2>4, <3>1, <3>2, <3>4 DEF StopInv
      <3> QED
        BY <2>1, <3>3, <3>4
    <2>7. /\ l_call.at \notin {"sync", "token", "fetch"}
          /\ l_toMonitor' = l_toMonitor
          /\ \E k \in 1 .. Len(l_fromMonitor) :
               l_fromMonitor' = SubSeq(l_fromMonitor, k + 1, Len(l_fromMonitor))
          /\ UNCHANGED <<l_calls, l_faked, l_repeats, l_doubled, Link!machine, l_history>>
      BY <2>1
    <2> HIDE <2>1
    <2> QED
      BY <1>0, <2>5, <2>6, <2>7, QuietStep
  <1>4. CASE Link!end_fetch
    <2>1. /\ l_call.at = "fetched" /\ l_call' = Link!Idle
          /\ UNCHANGED <<l_calls, l_cpu_stopped, l_faked, l_repeats, l_doubled, l_toMonitor,
                         l_fromMonitor, Link!machine, l_history>>
      BY <1>4 DEF Link!end_fetch, Link!lineVars
    <2>2. l_call' \in Calls /\ l_call'.at = "idle"
      BY <2>1, CallTypes DEF Link!Idle
    <2>3. StopInv'
      <3>1. FakeInv'
        BY <1>0, <2>1, <2>2 DEF FakeInv
      <3> QED
        BY <2>1, <2>2, <3>1 DEF LinkInv, StopInv, Link!machine
    <2> QED
      BY <1>0, <2>1, <2>2, <2>3, QuietStep
  <1>5. CASE Link!repeat_purge
    <2>1. /\ l_call.at = "purge" /\ l_call' = l_call /\ ~l_faked' /\ l_faked' \in BOOLEAN
          /\ l_repeats < MaxRepeats /\ l_repeats' = l_repeats + 1
          /\ Link!slow_write(<<Link!T(l_call.n)>>)
          /\ UNCHANGED <<l_calls, l_cpu_stopped, l_doubled, l_fromMonitor, Link!machine,
                         l_history>>
      BY <1>5 DEF Link!repeat_purge
    <2>2. l_call.n \in {0, 1}
      BY <1>0, <2>1 DEF Calls, Pushing, Link!Idle
    <2>3. \E m \in {0, 1} : LeavesIt(l_toMonitor, l_running, m)
      BY <2>1, <2>2 DEF LinkInv, StopInv
    <2>4. /\ l_toMonitor' \in Seq(Commands) /\ Len(l_toMonitor') = Len(l_toMonitor) + 1
          /\ \A i \in 1 .. Len(l_toMonitor) : l_toMonitor'[i] = l_toMonitor[i]
          /\ l_toMonitor'[Len(l_toMonitor) + 1].cmd = "t"
          /\ LeavesIt(l_toMonitor', l_running, l_call.n)
      BY <1>0, <2>1, <2>2, <2>3, SentT
    <2>5. StopInv'
      BY <2>1, <2>4 DEF StopInv, FakeInv, Link!machine
    <2>6. \A i \in Len(l_toMonitor) + 1 .. Len(l_toMonitor') :
            l_toMonitor'[i].cmd \notin {"m", "#"}
      BY <2>4
    <2>7. l_repeats' \in 0 .. MaxRepeats
      BY <1>0, <2>1, LinkSizes DEF LinkTypes, Link!LinkAssumption
    <2> QED
      BY <1>0, <2>1, <2>4, <2>5, <2>6, <2>7, QuietStep
  <1> QED
    BY <1>1, <1>2, <1>3, <1>4, <1>5

\* A request is put on the line, around t1 and t0, once and with no answer to another.
LEMMA RequestLemma ==
  ASSUME NEW q \in Seq(Commands), NEW p \in Seq(Commands), Len(p) >= Len(q),
         \A i \in 1 .. Len(q) : p[i] = q[i],
         NEW a \in Reads, NEW m \in Len(q) + 1 .. Len(p), p[m] = Link!M(a),
         \A i \in Len(q) + 1 .. Len(p) : i # m => p[i].cmd = "t",
         NEW f \in Seq(Answers), NoRequest(q), NoDump(f), NEW values
  PROVE  OneAnswer(p, f, a, values)
  <1>1. \A i \in 1 .. Len(p) : p[i].cmd = "m" => i = m
    <2> SUFFICES ASSUME NEW i \in 1 .. Len(p), p[i].cmd = "m", i # m PROVE FALSE
      OBVIOUS
    <2>1. CASE i \in 1 .. Len(q)
      BY <2>1 DEF NoRequest
    <2>2. CASE i \in Len(q) + 1 .. Len(p)
      BY <2>2
    <2> QED
      BY <2>1, <2>2
  <1>2. p[m].a = a
    BY DEF Link!M
  <1> QED
    BY <1>1, <1>2 DEF OneAnswer, NoDump

LEMMA FetchBegins ==
  ASSUME LinkInv, NEW a \in Reads, Link!BeginFetch(a)
  PROVE  LinkInv'
  <1> DEFINE q == l_toMonitor
             f == l_fromMonitor
             c == [at |-> "fetch", a |-> a]
  <1>0. /\ LinkTypes /\ Link!Begin(c) /\ Link!slow_write_safe(Link!M(a))
        /\ UNCHANGED <<l_cpu_stopped, l_faked, l_repeats, l_doubled, f, Link!machine>>
    BY DEF LinkInv, Link!BeginFetch
  <1>1. /\ q \in Seq(Commands) /\ f \in Seq(Answers)
        /\ Link!M(a) \in Commands /\ Link!M(a).cmd = "m"
    BY <1>0, CommandTypes DEF LinkTypes, Link!M
  <1>2. /\ q' \in Seq(Commands) /\ Len(q') >= Len(q)
        /\ \A i \in 1 .. Len(q) : q'[i] = q[i]
    BY <1>0, <1>1, SentLemma
  <1>3. PICK p \in Len(q) + 1 .. Len(q') :
          q'[p] = Link!M(a) /\ \A i \in Len(q) + 1 .. Len(q') : i # p => q'[i].cmd = "t"
    BY <1>0, <1>1, SentLemma
  <1>4. l_call' = c /\ c \in Calls /\ c.at = "fetch" /\ c.a = a
    BY <1>0, IdleLemma, CallTypes
  <1>5. LinkTypes'
    BY <1>0, <1>2, <1>4, IdleLemma DEF LinkTypes, Link!machine
  <1>6. StopInv'
    <2>1. LeavesIt(q', l_running, IF l_cpu_stopped /\ ~l_faked THEN 1 ELSE 0)
      BY <1>0, <1>1, IdleLemma, SentLemma
    <2> QED
      BY <1>0, <1>4, <2>1, IdleLemma, FakeKept DEF StopInv, Link!machine
  <1>7. FetchInv' /\ FetchedInv'
    <2>1. ASSUME ~l_doubled
          PROVE  OneAnswer(q', f, a, l_history'[a])
      <3>1. NoRequest(q) /\ NoDump(f)
        BY <1>0, <2>1, IdleLemma
      <3> QED
        BY <1>1, <1>2, <1>3, <3>1, RequestLemma
    <2> QED
      BY <1>0, <1>4, <2>1 DEF FetchInv, FetchedInv
  <1>8. TokenInv'
    <2>1. TokensUpTo(q, f, l_calls) /\ l_calls \in Nat /\ l_calls' = l_calls + 1
      BY <1>0, IdleLemma
    <2>2. \A i \in Len(q) + 1 .. Len(q') : q'[i].cmd # "#"
      BY <1>1, <1>3
    <2>3. TokensUpTo(q', f, l_calls')
      BY <1>1, <1>2, <2>1, <2>2, AddingTokens
    <2> QED
      BY <1>0, <1>4, <2>3 DEF TokenInv
  <1> QED
    BY <1>5, <1>6, <1>7, <1>8 DEF LinkInv

\* The first answer that is read is the one that was asked for, and the only one.
LEMMA FetchEnds ==
  ASSUME LinkInv, Link!receive_fetch
  PROVE  LinkInv'
  <1> DEFINE q == l_toMonitor
             f == l_fromMonitor
  <1>0. /\ LinkTypes /\ q \in Seq(Commands) /\ f \in Seq(Answers) /\ l_call \in Calls
        /\ l_call.at = "fetch"
        /\ UNCHANGED <<l_calls, l_cpu_stopped, l_faked, l_repeats, l_doubled, q, Link!machine, l_history>>
    BY DEF LinkInv, LinkTypes, Link!receive_fetch
  <1>1. l_call = [at |-> "fetch", a |-> l_call.a] /\ l_call.a \in Reads
    BY <1>0 DEF Calls, Pushing, Link!Idle
  <1>2. PICK k \in 1 .. Len(f) :
          LET found == {i \in 1 .. k : f[i].is = "dump" /\ f[i].a = l_call.a}
          IN /\ f' = SubSeq(f, k + 1, Len(f))
             /\ l_call' = IF found = {} THEN l_call
                          ELSE [at |-> "fetched", a |-> l_call.a,
                                v |-> f[CHOOSE i \in found : \A j \in found : i <= j].v]
    BY DEF Link!receive_fetch
  <1>3. /\ f' \in Seq(Answers) /\ Len(f') = Len(f) - k
        /\ \A i \in 1 .. Len(f') : f'[i] = f[i + k] /\ i + k \in 1 .. Len(f)
    BY <1>0, <1>2, DroppedLemma
  <1>4. /\ (OneAnswer(q, f, l_call.a, l_history[l_call.a])
            => OneAnswer(q, f', l_call.a, l_history[l_call.a]))
        /\ \A n : TokensUpTo(q, f, n) => TokensUpTo(q, f', n)
    <2>1. f' = SubSeq(f, k + 1, Len(f))
      BY <1>2
    <2>2. \A n : TokensUpTo(q, f, n) => TokensUpTo(q, f', n)
      BY <1>0, <2>1, DroppingKeeps
    <2>3. OneAnswer(q, f, l_call.a, l_history[l_call.a])
            => OneAnswer(q, f', l_call.a, l_history[l_call.a])
      BY <1>0, <2>1, DroppingAnswer
    <2> QED
      BY <2>2, <2>3
  <1>5. ~l_doubled => OneAnswer(q, f, l_call.a, l_history[l_call.a])
    BY <1>0 DEF LinkInv, FetchInv
  <1> DEFINE found == {i \in 1 .. k : f[i].is = "dump" /\ f[i].a = l_call.a}
  <1>6. CASE found = {}
    <2>1. l_call' = l_call
      BY <1>2, <1>6
    <2>2. LinkTypes'
      BY <1>0, <1>3, <2>1 DEF LinkTypes, Link!machine
    <2>3. StopInv'
      BY <1>0, <2>1, FakeKept DEF LinkInv, StopInv, Link!machine
    <2>4. FetchInv' /\ FetchedInv'
      BY <1>0, <1>4, <1>5, <2>1 DEF FetchInv, FetchedInv
    <2>5. TokenInv'
      BY <1>0, <1>4, <2>1 DEF LinkInv, TokenInv
    <2> QED
      BY <2>2, <2>3, <2>4, <2>5 DEF LinkInv
  <1>7. CASE found # {}
    <2> DEFINE m == CHOOSE i \in found : \A j \in found : i <= j
    <2>1. \E i \in found : \A j \in found : i <= j
      <3>1. found \in SUBSET Nat
        OBVIOUS
      <3> HIDE DEF found
      <3> QED
        BY <1>7, <3>1, FirstOf
    <2>2. m \in found
      BY <2>1
    <2>3. l_call' = [at |-> "fetched", a |-> l_call.a, v |-> f[m].v]
      BY <1>2, <1>7
    <2> HIDE DEF m
    <2>4. m \in 1 .. Len(f) /\ m <= k /\ f[m].is = "dump" /\ f[m] \in Answers
      BY <1>0, <2>2
    <2>5. f[m].v \in Values
      BY <2>4 DEF Answers, Link!Prompt
    <2>6. l_call' \in Calls
      BY <1>1, <2>3, <2>5 DEF Calls
    <2>7. LinkTypes'
      BY <1>0, <1>3, <2>6 DEF LinkTypes, Link!machine
    <2>8. StopInv'
      BY <1>0, <2>3, FakeKept DEF LinkInv, StopInv, Link!machine
    <2>9. FetchInv' /\ FetchedInv'
      <3> SUFFICES ASSUME ~l_doubled
                   PROVE  NoRequest(q) /\ NoDump(f') /\ f[m].v \in l_history[l_call.a]
        BY <1>0, <2>3 DEF FetchInv, FetchedInv
      <3>1. f[m].v \in l_history[l_call.a] /\ \A j \in 1 .. Len(f) : f[j].is = "dump" => j = m
        BY <1>5, <2>4 DEF OneAnswer
      <3>2. NoRequest(q)
        BY <1>5, <2>4 DEF OneAnswer, NoRequest, NoDump
      <3>3. NoDump(f')
        <4> SUFFICES ASSUME NEW i \in 1 .. Len(f'), f'[i].is = "dump" PROVE FALSE
          BY DEF NoDump
        <4>1. i + k = m
          BY <1>3, <3>1
        <4> QED
          BY <2>4, <4>1
      <3> QED
        BY <3>1, <3>2, <3>3
    <2>10. TokenInv'
      BY <1>0, <1>4, <2>3 DEF LinkInv, TokenInv
    <2> QED
      BY <2>7, <2>8, <2>9, <2>10 DEF LinkInv
  <1> QED
    BY <1>6, <1>7

\* A request that is repeated: from now on answers may come twice.
LEMMA FetchAgain ==
  ASSUME LinkInv, Link!repeat_fetch
  PROVE  LinkInv'
  <1> DEFINE q == l_toMonitor
             f == l_fromMonitor
             c == Link!M(l_call.a)
  <1>0. /\ LinkTypes /\ l_call.at = "fetch" /\ l_call \in Calls
        /\ l_repeats < MaxRepeats /\ l_repeats' = l_repeats + 1 /\ l_doubled' = TRUE
        /\ Link!slow_write_safe(c)
        /\ UNCHANGED <<l_call, l_calls, l_cpu_stopped, l_faked, f, Link!machine, l_history>>
    BY DEF LinkInv, LinkTypes, Link!repeat_fetch
  <1>1. l_call.a \in Reads
    BY <1>0 DEF Calls, Pushing, Link!Idle
  <1>2. q \in Seq(Commands) /\ f \in Seq(Answers) /\ c \in Commands /\ c.cmd = "m"
    BY <1>0, <1>1, CommandTypes DEF LinkTypes, Link!M
  <1>3. /\ q' \in Seq(Commands) /\ Len(q') >= Len(q)
        /\ \A i \in 1 .. Len(q) : q'[i] = q[i]
        /\ \A i \in Len(q) + 1 .. Len(q') : q'[i].cmd # "#"
    BY <1>0, <1>2, SentLemma
  <1>4. LinkTypes'
    <2>1. l_repeats' \in 0 .. MaxRepeats
      BY <1>0, LinkSizes DEF LinkTypes, Link!LinkAssumption
    <2> QED
      BY <1>0, <1>3, <2>1 DEF LinkTypes, Link!machine
  <1>5. StopInv'
    <2>1. LeavesIt(q, l_running, IF l_cpu_stopped /\ ~l_faked THEN 1 ELSE 0)
      BY <1>0 DEF LinkInv, StopInv
    <2>2. LeavesIt(q', l_running, IF l_cpu_stopped /\ ~l_faked THEN 1 ELSE 0)
      BY <1>0, <1>2, <2>1, SentLemma
    <2> QED
      BY <1>0, <2>2, FakeKept DEF StopInv, Link!machine
  <1>6. FetchInv' /\ FetchedInv'
    BY <1>0 DEF FetchInv, FetchedInv
  <1>7. TokenInv'
    <2>1. TokensUpTo(q, f, l_calls) /\ l_calls \in Int
      BY <1>0, LinkSizes DEF LinkInv, TokenInv, LinkTypes, Link!LinkAssumption
    <2>2. TokensUpTo(q', f, l_calls)
      <3>1. /\ l_calls \in Int /\ l_calls <= l_calls
            /\ \A i \in Len(q) + 1 .. Len(q') : q'[i].cmd = "#" => q'[i].n <= l_calls
        BY <1>3, <2>1
      <3> HIDE DEF q, f
      <3> QED
        BY <1>2, <1>3, <2>1, <3>1, AddingTokens
    <2> QED
      BY <1>0, <2>2 DEF TokenInv
  <1> QED
    BY <1>4, <1>5, <1>6, <1>7 DEF LinkInv

\* A comment is put on the line, around t1 and t0.
LEMMA CommentSent ==
  ASSUME LinkTypes, NEW n \in Nat, Link!slow_write_safe(Link!Token(n))
  PROVE  /\ l_toMonitor' \in Seq(Commands) /\ Len(l_toMonitor') >= Len(l_toMonitor)
         /\ \A i \in 1 .. Len(l_toMonitor) : l_toMonitor'[i] = l_toMonitor[i]
         /\ \A i \in Len(l_toMonitor) + 1 .. Len(l_toMonitor') :
              /\ l_toMonitor'[i].cmd # "m"
              /\ l_toMonitor'[i].cmd = "#" => l_toMonitor'[i].n = n
         /\ LET m == IF l_cpu_stopped /\ ~l_faked THEN 1 ELSE 0 IN
            LeavesIt(l_toMonitor, l_running, m) => LeavesIt(l_toMonitor', l_running, m)
  <1> DEFINE c == Link!Token(n)
  <1>1. c \in Commands /\ c.cmd = "#" /\ c.n = n
    BY CommandTypes DEF Link!Token
  <1> HIDE DEF c
  <1>2. Link!slow_write_safe(c)
    BY DEF c
  <1>3. PICK p \in Len(l_toMonitor) + 1 .. Len(l_toMonitor') :
          /\ l_toMonitor'[p] = c
          /\ \A i \in Len(l_toMonitor) + 1 .. Len(l_toMonitor') :
               i # p => l_toMonitor'[i].cmd = "t"
    BY <1>1, <1>2, SentLemma
  <1>4. \A i \in Len(l_toMonitor) + 1 .. Len(l_toMonitor') :
          /\ l_toMonitor'[i].cmd # "m"
          /\ l_toMonitor'[i].cmd = "#" => l_toMonitor'[i].n = n
    BY <1>1, <1>3
  <1> QED
    BY <1>1, <1>2, <1>4, SentLemma

LEMMA SyncBegins ==
  ASSUME LinkInv, Link!BeginSync
  PROVE  LinkInv'
  <1> DEFINE q == l_toMonitor
             f == l_fromMonitor
  <1>0. /\ LinkTypes /\ Link!Begin([at |-> "sync"]) /\ Link!slow_write_safe(Link!Token(0))
        /\ f' = << >> /\ UNCHANGED <<l_cpu_stopped, l_faked, l_repeats, l_doubled, Link!machine>>
    BY DEF LinkInv, Link!BeginSync
  <1>1. /\ l_call' = [at |-> "sync"] /\ l_call' \in Calls
        /\ l_calls \in Nat /\ l_calls' = l_calls + 1 /\ l_calls' \in 0 .. MaxCalls
        /\ ~l_doubled => NoRequest(q)
        /\ TokensUpTo(q, f, l_calls)
        /\ LeavesIt(q, l_running, IF l_cpu_stopped /\ ~l_faked THEN 1 ELSE 0)
    BY <1>0, IdleLemma, CallTypes
  <1>2. /\ q' \in Seq(Commands) /\ Len(q') >= Len(q)
        /\ \A i \in 1 .. Len(q) : q'[i] = q[i]
        /\ \A i \in Len(q) + 1 .. Len(q') :
             q'[i].cmd # "m" /\ (q'[i].cmd = "#" => q'[i].n = 0)
    BY <1>0, CommentSent
  <1>3. q \in Seq(Commands) /\ f' \in Seq(Answers) /\ Len(f') = 0
    BY <1>0 DEF LinkTypes
  <1>4. LinkTypes'
    BY <1>0, <1>1, <1>2, <1>3, IdleLemma DEF LinkTypes, Link!machine
  <1>5. StopInv'
    <2>1. LeavesIt(q', l_running, IF l_cpu_stopped /\ ~l_faked THEN 1 ELSE 0)
      BY <1>0, <1>1, CommentSent
    <2> QED
      BY <1>0, <1>1, <2>1, IdleLemma, FakeKept DEF StopInv, Link!machine
  <1>6. FetchInv' /\ FetchedInv'
    <2>1. NoDump(f')
      BY <1>3 DEF NoDump
    <2>2. NoRequest(q) => NoRequest(q')
      BY <1>2, <1>3, AddingKeeps
    <2> QED
      BY <1>0, <1>1, <2>1, <2>2 DEF FetchInv, FetchedInv
  <1>7. TokenInv'
    <2>1. TokensUpTo(q, f', l_calls)
      BY <1>1, <1>3 DEF TokensUpTo
    <2>2. TokensUpTo(q', f', l_calls)
      <3>1. /\ l_calls \in Int /\ l_calls \in Int /\ l_calls <= l_calls
            /\ \A i \in Len(q) + 1 .. Len(q') : q'[i].cmd = "#" => q'[i].n <= l_calls
        BY <1>1, <1>2
      <3> HIDE DEF q, f
      <3> QED
        BY <1>2, <1>3, <2>1, <3>1, AddingTokens
    <2>3. l_calls' - 1 = l_calls /\ l_calls' > 0
      BY <1>1
    <2> QED
      BY <1>1, <2>2, <2>3 DEF TokenInv
  <1> QED
    BY <1>4, <1>5, <1>6, <1>7 DEF LinkInv

\* The first comment of its number: nothing else has that number.
LEMMA TokenIsSent ==
  ASSUME LinkInv, Link!send_token
  PROVE  LinkInv'
  <1> DEFINE q == l_toMonitor
             f == l_fromMonitor
  <1>0. /\ LinkTypes /\ l_call.at = "sync" /\ f' = << >> /\ l_call' = [at |-> "token"]
        /\ Link!slow_write_safe(Link!Token(l_calls))
        /\ UNCHANGED <<l_calls, l_cpu_stopped, l_faked, l_repeats, l_doubled, Link!machine, l_history>>
    BY DEF LinkInv, Link!send_token
  <1>1. /\ l_calls \in Nat /\ l_calls > 0 /\ TokensUpTo(q, f, l_calls - 1)
        /\ ~l_doubled => NoRequest(q)
        /\ LeavesIt(q, l_running, IF l_cpu_stopped /\ ~l_faked THEN 1 ELSE 0)
    BY <1>0, LinkSizes
       DEF LinkInv, LinkTypes, StopInv, FetchInv, TokenInv, Link!LinkAssumption
  <1>2. /\ q' \in Seq(Commands) /\ Len(q') >= Len(q)
        /\ \A i \in 1 .. Len(q) : q'[i] = q[i]
        /\ \A i \in Len(q) + 1 .. Len(q') :
             q'[i].cmd # "m" /\ (q'[i].cmd = "#" => q'[i].n = l_calls)
    BY <1>0, <1>1, CommentSent
  <1>3. q \in Seq(Commands) /\ f' \in Seq(Answers) /\ Len(f') = 0
    BY <1>0 DEF LinkTypes
  <1>4. LinkTypes'
    BY <1>0, <1>2, <1>3, CallTypes DEF LinkTypes, Link!machine
  <1>5. StopInv'
    <2>1. LeavesIt(q', l_running, IF l_cpu_stopped /\ ~l_faked THEN 1 ELSE 0)
      BY <1>0, <1>1, CommentSent
    <2> QED
      BY <1>0, <2>1, FakeKept DEF StopInv, Link!machine
  <1>6. FetchInv' /\ FetchedInv'
    <2>1. NoDump(f')
      BY <1>3 DEF NoDump
    <2>2. NoRequest(q) => NoRequest(q')
      BY <1>2, <1>3, AddingKeeps
    <2> QED
      BY <1>0, <1>1, <2>1, <2>2 DEF FetchInv, FetchedInv
  <1>7. TokenInv'
    <2>1. TokensUpTo(q, f', l_calls - 1)
      BY <1>1, <1>3 DEF TokensUpTo
    <2>2. TokensUpTo(q', f', l_calls)
      <3>1. /\ l_calls \in Int /\ l_calls - 1 \in Int /\ l_calls - 1 <= l_calls
            /\ \A i \in Len(q) + 1 .. Len(q') : q'[i].cmd = "#" => q'[i].n <= l_calls
        BY <1>1, <1>2
      <3> HIDE DEF q, f
      <3> QED
        BY <1>2, <1>3, <2>1, <3>1, AddingTokens
    <2>3. LastIsToken(q', f', l_calls)
      <3>1. ASSUME NEW i \in 1 .. Len(q'), NEW j \in 1 .. Len(q'), i < j,
                   q'[i] = Link!Token(l_calls)
            PROVE  q'[j].cmd # "m"
        <4>1. q'[i].cmd = "#" /\ q'[i].n = l_calls
          BY <3>1 DEF Link!Token
        <4>2. i \notin 1 .. Len(q)
          <5> SUFFICES ASSUME i \in 1 .. Len(q) PROVE FALSE
            OBVIOUS
          <5>1. q[i].cmd = "#" /\ q[i].n = l_calls
            BY <1>2, <4>1
          <5> QED
            BY <1>1, <5>1 DEF TokensUpTo
        <4>3. j \in Len(q) + 1 .. Len(q')
          BY <3>1, <4>2, <1>3
        <4> QED
          BY <1>2, <4>3
      <3> QED
        BY <1>3, <3>1 DEF LastIsToken
    <2> QED
      BY <1>0, <1>1, <2>2, <2>3 DEF TokenInv
  <1> QED
    BY <1>4, <1>5, <1>6, <1>7 DEF LinkInv

LEMMA TokenAgain ==
  ASSUME LinkInv, Link!repeat_token
  PROVE  LinkInv'
  <1> DEFINE q == l_toMonitor
             f == l_fromMonitor
  <1>0. /\ LinkTypes /\ l_call.at = "token" /\ l_repeats < MaxRepeats
        /\ l_repeats' = l_repeats + 1 /\ Link!slow_write_safe(Link!Token(l_calls))
        /\ UNCHANGED <<l_call, l_calls, l_cpu_stopped, l_faked, l_doubled, f, Link!machine, l_history>>
    BY DEF LinkInv, Link!repeat_token
  <1>1. /\ l_calls \in Nat /\ l_calls > 0 /\ TokensUpTo(q, f, l_calls)
        /\ LastIsToken(q, f, l_calls)
        /\ ~l_doubled => NoRequest(q) /\ NoDump(f)
        /\ LeavesIt(q, l_running, IF l_cpu_stopped /\ ~l_faked THEN 1 ELSE 0)
    BY <1>0, LinkSizes
       DEF LinkInv, LinkTypes, StopInv, FetchInv, TokenInv, Link!LinkAssumption
  <1>2. /\ q' \in Seq(Commands) /\ Len(q') >= Len(q)
        /\ \A i \in 1 .. Len(q) : q'[i] = q[i]
        /\ \A i \in Len(q) + 1 .. Len(q') :
             q'[i].cmd # "m" /\ (q'[i].cmd = "#" => q'[i].n = l_calls)
    BY <1>0, <1>1, CommentSent
  <1>3. q \in Seq(Commands) /\ f \in Seq(Answers)
    BY <1>0 DEF LinkTypes
  <1>4. LinkTypes'
    <2>1. l_repeats' \in 0 .. MaxRepeats
      BY <1>0, LinkSizes DEF LinkTypes, Link!LinkAssumption
    <2> QED
      BY <1>0, <1>2, <2>1 DEF LinkTypes, Link!machine
  <1>5. StopInv'
    <2>1. LeavesIt(q', l_running, IF l_cpu_stopped /\ ~l_faked THEN 1 ELSE 0)
      BY <1>0, <1>1, CommentSent
    <2> QED
      BY <1>0, <2>1, FakeKept DEF StopInv, Link!machine
  <1>6. FetchInv' /\ FetchedInv'
    <2>1. NoRequest(q) => NoRequest(q')
      BY <1>2, <1>3, AddingKeeps
    <2> QED
      BY <1>0, <1>1, <2>1 DEF FetchInv, FetchedInv
  <1>7. TokenInv'
    <2>0. /\ l_calls \in Int /\ l_calls <= l_calls
          /\ \A i \in Len(q) + 1 .. Len(q') : q'[i].cmd = "#" => q'[i].n <= l_calls
      BY <1>1, <1>2
    <2>1. TokensUpTo(q', f, l_calls)
      <3> HIDE DEF q, f
      <3> QED
        BY <1>1, <1>2, <1>3, <2>0, AddingTokens
    <2>2. LastIsToken(q', f, l_calls)
      BY <1>1, <1>2, <1>3, AddingKeeps
    <2> QED
      BY <1>0, <1>1, <2>1, <2>2 DEF TokenInv
  <1> QED
    BY <1>4, <1>5, <1>6, <1>7 DEF LinkInv

\* With the echo of the last comment, the answers to all requests have been read.
LEMMA TokenComesBack ==
  ASSUME LinkInv, Link!receive_token
  PROVE  LinkInv'
  <1> DEFINE q == l_toMonitor
             f == l_fromMonitor
  <1>0. /\ LinkTypes /\ l_call.at = "token"
        /\ UNCHANGED <<l_calls, l_cpu_stopped, l_faked, l_repeats, q, Link!machine, l_history>>
    BY DEF LinkInv, Link!receive_token
  <1>1. /\ l_calls > 0 /\ TokensUpTo(q, f, l_calls)
        /\ LastIsToken(q, f, l_calls)
        /\ ~l_doubled => NoRequest(q) /\ NoDump(f)
        /\ LeavesIt(q, l_running, IF l_cpu_stopped /\ ~l_faked THEN 1 ELSE 0)
    BY <1>0 DEF LinkInv, StopInv, FetchInv, TokenInv
  <1>2. q \in Seq(Commands) /\ f \in Seq(Answers)
    BY <1>0 DEF LinkTypes
  <1>3. PICK k \in 1 .. Len(f) :
          /\ f' = SubSeq(f, k + 1, Len(f))
          /\ IF \E i \in 1 .. k : f[i] = Link!EchoOf(Link!Token(l_calls))
             THEN l_call' = Link!Idle /\ l_doubled' = FALSE
             ELSE UNCHANGED <<l_call, l_doubled>>
    BY DEF Link!receive_token
  <1>4. f' = SubSeq(f, k + 1, Len(f))
    BY <1>3
  <1>5. /\ f' \in Seq(Answers) /\ (NoDump(f) => NoDump(f'))
        /\ TokensUpTo(q, f', l_calls) /\ LastIsToken(q, f', l_calls)
    <2>1. TokensUpTo(q, f, l_calls) => TokensUpTo(q, f', l_calls)
      BY <1>2, <1>4, DroppingKeeps
    <2>2. LastIsToken(q, f, l_calls) => LastIsToken(q, f', l_calls)
      BY <1>2, <1>4, DroppingKeeps
    <2>3. f' \in Seq(Answers)
      BY <1>2, <1>4, DroppedLemma
    <2>4. NoDump(f) => NoDump(f')
      BY <1>2, <1>4, DroppingKeeps
    <2> QED
      BY <1>1, <2>1, <2>2, <2>3, <2>4
  <1>6. CASE \E i \in 1 .. k : f[i] = Link!EchoOf(Link!Token(l_calls))
    <2>1. PICK i \in 1 .. k : f[i] = Link!EchoOf(Link!Token(l_calls))
      BY <1>6
    <2>2. l_call' = Link!Idle /\ l_doubled' = FALSE /\ l_call'.at = "idle"
      BY <1>3, <1>6 DEF Link!Idle
    <2>3. i \in 1 .. Len(f)
      BY <1>2
    <2>4. NoRequest(q) /\ \A j \in i + 1 .. Len(f) : f[j].is # "dump"
      BY <1>1, <2>1, <2>3 DEF LastIsToken
    <2>5. NoDump(f')
      <3>1. \A j \in 1 .. Len(f') : f'[j] = f[j + k] /\ j + k \in i + 1 .. Len(f)
        BY <1>2, <1>4
      <3> QED
        BY <2>4, <3>1 DEF NoDump
    <2>6. LinkTypes'
      BY <1>0, <1>5, <2>2, CallTypes DEF LinkTypes, Link!machine
    <2>7. StopInv'
      BY <1>0, <1>1, <2>2, FakeKept DEF StopInv, Link!machine
    <2>8. FetchInv' /\ FetchedInv'
      BY <1>0, <2>2, <2>4, <2>5 DEF FetchInv, FetchedInv
    <2>9. TokenInv'
      BY <1>0, <1>5, <2>2 DEF TokenInv
    <2> QED
      BY <2>6, <2>7, <2>8, <2>9 DEF LinkInv
  <1>7. CASE ~ \E i \in 1 .. k : f[i] = Link!EchoOf(Link!Token(l_calls))
    <2>1. UNCHANGED <<l_call, l_doubled>>
      BY <1>3, <1>7
    <2>2. LinkTypes'
      BY <1>0, <1>5, <2>1 DEF LinkTypes, Link!machine
    <2>3. StopInv'
      BY <1>0, <1>1, <2>1, FakeKept DEF StopInv, Link!machine
    <2>4. FetchInv' /\ FetchedInv'
      BY <1>0, <1>1, <1>5, <2>1 DEF FetchInv, FetchedInv
    <2>5. TokenInv'
      BY <1>0, <1>1, <1>5, <2>1 DEF TokenInv
    <2> QED
      BY <2>2, <2>3, <2>4, <2>5 DEF LinkInv
  <1> QED
    BY <1>6, <1>7

\* The echo of a command: the command as it was sent.
LEMMA EchoLemma ==
  ASSUME NEW c \in Commands
  PROVE  /\ Link!EchoOf(c) \in [is : {"echo"}, of : Commands]
         /\ Link!EchoOf(c).of.cmd = c.cmd
         /\ c.cmd # "l" => Link!EchoOf(c).of = c
  <1>1. CASE c.cmd = "l"
    <2>1. c.a \in Nat /\ c.n \in Nat
      BY <1>1 DEF Commands
    <2>2. Link!L(c.a, c.n, FALSE) \in Commands /\ Link!L(c.a, c.n, FALSE).cmd = "l"
      BY <2>1, CommandTypes DEF Link!L
    <2> QED
      BY <1>1, <2>2 DEF Link!EchoOf
  <1>2. CASE c.cmd # "l"
    BY <1>2 DEF Link!EchoOf
  <1> QED
    BY <1>1, <1>2

\* What the monitor adds to its answers: the echo, what was asked for, and a prompt.
LEMMA AnswersLemma ==
  ASSUME LinkTypes, Link!Monitor, NEW c, c = l_toMonitor[1]
  PROVE  /\ c \in Commands /\ l_toMonitor # << >>
         /\ l_toMonitor' \in Seq(Commands) /\ Len(l_toMonitor') = Len(l_toMonitor) - 1
         /\ \A i \in 1 .. Len(l_toMonitor') :
              l_toMonitor'[i] = l_toMonitor[i + 1] /\ i + 1 \in 1 .. Len(l_toMonitor)
         /\ l_fromMonitor' \in Seq(Answers)
         /\ Len(l_fromMonitor') =
              IF c.cmd = "m" THEN Len(l_fromMonitor) + 3 ELSE Len(l_fromMonitor) + 2
         /\ \A i \in 1 .. Len(l_fromMonitor) : l_fromMonitor'[i] = l_fromMonitor[i]
         /\ l_fromMonitor'[Len(l_fromMonitor) + 1] = Link!EchoOf(c)
         /\ c.cmd = "m" =>
              /\ l_fromMonitor'[Len(l_fromMonitor) + 2] = Link!Dump(c.a, l_ram[c.a])
              /\ l_fromMonitor'[Len(l_fromMonitor) + 3] = Link!Prompt
              /\ c.a \in Reads /\ c.a \in Link!Addresses
         /\ c.cmd # "m" => l_fromMonitor'[Len(l_fromMonitor) + 2] = Link!Prompt
  <1> DEFINE q == l_toMonitor
             f == l_fromMonitor
  <1>1. /\ q \in Seq(Commands) /\ q # << >> /\ f \in Seq(Answers) /\ q' = Tail(q)
        /\ Head(q) = c /\ l_ram \in [Link!Addresses -> Values]
    BY DEF LinkTypes, Link!Monitor
  <1>2. c \in Commands
    BY <1>1
  <1>3. Link!EchoOf(c) \in Answers /\ Link!Prompt \in Answers
    BY <1>2, EchoLemma DEF Answers
  <1>4. CASE c.cmd = "m"
    <2>1. f' = f \o <<Link!EchoOf(c)>> \o <<Link!Dump(c.a, l_ram[c.a])>> \o <<Link!Prompt>>
      BY <1>1, <1>4 DEF Link!Monitor
    <2>2. c.a \in Reads /\ c.a \in Link!Addresses
      BY <1>2, <1>4 DEF Commands, Link!Addresses
    <2>3. Link!Dump(c.a, l_ram[c.a]) \in Answers
      BY <1>1, <2>2 DEF Answers, Link!Dump
    <2>4. /\ f' \in Seq(Answers) /\ Len(f') = Len(f) + 3
          /\ \A i \in 1 .. Len(f) : f'[i] = f[i]
          /\ f'[Len(f) + 1] = Link!EchoOf(c)
          /\ f'[Len(f) + 2] = Link!Dump(c.a, l_ram[c.a])
          /\ f'[Len(f) + 3] = Link!Prompt
      BY <1>1, <1>3, <2>1, <2>3
    <2> QED
      BY <1>1, <1>2, <1>4, <2>2, <2>4
  <1>5. CASE c.cmd # "m"
    <2>1. f' = f \o <<Link!EchoOf(c)>> \o << >> \o <<Link!Prompt>>
      BY <1>1, <1>5 DEF Link!Monitor
    <2>2. /\ f' \in Seq(Answers) /\ Len(f') = Len(f) + 2
          /\ \A i \in 1 .. Len(f) : f'[i] = f[i]
          /\ f'[Len(f) + 1] = Link!EchoOf(c)
          /\ f'[Len(f) + 2] = Link!Prompt
      BY <1>1, <1>3, <2>1
    <2> QED
      BY <1>1, <1>2, <1>5, <2>2
  <1> QED
    BY <1>4, <1>5

\* The monitor executes a command.
LEMMA MonitorStep ==
  ASSUME LinkInv, Link!Monitor
  PROVE  LinkInv'
  <1> DEFINE q == l_toMonitor
             f == l_fromMonitor
             c == q[1]
  <1>0. /\ LinkTypes /\ q \in Seq(Commands) /\ f \in Seq(Answers)
        /\ l_ram \in [Link!Addresses -> Values]
        /\ l_history \in [Link!Addresses -> SUBSET Values]
        /\ l_running \in BOOLEAN
        /\ UNCHANGED <<l_call, l_calls, l_cpu_stopped, l_faked, l_repeats, l_doubled, l_version>>
    BY DEF LinkInv, LinkTypes, Link!Monitor
  <1>1. /\ c \in Commands /\ q # << >>
        /\ q' \in Seq(Commands) /\ Len(q') = Len(q) - 1
        /\ \A i \in 1 .. Len(q') : q'[i] = q[i + 1] /\ i + 1 \in 1 .. Len(q)
    BY <1>0, AnswersLemma
  <1>2. /\ f' \in Seq(Answers)
        /\ Len(f') = IF c.cmd = "m" THEN Len(f) + 3 ELSE Len(f) + 2
        /\ \A i \in 1 .. Len(f) : f'[i] = f[i]
        /\ f'[Len(f) + 1] = Link!EchoOf(c)
    BY <1>0, AnswersLemma
  <1>3. /\ c.cmd = "m" =>
             /\ f'[Len(f) + 2] = Link!Dump(c.a, l_ram[c.a]) /\ f'[Len(f) + 3] = Link!Prompt
             /\ c.a \in Reads /\ c.a \in Link!Addresses
        /\ c.cmd # "m" => f'[Len(f) + 2] = Link!Prompt
    BY <1>0, AnswersLemma
  <1>4. /\ q' = Tail(q) /\ Head(q) = c
        /\ l_running' = IF c.cmd = "t" THEN c.n = 0 ELSE l_running
        /\ l_ram' = IF c.cmd = "l"
                    THEN [a \in Link!Addresses |->
                            IF a \in c.a .. c.a + c.n - 1 THEN Link!Pushed ELSE l_ram[a]]
                    ELSE l_ram
        /\ l_history' = [a \in Link!Addresses |-> l_history[a] \cup {l_ram'[a]}]
    BY <1>0, <1>1 DEF Link!Monitor
  <1>5. /\ l_ram' \in [Link!Addresses -> Values]
        /\ l_history' \in [Link!Addresses -> SUBSET Values]
        /\ \A a \in Link!Addresses : l_ram'[a] \in l_history'[a]
        /\ \A a \in Link!Addresses : l_history[a] \subseteq l_history'[a]
    <2>1. Link!Pushed \in Values
      BY DEF Values
    <2>2. l_ram' \in [Link!Addresses -> Values]
      BY <1>0, <1>4, <2>1
    <2> QED
      BY <1>0, <1>4, <2>2
  <1>6. l_running' \in BOOLEAN
    BY <1>0, <1>4
  <1>7. LinkTypes'
    BY <1>0, <1>1, <1>2, <1>5, <1>6 DEF LinkTypes
  <1>8. StopInv'
    <2> DEFINE n == IF l_call.at = "purge" /\ ~l_faked THEN l_call.n
                    ELSE IF l_cpu_stopped /\ ~l_faked THEN 1 ELSE 0
    <2>1. n \in {0, 1}
      BY <1>0 DEF LinkTypes, Calls, Pushing, Link!Idle
    <2>2. LeavesIt(q, l_running, n)
      BY DEF LinkInv, StopInv
    <2>3. l_running' <=> (IF q[1].cmd = "t" THEN q[1].n = 0 ELSE l_running)
      BY <1>4
    <2> HIDE DEF n
    <2>4. LeavesIt(q', l_running', n)
      BY <1>0, <1>1, <1>4, <1>6, <2>1, <2>2, <2>3, LeavesAfterFirst
    <2> QED
      BY <1>0, <2>4 DEF LinkInv, StopInv, FakeInv, n
  <1>9. \A i \in 1 .. Len(f') :
          \/ i \in 1 .. Len(f) /\ f'[i] = f[i]
          \/ i = Len(f) + 1 /\ f'[i] = Link!EchoOf(c)
          \/ i = Len(f) + 2 /\ c.cmd = "m" /\ f'[i] = Link!Dump(c.a, l_ram[c.a])
          \/ i > Len(f) + 1 /\ f'[i] = Link!Prompt
    <2> SUFFICES ASSUME NEW i \in 1 .. Len(f')
                 PROVE  \/ i \in 1 .. Len(f) /\ f'[i] = f[i]
                        \/ i = Len(f) + 1 /\ f'[i] = Link!EchoOf(c)
                        \/ i = Len(f) + 2 /\ c.cmd = "m" /\ f'[i] = Link!Dump(c.a, l_ram[c.a])
                        \/ i > Len(f) + 1 /\ f'[i] = Link!Prompt
      OBVIOUS
    <2>1. i \in 1 .. Len(f) \/ i = Len(f) + 1 \/ i = Len(f) + 2 \/ (i = Len(f) + 3 /\ c.cmd = "m")
      BY <1>0, <1>2
    <2> QED
      BY <1>0, <1>2, <1>3, <2>1
  <1>10. /\ Link!EchoOf(c).is = "echo" /\ Link!EchoOf(c).of.cmd = c.cmd
         /\ c.cmd # "l" => Link!EchoOf(c).of = c
         /\ Link!Prompt.is = "prompt"
         /\ Link!Dump(c.a, l_ram[c.a]).is = "dump" /\ Link!Dump(c.a, l_ram[c.a]).a = c.a
         /\ Link!Dump(c.a, l_ram[c.a]).v = l_ram[c.a]
    BY <1>1, EchoLemma DEF Link!Prompt, Link!Dump
  <1>11. /\ NoRequest(q) => NoRequest(q') /\ c.cmd # "m"
         /\ NoDump(f) /\ c.cmd # "m" => NoDump(f')
    <2>1. NoRequest(q) => NoRequest(q') /\ c.cmd # "m"
      BY <1>0, <1>1 DEF NoRequest
    <2>2. NoDump(f) /\ c.cmd # "m" => NoDump(f')
      BY <1>9, <1>10 DEF NoDump
    <2> QED
      BY <2>1, <2>2
  <1>12. ASSUME NEW a \in Reads, NEW old, NEW new, OneAnswer(q, f, a, old), old \subseteq new,
                l_ram[a] \in new
         PROVE  OneAnswer(q', f', a, new)
    <2>1. CASE c.cmd = "m"
      <3>1. c.a = a /\ NoDump(f) /\ \A j \in 1 .. Len(q) : q[j].cmd = "m" => j = 1
        BY <1>0, <1>1, <1>12, <2>1 DEF OneAnswer
      <3>2. \A i \in 1 .. Len(q') : q'[i].cmd # "m"
        <4> SUFFICES ASSUME NEW i \in 1 .. Len(q'), q'[i].cmd = "m" PROVE FALSE
          OBVIOUS
        <4>1. i + 1 = 1
          BY <1>1, <3>1
        <4> QED
          BY <4>1
      <3>3. \A i \in 1 .. Len(f') : f'[i].is = "dump" =>
              i = Len(f) + 2 /\ f'[i] = Link!Dump(c.a, l_ram[c.a])
        BY <1>9, <1>10, <3>1 DEF NoDump
      <3> QED
        BY <1>10, <1>12, <3>1, <3>2, <3>3 DEF OneAnswer
    <2>2. CASE c.cmd # "m"
      <3>1. \A i \in 1 .. Len(f') : f'[i].is = "dump" => i \in 1 .. Len(f) /\ f'[i] = f[i]
        BY <1>9, <1>10, <2>2
      <3>2. ASSUME NEW i \in 1 .. Len(f'), f'[i].is = "dump"
            PROVE  /\ f'[i].a = a /\ f'[i].v \in new
                   /\ \A j \in 1 .. Len(f') : f'[j].is = "dump" => j = i
        <4>1. i \in 1 .. Len(f) /\ f'[i] = f[i]
          BY <3>1, <3>2
        <4>2. /\ f[i].a = a /\ f[i].v \in old
              /\ \A j \in 1 .. Len(f) : f[j].is = "dump" => j = i
          BY <1>12, <3>2, <4>1 DEF OneAnswer
        <4> QED
          BY <1>12, <3>1, <4>1, <4>2
      <3>3. ASSUME NEW i \in 1 .. Len(q'), q'[i].cmd = "m"
            PROVE  /\ q'[i].a = a /\ NoDump(f')
                   /\ \A j \in 1 .. Len(q') : q'[j].cmd = "m" => j = i
        <4>1. i + 1 \in 1 .. Len(q) /\ q[i + 1].cmd = "m" /\ q'[i] = q[i + 1]
          BY <1>1, <3>3
        <4>2. /\ q[i + 1].a = a /\ NoDump(f)
              /\ \A j \in 1 .. Len(q) : q[j].cmd = "m" => j = i + 1
          BY <1>12, <4>1 DEF OneAnswer
        <4>3. ASSUME NEW j \in 1 .. Len(q'), q'[j].cmd = "m"
              PROVE  j = i
          <5>1. j + 1 = i + 1
            BY <1>1, <4>2, <4>3
          <5> QED
            BY <5>1
        <4> QED
          BY <1>11, <2>2, <4>1, <4>2, <4>3
      <3> QED
        BY <3>2, <3>3 DEF OneAnswer
    <2> QED
      BY <2>1, <2>2
  <1>13. FetchInv'
    <2>1. CASE l_call.at = "fetch" /\ ~l_doubled
      <3>1. l_call.a \in Reads /\ l_call.a \in Link!Addresses
        BY <1>0, <2>1 DEF LinkTypes, Calls, Pushing, Link!Idle, Link!Addresses
      <3>2. OneAnswer(q, f, l_call.a, l_history[l_call.a])
        BY <2>1 DEF LinkInv, FetchInv
      <3>3. /\ l_history[l_call.a] \subseteq l_history'[l_call.a]
            /\ l_ram[l_call.a] \in l_history'[l_call.a]
        BY <1>0, <1>5, <3>1 DEF LinkTypes
      <3>4. OneAnswer(q', f', l_call.a, l_history'[l_call.a])
        BY <1>12, <3>1, <3>2, <3>3
      <3> QED
        BY <1>0, <2>1, <3>4 DEF FetchInv
    <2>2. CASE l_call.at # "fetch" /\ ~l_doubled
      <3>1. NoRequest(q) /\ NoDump(f)
        BY <2>2 DEF LinkInv, FetchInv
      <3> QED
        BY <1>0, <1>11, <2>2, <3>1 DEF FetchInv
    <2> QED
      BY <1>0, <2>1, <2>2 DEF FetchInv
  <1>14. FetchedInv'
    <2> SUFFICES ASSUME l_call.at = "fetched", ~l_doubled
                 PROVE  l_call.v \in l_history'[l_call.a]
      BY <1>0 DEF FetchedInv
    <2>1. l_call.a \in Link!Addresses
      BY <1>0 DEF LinkTypes, Calls, Pushing, Link!Idle, Link!Addresses
    <2> QED
      BY <1>5, <2>1 DEF LinkInv, FetchedInv
  <1>15. ASSUME NEW n, TokensUpTo(q, f, n)
         PROVE  TokensUpTo(q', f', n)
    <2>1. c.cmd = "#" => c.n <= n
      BY <1>0, <1>1, <1>15 DEF TokensUpTo
    <2>2. \A i \in 1 .. Len(q') : q'[i].cmd = "#" => q'[i].n <= n
      BY <1>1, <1>15 DEF TokensUpTo
    <2>3. \A i \in 1 .. Len(f') : f'[i].is = "echo" /\ f'[i].of.cmd = "#" => f'[i].of.n <= n
      BY <1>9, <1>10, <1>15, <2>1 DEF TokensUpTo
    <2> QED
      BY <2>2, <2>3 DEF TokensUpTo
  <1>16. ASSUME NEW n, LastIsToken(q, f, n)
         PROVE  LastIsToken(q', f', n)
    <2>1. ASSUME NEW i \in 1 .. Len(q'), NEW j \in 1 .. Len(q'), i < j,
                 q'[i] = Link!Token(n)
          PROVE  q'[j].cmd # "m"
      <3>1. /\ i + 1 \in 1 .. Len(q) /\ j + 1 \in 1 .. Len(q) /\ i + 1 < j + 1
            /\ q[i + 1] = Link!Token(n) /\ q'[j] = q[j + 1]
        BY <1>1, <2>1
      <3> QED
        BY <1>16, <3>1 DEF LastIsToken
    <2>2. ASSUME NEW i \in 1 .. Len(f'), f'[i] = Link!EchoOf(Link!Token(n))
          PROVE  NoRequest(q') /\ \A j \in i + 1 .. Len(f') : f'[j].is # "dump"
      <3>0. f'[i].is = "echo" /\ f'[i].of = Link!Token(n) /\ f'[i].of.cmd = "#"
        BY <2>2 DEF Link!EchoOf, Link!Token
      <3>1. CASE i \in 1 .. Len(f) /\ f'[i] = f[i]
        <4>1. NoRequest(q) /\ \A j \in i + 1 .. Len(f) : f[j].is # "dump"
          BY <1>16, <2>2, <3>1 DEF LastIsToken
        <4>2. NoRequest(q') /\ c.cmd # "m"
          BY <1>11, <4>1
        <4>3. ASSUME NEW j \in i + 1 .. Len(f')
              PROVE  f'[j].is # "dump"
          <5>1. j \in 1 .. Len(f') /\ (j \in 1 .. Len(f) => j \in i + 1 .. Len(f))
            OBVIOUS
          <5> QED
            BY <1>9, <1>10, <4>1, <4>2, <5>1
        <4> QED
          BY <4>2, <4>3
      <3>2. CASE i = Len(f) + 1 /\ c = Link!Token(n)
        <4>1. c.cmd # "m" /\ 1 \in 1 .. Len(q)
          BY <1>0, <1>1, <3>2 DEF Link!Token
        <4>2. \A j \in 1 .. Len(q) : 1 < j => q[j].cmd # "m"
          BY <1>16, <3>2, <4>1 DEF LastIsToken
        <4>3. NoRequest(q')
          <5> SUFFICES ASSUME NEW j \in 1 .. Len(q') PROVE q'[j].cmd # "m"
            BY DEF NoRequest
          <5>1. j + 1 \in 1 .. Len(q) /\ 1 < j + 1 /\ q'[j] = q[j + 1]
            BY <1>1
          <5> QED
            BY <4>2, <5>1
        <4>4. ASSUME NEW j \in i + 1 .. Len(f')
              PROVE  f'[j].is # "dump"
          <5>1. j \in 1 .. Len(f') /\ j \notin 1 .. Len(f)
            BY <3>2
          <5> QED
            BY <1>9, <1>10, <4>1, <5>1
        <4> QED
          BY <4>3, <4>4
      <3> QED
        BY <1>9, <1>10, <3>0, <3>1, <3>2
    <2> QED
      BY <2>1, <2>2 DEF LastIsToken
  <1>17. TokenInv'
    BY <1>0, <1>15, <1>16 DEF LinkInv, TokenInv
  <1> QED
    BY <1>7, <1>8, <1>13, <1>14, <1>17 DEF LinkInv

\* The running program writes memory.
LEMMA ProgramStep ==
  ASSUME LinkInv, Link!Program
  PROVE  LinkInv'
  <1>0. /\ LinkTypes /\ l_running /\ l_version < MaxVersion /\ l_version' = l_version + 1
        /\ UNCHANGED <<l_call, l_calls, l_cpu_stopped, l_faked, l_repeats, l_doubled,
                       l_toMonitor, l_fromMonitor, l_running>>
    BY DEF LinkInv, Link!Program, Link!lineVars
  <1>1. PICK a \in Reads :
          /\ l_ram' = [l_ram EXCEPT ![a] = l_version + 1]
          /\ l_history' = [l_history EXCEPT ![a] = @ \cup {l_version + 1}]
    BY DEF Link!Program
  <1>2. l_version' \in 0 .. MaxVersion /\ l_version + 1 \in Values
    BY <1>0, LinkSizes DEF LinkTypes, Link!LinkAssumption, Values
  <1>3. /\ l_ram' \in [Link!Addresses -> Values]
        /\ l_history' \in [Link!Addresses -> SUBSET Values]
        /\ \A b \in Link!Addresses : l_ram'[b] \in l_history'[b]
        /\ \A b \in Link!Addresses : l_history[b] \subseteq l_history'[b]
    BY <1>0, <1>1, <1>2 DEF LinkTypes
  <1>4. LinkTypes'
    BY <1>0, <1>2, <1>3 DEF LinkTypes
  <1>5. StopInv' /\ TokenInv'
    BY <1>0 DEF LinkInv, StopInv, FakeInv, TokenInv
  <1>6. FetchInv'
    <2>1. CASE l_call.at = "fetch" /\ ~l_doubled
      <3>1. l_call.a \in Link!Addresses
        BY <1>0, <2>1 DEF LinkTypes, Calls, Pushing, Link!Idle, Link!Addresses
      <3>2. OneAnswer(l_toMonitor, l_fromMonitor, l_call.a, l_history[l_call.a])
        BY <2>1 DEF LinkInv, FetchInv
      <3>3. OneAnswer(l_toMonitor, l_fromMonitor, l_call.a, l_history'[l_call.a])
        BY <1>3, <3>1, <3>2, MoreValues
      <3> QED
        BY <1>0, <2>1, <3>3 DEF FetchInv
    <2>2. CASE l_call.at # "fetch" /\ ~l_doubled
      BY <1>0, <2>2 DEF LinkInv, FetchInv
    <2> QED
      BY <1>0, <2>1, <2>2 DEF FetchInv
  <1>7. FetchedInv'
    <2> SUFFICES ASSUME l_call.at = "fetched", ~l_doubled
                 PROVE  l_call.v \in l_history'[l_call.a]
      BY <1>0 DEF FetchedInv
    <2>1. l_call.a \in Link!Addresses
      BY <1>0 DEF LinkTypes, Calls, Pushing, Link!Idle, Link!Addresses
    <2> QED
      BY <1>3, <2>1 DEF LinkInv, FetchedInv
  <1> QED
    BY <1>4, <1>5, <1>6, <1>7 DEF LinkInv

LEMMA LinkStays ==
  ASSUME LinkInv, UNCHANGED l_vars
  PROVE  LinkInv'
  BY DEF LinkInv, LinkTypes, StopInv, FakeInv, FetchInv, TokenInv, FetchedInv, l_vars

LEMMA LinkNext ==
  ASSUME LinkInv, Link!Next
  PROVE  LinkInv'
  BY CallsThatBegin, PushLemma, LoadLemma, WaitsAndEnds, FetchBegins, FetchEnds, FetchAgain,
     SyncBegins, TokenIsSent, TokenAgain, TokenComesBack, MonitorStep, ProgramStep
     DEF Link!Next, Link!Work

\* Nothing has been said yet, and the processor runs.
LEMMA LinkStarts ==
  ASSUME Link!Init
  PROVE  LinkInv
  <1>1. l_toMonitor = << >> /\ l_fromMonitor = << >> /\ l_call = Link!Idle /\ l_call.at = "idle"
    BY DEF Link!Init, Link!Idle
  <1>2. LinkTypes
    <2>1. 0 \in Values
      BY LinkSizes DEF Values, Link!LinkAssumption
    <2>2. /\ l_ram \in [Link!Addresses -> Values]
          /\ l_history \in [Link!Addresses -> SUBSET Values]
          /\ \A a \in Link!Addresses : l_ram[a] \in l_history[a]
      BY <2>1 DEF Link!Init
    <2>3. l_toMonitor \in Seq(Commands) /\ l_fromMonitor \in Seq(Answers)
      BY <1>1
    <2>4. /\ l_call \in Calls /\ l_calls \in 0 .. MaxCalls /\ l_repeats \in 0 .. MaxRepeats
          /\ l_cpu_stopped \in BOOLEAN /\ l_running \in BOOLEAN /\ l_doubled \in BOOLEAN
          /\ l_faked \in BOOLEAN /\ l_version \in 0 .. MaxVersion
      <3>1. MaxCalls \in Nat /\ MaxRepeats \in Nat /\ MaxVersion \in Nat
        BY LinkSizes DEF Link!LinkAssumption
      <3>2. /\ l_cpu_stopped \in BOOLEAN /\ l_running \in BOOLEAN /\ l_doubled \in BOOLEAN
            /\ l_faked \in BOOLEAN
        BY Zenon DEF Link!Init
      <3>3. l_calls = 0 /\ l_repeats = 0 /\ l_version = 0
        BY DEF Link!Init, Link!machine
      <3>4. l_call \in Calls
        BY <1>1, CallTypes
      <3> QED
        BY <3>1, <3>2, <3>3, <3>4
    <2> QED
      BY <2>2, <2>3, <2>4 DEF LinkTypes
  <1>3. StopInv
    BY <1>1 DEF Link!Init, StopInv, FakeInv, LeavesIt, Reaches
  <1>4. FetchInv /\ FetchedInv /\ TokenInv
    BY <1>1 DEF FetchInv, FetchedInv, TokenInv, NoRequest, NoDump, TokensUpTo
  <1> QED
    BY <1>2, <1>3, <1>4 DEF LinkInv

\* What the invariant says of a quiet line, a load that comes and a finished read.
LEMMA LinkPromises ==
  ASSUME LinkInv
  PROVE  Link!BeliefIsRight /\ Link!LoadsWhileStopped /\ Link!FetchIsCurrent
  <1>1. /\ l_running \in BOOLEAN /\ l_cpu_stopped \in BOOLEAN /\ l_faked \in BOOLEAN
        /\ l_toMonitor \in Seq(Commands)
    BY DEF LinkInv, LinkTypes
  <1>2. Link!BeliefIsRight
    <2> SUFFICES ASSUME l_call = Link!Idle, l_toMonitor = << >>
                 PROVE  IF l_faked THEN l_cpu_stopped /\ l_running
                        ELSE l_cpu_stopped = ~l_running
      BY DEF Link!BeliefIsRight, Link!Quiet
    <2> DEFINE n == IF l_cpu_stopped /\ ~l_faked THEN 1 ELSE 0
    <2>0. l_faked => l_cpu_stopped
      BY DEF LinkInv, StopInv, FakeInv, Link!Idle
    <2>1. Reaches(l_toMonitor, l_running, Len(l_toMonitor) + 1, n)
      BY DEF LinkInv, StopInv, LeavesIt, Link!Idle
    <2>2. l_running <=> n = 0
      BY <2>1 DEF Reaches
    <2> QED
      BY <1>1, <2>0, <2>2
  <1>3. Link!LoadsWhileStopped
    <2> SUFFICES ASSUME l_toMonitor # << >>, Head(l_toMonitor).cmd = "l",
                        ~Head(l_toMonitor).hot
                 PROVE  ~l_running
      BY DEF Link!LoadsWhileStopped
    <2>1. 1 \in 1 .. Len(l_toMonitor) /\ l_toMonitor[1].cmd = "l" /\ ~l_toMonitor[1].hot
      BY <1>1
    <2>2. Reaches(l_toMonitor, l_running, 1, 1)
      BY <2>1 DEF LinkInv, StopInv, LeavesIt
    <2> QED
      BY <2>2 DEF Reaches
  <1>4. Link!FetchIsCurrent
    BY DEF LinkInv, FetchedInv, Link!FetchIsCurrent
  <1> QED
    BY <1>2, <1>3, <1>4

-----------------------------------------------------------------------------
(* The debugger: its theorems are those of a component of the suite *)

Debugging == INSTANCE DebuggerProofs WITH
  Cells <- Cells, Code <- Code, Entry <- Entry, Breakpoints <- Breakpoints,
  Same <- Same, Samples <- Samples,
  Careful <- TRUE, MaxCommands <- MaxCommands, MaxTraps <- MaxTraps,
  pc <- d_pc, stack <- d_stack, running <- d_running, mem <- d_mem,
  hv <- d_hv, resume <- d_resume, traps <- d_traps,
  at <- d_at, then <- d_then, softbrkaddr <- d_softbrkaddr,
  softbrkmem <- d_softbrkmem, high <- d_high, in_hv <- d_in_hv,
  cur_pc <- d_cur_pc, same_cnt <- d_same_cnt,
  cnt <- d_cnt, cpu_stopped <- d_cpu_stopped, target <- d_target,
  frame <- d_frame, finishing <- d_finishing, commands <- d_commands,
  outcome <- d_outcome, patched <- d_patched, crossed <- d_crossed

\* The component of the suite is the one the theorems are about.
LEMMA SameDebugger ==
  /\ Debug!Init <=> Debugging!Init
  /\ Debug!Next <=> Debugging!Next
  /\ Debug!ProgramIsKnown <=> Debugging!ProgramIsKnown
  /\ Debug!BreakStops <=> Debugging!BreakStops
  /\ UNCHANGED d_vars <=> UNCHANGED Debugging!vars
  /\ Debugging!DebuggerAssumption /\ Debugging!ProgramAssumption
  <1> USE DEF Debug!NoCell, Debugging!NoCell, Debug!NoPlace, Debugging!NoPlace,
      Debug!Places, Debugging!Places, Debug!JumpToItself,
      Debugging!JumpToItself, Debug!processor, Debugging!processor
  <1>1. Debug!Init <=> Debugging!Init
    BY DEF Debug!Init, Debugging!Init
  <1>2. Debug!Next <=> Debugging!Next
    BY DEF Debug!Instruction, Debugging!Instruction, Debug!Enter, Debugging!Enter,
      Debug!Execute, Debugging!Execute, Debug!Processor, Debugging!Processor,
      Debug!Trap, Debugging!Trap, Debug!step, Debugging!step, Debug!Command,
      Debugging!Command, Debug!NoSamples, Debugging!NoSamples, Debug!MaySet,
      Debugging!MaySet, Debug!cmdSetSoftwareBreakpoint,
      Debugging!cmdSetSoftwareBreakpoint, Debug!cmdSoftContinue,
      Debugging!cmdSoftContinue, Debug!cmdContinue, Debugging!cmdContinue,
      Debug!cmdStep, Debugging!cmdStep, Debug!cmdNext, Debugging!cmdNext,
      Debug!cmdFinish, Debugging!cmdFinish, Debug!isCpuStopped,
      Debugging!isCpuStopped, Debug!stop_to_set, Debugging!stop_to_set,
      Debug!inHypervisorMode, Debugging!inHypervisorMode,
      Debug!setSoftBreakpoint, Debugging!setSoftBreakpoint, Debug!restart,
      Debugging!restart, Debug!continue, Debugging!continue, Debug!AtBreakpoint,
      Debugging!AtBreakpoint, Debug!wait_for_break, Debugging!wait_for_break,
      Debug!stop_to_clear, Debugging!stop_to_clear, Debug!clearSoftBreak,
      Debugging!clearSoftBreak, Debug!Leave, Debugging!Leave, Debug!next,
      Debugging!next, Debug!next_stepping, Debugging!next_stepping, Debug!CtrlC,
      Debugging!CtrlC, Debug!User, Debugging!User, Debug!Work, Debugging!Work,
      Debug!Next, Debugging!Next, Debug!processor, Debugging!processor,
      Debug!machine, Debugging!machine, Debug!breakpoint, Debugging!breakpoint,
      Debug!sampling, Debugging!sampling, Debug!stepping, Debugging!stepping,
      Debug!Last, Debugging!Last, Debug!Front, Debugging!Front
  <1>3. Debug!ProgramIsKnown <=> Debugging!ProgramIsKnown
    BY DEF Debug!ProgramIsKnown, Debugging!ProgramIsKnown
  <1>4. Debug!BreakStops <=> Debugging!BreakStops
    BY DEF Debug!BreakStops, Debugging!BreakStops, Debug!AtPatch, Debugging!AtPatch
  <1>5. UNCHANGED d_vars <=> UNCHANGED Debugging!vars
    BY DEF d_vars, Debugging!vars, Debugging!machine, Debugging!breakpoint,
      Debugging!sampling, Debugging!stepping
  <1>6. Debugging!DebuggerAssumption
    BY DebuggerSizes DEF Debug!DebuggerAssumption, Debugging!DebuggerAssumption
  <1>7. Debugging!ProgramAssumption
    BY ProgramStays DEF Debug!ProgramAssumption, Debugging!ProgramAssumption
  <1> QED
    BY <1>1, <1>2, <1>3, <1>4, <1>5, <1>6, <1>7

-----------------------------------------------------------------------------
(* What holds of every run *)

\* The component a behaviour is about keeps its invariant; the others are off.
IInv ==
  /\ subject = "link" => LinkInv
  /\ subject = "debugger" => Debugging!IInv

LEMMA Invariant == Spec => []IInv
  <1>1. Init => IInv
    BY LinkStarts, SameDebugger, Debugging!InitLemma DEF Init, IInv
  <1>2. ASSUME IInv, [Next]_vars
        PROVE  IInv'
    <2>1. CASE subject = "link" /\ Link!Next /\ OnlyLink
      BY <1>2, <2>1, LinkNext DEF IInv, OnlyLink
    <2>2. CASE subject = "debugger" /\ Debug!Next /\ OnlyDebug
      <3>1. Debugging!IInv'
        BY <1>2, <2>2, SameDebugger, Debugging!NextLemma DEF IInv
      <3> QED
        BY <2>2, <3>1 DEF IInv, OnlyDebug
    <2>3. CASE UNCHANGED vars
      <3>1. subject' = subject /\ UNCHANGED l_vars /\ UNCHANGED d_vars
        BY <2>3 DEF vars
      <3>2. subject = "link" => LinkInv'
        BY <1>2, <3>1, LinkStays DEF IInv
      <3>3. subject = "debugger" => Debugging!IInv'
        BY <1>2, <3>1, SameDebugger, Debugging!NextLemma DEF IInv
      <3> QED
        BY <3>1, <3>2, <3>3 DEF IInv
    <2>4. CASE /\ subject \in {"transfer", "floppy", "readdisk"} /\ subject' = subject
      BY <2>4 DEF IInv
    <2> QED
      BY <1>2, <2>1, <2>2, <2>3, <2>4 DEF Next, OnlyTransfer, OnlyFloppy, OnlyDisks
  <1> QED
    BY <1>1, <1>2, PTL DEF Spec

\* A tool knows between two calls whether the processor runs, loads memory only
\* while it stands, and reads what memory has held during the call: for every
\* memory, chunk, slab, address and number of calls, however the monitor lags and
\* the program writes (m65common.c: slow_write_safe, push_ram, fetch_ram,
\* monitor_sync).  Not so, and the invariant says exactly where, after
\* fake_stop_cpu and in load_file.
THEOREM LinkIsInStepTheorem == Spec => []LinkIsInStep
  <1>1. IInv => LinkIsInStep
    BY LinkPromises DEF IInv, LinkIsInStep
  <1> QED
    BY <1>1, Invariant, PTL

\* The debugger that runs in the suite can always put the program back, as long as
\* no breakpoint was read or restored in another mode than it was set in
\* (setSoftBreakpoint, clearSoftBreak).
THEOREM ProgramIsKnownHere == Spec => []ProgramIsKnown
  <1>1. IInv => ProgramIsKnown
    BY SameDebugger, Debugging!KnownLemma DEF IInv, ProgramIsKnown
  <1> QED
    BY <1>1, Invariant, PTL

\* The processor does not get past the breakpoint it has come to, and stands when
\* the patch is taken away (do_continue, clearSoftBreak).
THEOREM BreakStopsHere == Spec => BreakStops
  <1>1. IInv /\ [Next]_vars => [subject = "debugger" => Debug!BreakStops]_vars
    <2> SUFFICES ASSUME IInv, Next, subject = "debugger"
                 PROVE  Debug!BreakStops
      OBVIOUS
    <2>1. Debug!Next
      BY DEF Next
    <2> QED
      BY <2>1, SameDebugger, Debugging!StopsLemma DEF IInv
  <1> QED
    BY <1>1, Invariant, PTL DEF Spec, BreakStops

=============================================================================
