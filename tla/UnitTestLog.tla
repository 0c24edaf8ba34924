---------------------------- MODULE UnitTestLog ----------------------------
(***************************************************************************)
(* The unit test mode of m65: a program on the MEGA65 sends tokens of four *)
(* bytes (issue, issue, test, state) and texts over the serial line, with  *)
(* nothing between them but what each token announces, and m65 logs them   *)
(* and counts the failures.                                                *)
(***************************************************************************)
EXTENDS Integers, Sequences, FiniteSets

CONSTANTS
  Base,          \* 0xf0: the state "start"; states are Base .. Base + 15
  EndOfText,     \* 92
  TokenBytes,    \* values of the first three bytes of a token
  Texts, Names,  \* texts of logs, names of tests
  Junk,          \* what may stand on the line before the first token
  Requests,      \* bytes that ask for a sector of the virtual drive; none without one
  BufferSize,    \* 160: room of msgbuf, testname and testlog
  MaxMessages    \* bound on the messages of the program

UnitTestAssumption ==
  /\ Base \in Nat /\ EndOfText \in Nat /\ EndOfText < Base
  /\ Texts \cap Names = {} /\ << >> \notin Texts
  /\ MaxMessages \in Nat
  \* A text with the pound sign ends there, one that is too long leaves the buffer;
  \* the monitor and the program write plain text before the first token.
  /\ \A text \in Texts \cup Names : Len(text) < BufferSize
  /\ \A text \in Texts \cup Names : \A i \in DOMAIN text : text[i] # EndOfText
  /\ \A junk \in Junk : \A i \in DOMAIN junk : junk[i] < Base
  \* Otherwise junk that shifts the tokens makes a request of a token's third byte.
  /\ TokenBytes \cap Requests = {} /\ 0 \notin Requests

Starting == 0  Passed == 2  Failed == 3  Error == 4  Log == 13  Name == 14  Done == 15
Results == {Starting, 1, Passed, Failed, Error}

VARIABLES
  sent,          \* messages of the program
  line,          \* bytes on the line
  recent_bytes, recent_bytes_fill,
  receiveString, msgbuf,
  testname, testlog,
  last,          \* test_last_issue and test_last_sub
  log,           \* lines of the log
  failcount,
  exit           \* "no", "done", "timeout"

parser == <<recent_bytes, recent_bytes_fill, receiveString, msgbuf>>
vars == <<sent, line, parser, testname, testlog, last, log, failcount, exit>>

NoText == << >>

Init ==
  /\ sent = << >> /\ line \in Junk
  /\ recent_bytes = <<0, 0, 0, 0>> /\ recent_bytes_fill = 0
  /\ receiveString = FALSE /\ msgbuf = << >>
  /\ testname = NoText /\ testlog = NoText /\ last = <<0, 0, 0>>
  /\ log = << >> /\ failcount = 0 /\ exit = "no"

-----------------------------------------------------------------------------
(* The program (unittestlog.s and its C wrapper) *)

Ended == sent # << >> /\ sent[Len(sent)].state = Done

Send(t, state, text) ==
  /\ Len(sent) < MaxMessages /\ ~Ended
  /\ sent' = Append(sent, [test |-> t, state |-> state, text |-> text])
  /\ line' = line \o t \o <<Base + state>>
                  \o (IF state \in {Log, Name} THEN Append(text, EndOfText) ELSE << >>)
  /\ UNCHANGED <<parser, testname, testlog, last, log, failcount, exit>>

Program ==
  \/ \E b \in TokenBytes, state \in Results \cup {Done} : Send(<<b, 0, b>>, state, NoText)
  \/ \E text \in Texts : Send(<<0, 0, 0>>, Log, text)
  \/ \E name \in Names : Send(<<0, 0, 0>>, Name, name)

-----------------------------------------------------------------------------
(* m65: enterTestMode, one byte at a time *)

Line(t, state, text) == [test |-> t, state |-> state, text |-> text]

ReceiveText(b) ==
  /\ receiveString
  /\ IF b = EndOfText
     THEN /\ receiveString' = FALSE
          /\ IF recent_bytes[4] = Base + Log
             THEN testlog' = msgbuf /\ UNCHANGED testname
             ELSE testname' = msgbuf /\ UNCHANGED testlog
          /\ recent_bytes' = <<0, 0, 0, 0>> /\ recent_bytes_fill' = 0
          /\ UNCHANGED msgbuf
     ELSE /\ msgbuf' = Append(msgbuf, b)
          /\ UNCHANGED <<receiveString, testname, testlog, recent_bytes,
                         recent_bytes_fill>>
  /\ UNCHANGED <<last, log, failcount, exit>>

Window(b) == Append(Tail(recent_bytes), b)
Full == recent_bytes_fill >= 3

\* Another log text before the test of the first one has ended, or a token
\* that does not end a test: the text gets a line of its own.
OwnLine == IF testlog = NoText THEN << >> ELSE <<Line(last, Log, testlog)>>

\* Wrong variant: a text that waits for its result is dropped for the next one.
AnnounceText_Drops(b) ==
  /\ Full /\ b \in {Base + Log, Base + Name}
  /\ receiveString' = TRUE /\ msgbuf' = << >>
  /\ testlog' = IF b = Base + Log THEN NoText ELSE testlog
  /\ recent_bytes_fill' = 4
  /\ UNCHANGED <<log, testname, last, failcount, exit>>

AnnounceText(b) ==
  /\ Full /\ b \in {Base + Log, Base + Name}
  /\ receiveString' = TRUE /\ msgbuf' = << >>
  /\ IF b = Base + Log THEN log' = log \o OwnLine /\ testlog' = NoText
                       ELSE UNCHANGED <<log, testlog>>
  /\ recent_bytes_fill' = 4
  /\ UNCHANGED <<testname, last, failcount, exit>>

unit_test_log(b) ==
  /\ Full /\ b >= Base /\ b \notin {Base + Log, Base + Name}
  /\ LET t == SubSeq(Window(b), 1, 3)
         merged == b - Base \in {Passed, Failed}
     IN /\ log' = log \o (IF merged THEN << >> ELSE OwnLine)
                      \o <<Line(t, b - Base, IF merged /\ testlog # NoText THEN testlog
                                             ELSE testname)>>
        /\ last' = t
  /\ testlog' = NoText
  /\ failcount' = failcount + (IF b - Base \in {Failed, Error} THEN 1 ELSE 0)
  /\ exit' = IF b = Base + Done THEN "done" ELSE exit
  /\ recent_bytes_fill' = 0
  /\ UNCHANGED <<receiveString, msgbuf, testname>>

Slide(b) ==
  /\ ~Full \/ (b \notin Requests /\ b < Base)
  /\ recent_bytes_fill' = IF recent_bytes_fill < 4 THEN recent_bytes_fill + 1 ELSE 4
  /\ UNCHANGED <<receiveString, msgbuf, testname, testlog, last, log, failcount, exit>>

\* The sector is served before the next byte is looked at, while the program waits.
check_for_vf011_requests(b) ==
  /\ Full /\ b \in Requests
  /\ recent_bytes' = [Window(b) EXCEPT ![4] = 0] /\ recent_bytes_fill' = 0
  /\ UNCHANGED <<receiveString, msgbuf, testname, testlog, last, log, failcount, exit>>

enterTestMode ==
  /\ exit = "no" /\ line # << >>
  /\ line' = Tail(line)
  /\ LET b == Head(line) IN
       \/ ReceiveText(b)
       \/ /\ ~receiveString
          /\ \/ check_for_vf011_requests(b)
             \/ /\ recent_bytes' = Window(b)
                /\ AnnounceText(b) \/ unit_test_log(b) \/ Slide(b)
  /\ UNCHANGED sent

\* No token for unit_test_timeout seconds.
timeout ==
  /\ exit = "no" /\ line = << >> /\ ~Ended
  /\ exit' = "timeout" /\ failcount' = failcount + 1
  /\ UNCHANGED <<sent, line, parser, testname, testlog, last, log>>

-----------------------------------------------------------------------------

Next == Program \/ enterTestMode \/ timeout

Spec == Init /\ [][Next]_vars

-----------------------------------------------------------------------------
(* Properties *)

\* Every variable has its type.
TypeOK ==
  /\ Len(recent_bytes) = 4 /\ recent_bytes_fill \in 0 .. 4
  /\ receiveString \in BOOLEAN
  /\ failcount \in 0 .. MaxMessages + 1
  /\ exit \in {"no", "done", "timeout"}

TokensOf(messages) ==
  LET results == SelectSeq(messages, LAMBDA x : x.state \notin {Log, Name})
  IN [i \in DOMAIN results |-> <<results[i].test, results[i].state>>]

TextsOf(messages) ==
  LET logs == SelectSeq(messages, LAMBDA x : x.state = Log)
  IN [i \in DOMAIN logs |-> logs[i].text]

Read == line = << >> /\ ~receiveString

\* With any number of bytes below the states on the line before, requests for
\* sectors among them, and with states among the bytes of texts that fit the buffer,
\* the log has the results the program sent, in their order, and the number of
\* failures is theirs.
LogIsWhatWasSent ==
  Read /\ exit # "timeout" =>
    /\ TokensOf(log) = TokensOf(sent)
    /\ failcount = Cardinality({i \in DOMAIN sent : sent[i].state \in {Failed, Error}})

\* No log text is dropped, put in twice or out of order: each has a line, its
\* own or that of the result after it, or waits for one.
TextsAreLogged ==
  Read =>
    LET HasText(x) == \/ x.state = Log
                      \/ x.state \in {Passed, Failed} /\ x.text \in Texts
        taken == SelectSeq(log, HasText)
        kept == [i \in DOMAIN taken |-> taken[i].text]
    IN kept \o (IF testlog = NoText THEN << >> ELSE <<testlog>>) = TextsOf(sent)

=============================================================================
