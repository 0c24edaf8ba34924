------------------------------ MODULE FileHost ------------------------------
(***************************************************************************)
(* filehost.c: the list of the files that files.mega65.org offers, parsed  *)
(* from the answer as it comes in, and the download of one of them.  An    *)
(* answer comes in chunks that may end anywhere; the parsers are static    *)
(* variables that survive a chunk, and locals that do not.                 *)
(***************************************************************************)
EXTENDS Integers, Sequences, FiniteSets, SequencesExt

CONSTANTS
  Answers,      \* lists of rows: field -> text; the server's answers
  Files,        \* contents of files that can be downloaded
  MaxChunks,    \* bound on the chunks an answer is cut into
  CutEscapes,   \* chunks may end between a backslash and its character
  Stray         \* whether the byte in front of the buffer is a backslash

FileHostAssumption ==
  /\ MaxChunks \in Nat \ {0} /\ CutEscapes \in BOOLEAN /\ Stray \subseteq BOOLEAN
  /\ \A f \in Files : f # << >>

VARIABLES
  at,             \* "list", "listed", "download", "downloaded" or "exit"
  answer,         \* what the server sends: rows, or a file
  input, chunks,  \* its characters that have not come yet; chunks so far
  sort_date_flag,
  parser, lst_finfos,         \* read_rows and its list
  header, saved               \* download_file_from_filehost

vars == <<at, answer, input, chunks, sort_date_flag, parser, lst_finfos, header, saved>>

Fields == <<"os", "author", "published", "title">>
Days == <<"1", "2", "3">>
Day(f) == CHOOSE d \in DOMAIN Days : Days[d] = f["published"][1]
NoInfo == [f \in ToSet(Fields) |-> << >>]
Quoted(text) == <<"quote">> \o text \o <<"quote">>
Row(r) ==
  LET Field(seq, f) == seq \o (IF seq = << >> THEN << >> ELSE <<"comma">>)
                           \o Quoted(<<f>>) \o <<"colon">> \o Quoted(r[f])
  IN <<"{">> \o FoldLeft(Field, << >>, Fields) \o <<"}">>
Json(rows) ==
  LET Add(seq, r) == seq \o (IF seq = << >> THEN << >> ELSE <<"comma">>) \o Row(r)
  IN <<"head", "[">> \o FoldLeft(Add, << >>, rows) \o <<"]">>
Http(file) == <<"head", "length", "number", "crlf", "head", "crlf", "crlf">> \o file

NoParser == [square |-> FALSE, curl |-> FALSE, quote |-> FALSE, iskey |-> TRUE,
             tmp |-> << >>, key |-> << >>, finfo |-> NoInfo, list |-> << >>, end |-> "no"]

Init ==
  /\ sort_date_flag \in BOOLEAN
  /\ chunks = 0 /\ parser = NoParser /\ lst_finfos = << >>
  /\ header = [content_length |-> 0, found |-> FALSE, value |-> 0, crlfs |-> 0] /\ saved = << >>
  /\ \/ \E rows \in Answers : answer = rows /\ input = Json(rows) /\ at = "list"
     \/ \E f \in Files : answer = f /\ input = Http(f) /\ at = "download"

-----------------------------------------------------------------------------
(* The list *)

\* add_to_list: at the end, or in front of the first one that is not older.
add_to_list(list, f) ==
  LET later == {n \in DOMAIN list : Day(f) <= Day(list[n])}
      first == CHOOSE n \in later : \A k \in later : n <= k
  IN IF sort_date_flag /\ later # {}
     THEN SubSeq(list, 1, first - 1) \o <<f>> \o SubSeq(list, first, Len(list))
     ELSE Append(list, f)

Wanted(f) == f["author"] # << >> /\ "MEGA65" \in ToSet(f["os"])

\* clean_copy and cleanup drop backslashes from some of the values.
clean(f, text) ==
  IF f = "published" THEN SelectSeq(text, LAMBDA ch : ch # "backslash") ELSE text

read_in_key_or_value_string(p, prevc, c) ==
  IF c # "quote" \/ prevc = "backslash" THEN [p EXCEPT !.tmp = Append(@, c)]
  ELSE IF p.iskey THEN [p EXCEPT !.quote = FALSE, !.tmp = << >>, !.key = p.tmp, !.iskey = FALSE]
  ELSE [p EXCEPT !.quote = FALSE, !.tmp = << >>, !.iskey = TRUE,
                 !.finfo = IF p.key # << >> /\ p.key[1] \in DOMAIN @
                           THEN [@ EXCEPT ![p.key[1]] = clean(p.key[1], p.tmp)] ELSE @]

\* One character; s.p is the parser, s.prevc and s.before the characters in
\* front of it that were parsed last and that stand in front of it in the chunk.
read_char(s, c) ==
  LET p == s.p
      Go(q) == [s EXCEPT !.p = q, !.before = c]
  IN
  IF p.end # "no" THEN s
  ELSE IF ~p.square THEN Go([p EXCEPT !.square = (c = "[")])
  ELSE IF ~p.curl /\ c = "comma" THEN Go(p)
  ELSE IF ~p.curl /\ c = "]" THEN Go([p EXCEPT !.square = FALSE, !.end = "end"])
  ELSE IF ~p.curl
  THEN Go(IF c = "{" THEN [p EXCEPT !.curl = TRUE, !.finfo = NoInfo] ELSE [p EXCEPT !.end = "exit"])
  ELSE IF ~p.quote /\ (IF p.iskey THEN c = "comma" ELSE c = "colon") THEN Go(p)
  ELSE IF ~p.quote /\ p.iskey /\ c = "}"
  THEN Go([p EXCEPT !.curl = FALSE,
                    !.list = IF Wanted(p.finfo) THEN add_to_list(@, p.finfo) ELSE @])
  ELSE IF c = "quote" /\ s.before # "backslash" /\ ~p.quote THEN Go([p EXCEPT !.quote = TRUE])
  ELSE [Go(read_in_key_or_value_string(p, s.prevc, c)) EXCEPT !.prevc = c]

\* Wrong variant: the parser starts anew with every chunk.
read_rows_Anew(chunk) ==
  LET s == FoldLeft(read_char, [p |-> [NoParser EXCEPT !.list = lst_finfos],
                                prevc |-> "nothing", before |-> "nothing"], chunk)
  IN /\ parser' = s.p
     /\ at' = IF s.p.end = "end" THEN "listed" ELSE IF s.p.end = "exit" THEN "exit" ELSE at
     /\ lst_finfos' = s.p.list

\* read_rows: prevc is a local, and the character in front of the first one is
\* whatever lies in front of the buffer.
read_rows(chunk) ==
  \E stray \in Stray :
    LET s == FoldLeft(read_char, [p |-> parser, prevc |-> "nothing",
                                  before |-> IF stray THEN "backslash" ELSE "nothing"], chunk)
    IN /\ parser' = s.p
       /\ at' = IF s.p.end = "end" THEN "listed" ELSE IF s.p.end = "exit" THEN "exit" ELSE at
       /\ lst_finfos' = s.p.list

-----------------------------------------------------------------------------
(* The download *)

\* check_content_length until the length is known, then check_file_start until
\* the empty line, then the file.
download_char(s, c) ==
  LET h == s.header IN
  IF h.content_length # 0 /\ Len(s.saved) = h.content_length THEN s
  ELSE IF h.content_length = 0 /\ ~h.found THEN [s EXCEPT !.header.found = (c = "length")]
  ELSE IF h.content_length = 0 /\ c = "number" THEN [s EXCEPT !.header.value = Len(answer)]
  ELSE IF h.content_length = 0
  THEN [s EXCEPT !.header.content_length = h.value, !.header.crlfs = 1]
  ELSE IF h.crlfs < 2
  THEN [s EXCEPT !.header.crlfs = IF c = "crlf" THEN @ + 1 ELSE 0]
  ELSE [s EXCEPT !.saved = Append(@, c)]

download(chunk) ==
  LET s == FoldLeft(download_char, [header |-> header, saved |-> saved], chunk)
  IN /\ header' = s.header /\ saved' = s.saved
     /\ at' = IF s.header.content_length # 0 /\ Len(s.saved) = s.header.content_length
              THEN "downloaded" ELSE at

\* Whatever has come in is read.
Receive ==
  /\ input # << >>
  /\ \E n \in 1 .. Len(input) :
       /\ n = Len(input) \/ chunks < MaxChunks - 1
       /\ CutEscapes \/ input[n] # "backslash"
       /\ input' = SubSeq(input, n + 1, Len(input))
       /\ \/ at = "list" /\ read_rows(SubSeq(input, 1, n)) /\ UNCHANGED <<header, saved>>
          \/ at = "download" /\ download(SubSeq(input, 1, n))
             /\ UNCHANGED <<parser, lst_finfos>>
  /\ chunks' = chunks + 1
  /\ UNCHANGED <<answer, sort_date_flag>>

Next == Receive

Spec == Init /\ [][Next]_vars

-----------------------------------------------------------------------------
(* Properties *)

WantedRows ==
  LET Cleaned(r) == [f \in DOMAIN r |-> clean(f, r[f])]
  IN SelectSeq([n \in DOMAIN answer |-> Cleaned(answer[n])], Wanted)

\* The list shows the files for the MEGA65 that were sent, each one once, in
\* the order of the server or by date, wherever the answer was cut.
ListIsAsSent ==
  at \in {"list", "listed"} /\ input = << >> =>
    /\ at = "listed"
    /\ \A f \in ToSet(WantedRows) \cup ToSet(lst_finfos) :
         Len(SelectSeq(lst_finfos, LAMBDA g : g = f)) = Len(SelectSeq(WantedRows, LAMBDA g : g = f))
    /\ IF sort_date_flag
       THEN \A n \in 1 .. Len(lst_finfos) - 1 :
              Day(lst_finfos[n]) <= Day(lst_finfos[n + 1])
       ELSE lst_finfos = WantedRows

\* A downloaded file is the one that was asked for, without its header.
DownloadIsWhole ==
  at \in {"download", "downloaded"} /\ input = << >> => at = "downloaded" /\ saved = answer

=============================================================================
