---------------------------- MODULE VirtualF011 ----------------------------
(***************************************************************************)
(* The virtual floppy drive of m65: the hypervisor of the MEGA65 asks for  *)
(* sectors over the serial line and stands still until m65 has moved the   *)
(* sector between its image and the sector buffer and restarted the CPU.   *)
(* Moving the sector (push_ram, fetch_ram) is one step: the CPU stands.    *)
(***************************************************************************)
EXTENDS Integers, Sequences, SequencesExt

CONSTANTS
  MaxSector,     \* the modelled sectors of the image are 1 .. MaxSector
  FirstIsRead,   \* the drive is read before it is written
  MaxRequests    \* bound on the requests of the guest

VirtualAssumption ==
  MaxSector \in Nat \ {0} /\ FirstIsRead \in BOOLEAN /\ MaxRequests \in Nat

Sectors == 1 .. MaxSector
Empty == 0                \* a sector the file does not have

VARIABLES
  guest,         \* "runs", "asks" or "waits"
  request,       \* the last request of the guest
  requests,
  buffer,        \* content of the sector buffer at $FFD6C00
  image, opened, \* the D81 file; fd81 # NULL
  at,            \* m65: where it is
  recent_bytes, pending,
  last_virtual,  \* sector of the last request served
  line,          \* characters from the MEGA65
  disk           \* what the guest may expect on the disk

guestVars == <<guest, request, requests, disk>>
fileVars == <<image, opened, last_virtual>>
vars == <<guestVars, buffer, fileVars, at, recent_bytes, pending, line>>

Nothing == [is |-> "none"]
NoRequest == [op |-> "none", sector |-> 0]
Arg(v) == [is |-> "arg", v |-> v]
Cmd(op) == [is |-> "cmd", op |-> op]      \* '!' reads, '\' writes
Echo(n) == [is |-> "echo", n |-> n]       \* of t1 and t0

Init ==
  /\ guest = "runs" /\ request = NoRequest /\ requests = 0
  /\ buffer = Empty
  /\ image = [s \in Sectors |-> s] /\ opened = FALSE /\ disk = image
  /\ at = "wait" /\ pending = << >> /\ last_virtual = 0
  /\ recent_bytes = [i \in 1 .. 4 |-> Nothing]
  /\ line = << >>

-----------------------------------------------------------------------------
(* The guest.  It fills the buffer only to write it, and every content it    *)
(* writes is new; it stands still from the request to the answer.            *)

Content == MaxSector + requests + 1

Ask(op, s) ==
  /\ guest = "runs" /\ requests < MaxRequests
  /\ FirstIsRead /\ requests = 0 => op = "read"
  /\ guest' = "asks" /\ requests' = requests + 1
  /\ request' = [op |-> op, sector |-> s]
  /\ IF op = "write" THEN buffer' = Content /\ disk' = [disk EXCEPT ![s] = Content]
                     ELSE UNCHANGED <<buffer, disk>>
  /\ UNCHANGED <<fileVars, at, recent_bytes, pending, line>>

\* Track, sector and side stand for one number here.
SendRequest ==
  /\ guest = "asks" /\ guest' = "waits"
  /\ line' = line \o <<Arg(request.sector), Arg(request.sector),
                       Arg(request.sector), Cmd(request.op)>>
  /\ UNCHANGED <<request, requests, disk, buffer, fileVars, at, recent_bytes, pending>>

-----------------------------------------------------------------------------
(* m65 *)

\* Wrong variant: the window of the last characters is not moved.
Shift_Grows(r, c) == Append(r, c)

Shift(r, c) == Append(Tail(r), c)

\* check_for_vf011_requests: after every character, with the last four.
IsRequest(r) == r[4].is = "cmd"
RequestOf(r) == [op |-> r[4].op, sector |-> r[1].v]

\* check_for_vf011_jobs: among the characters of one read; a later request
\* replaces an earlier one of its kind.
check_for_vf011_jobs(chars) ==
  LET at4 == {i \in 4 .. Len(chars) :
                chars[i].is = "cmd" /\ \A k \in 1 .. 3 : chars[i - k].is = "arg"}
      Last4(op) == {i \in at4 : chars[i].op = op
                                  /\ \A j \in at4 : chars[j].op = op => j <= i}
      Of(op) == {[op |-> op, sector |-> chars[i - 3].v] : i \in Last4(op)}
  IN SetToSeq(Of("read")) \o SetToSeq(Of("write"))

\* The loop at the end of main().
ScanBytes(chars) ==
  LET Take(acc, c) ==
        LET r == Shift(acc.recent, c) IN
        IF IsRequest(r)
        THEN [recent |-> [r EXCEPT ![4] = Nothing], found |-> <<RequestOf(r)>>]
        ELSE [acc EXCEPT !.recent = r]
  IN FoldLeft(Take, [recent |-> recent_bytes, found |-> pending], chars)

vf011_wait_loop ==
  /\ at = "wait" /\ pending = << >> /\ line # << >>
  /\ \E k \in 1 .. Len(line) :
       LET scan == ScanBytes(SubSeq(line, 1, k)) IN
       /\ line' = SubSeq(line, k + 1, Len(line))
       /\ recent_bytes' = scan.recent
       /\ pending' = scan.found
  /\ UNCHANGED <<guestVars, buffer, fileVars, at>>

\* A read of the sector served last finds it in the buffer still.
virtual_f011_read ==
  /\ at = "wait" /\ pending # << >> /\ Head(pending).op = "read"
  /\ LET s == Head(pending).sector IN
       /\ opened' = TRUE /\ last_virtual' = s
       /\ buffer' = IF s # last_virtual /\ image[s] # Empty THEN image[s] ELSE buffer
  /\ pending' = Tail(pending)
  /\ at' = "stop" /\ line' = Append(line, Echo(1))
  /\ UNCHANGED <<guestVars, image, recent_bytes>>

\* Wrong variant: the buffer is written to the sector read or written last.
virtual_f011_write_Last ==
  /\ at = "wait" /\ pending # << >> /\ Head(pending).op = "write"
  /\ LET s == IF last_virtual = 0 THEN Head(pending).sector ELSE last_virtual IN
       /\ opened' = TRUE /\ last_virtual' = Head(pending).sector
       /\ image' = [t \in Sectors |-> IF t = s THEN buffer
                                      ELSE IF opened THEN image[t] ELSE Empty]
  /\ pending' = Tail(pending)
  /\ at' = "stop" /\ line' = Append(line, Echo(1))
  /\ UNCHANGED <<guestVars, buffer, recent_bytes>>

\* A file that is not open yet is opened, and emptied, for the write.
virtual_f011_write ==
  /\ at = "wait" /\ pending # << >> /\ Head(pending).op = "write"
  /\ LET s == Head(pending).sector IN
       /\ opened' = TRUE /\ last_virtual' = s
       /\ image' = [t \in Sectors |-> IF t = s THEN buffer
                                      ELSE IF opened THEN image[t] ELSE Empty]
  /\ pending' = Tail(pending)
  /\ at' = "stop" /\ line' = Append(line, Echo(1))
  /\ UNCHANGED <<guestVars, buffer, recent_bytes>>

\* purge_and_check_for_vf011_jobs, after t1 and after t0: the requests among
\* the characters read count, and those cut in two are continued later.
purge(n) ==
  \E k \in 1 .. Len(line) :
    LET chars == SubSeq(line, 1, k)
        found == check_for_vf011_jobs(chars)
    IN /\ line' = SubSeq(line, k + 1, Len(line))
       /\ recent_bytes' = FoldLeft(Shift, recent_bytes, chars)
       /\ pending' = IF found = << >> THEN pending ELSE found
       /\ at' = IF ~\E i \in 1 .. k : chars[i] = Echo(n) THEN at
                ELSE IF n = 1 THEN "start" ELSE "wait"

purge_after_stop ==
  /\ at = "stop" /\ purge(1)
  /\ UNCHANGED <<guestVars, buffer, fileVars>>

\* The answer and t0: the guest goes on before the echo is read.
start_cpu ==
  /\ at = "start" /\ at' = "purge"
  /\ line' = Append(line, Echo(0))
  /\ guest' = IF guest = "waits" THEN "runs" ELSE guest
  /\ UNCHANGED <<request, requests, disk, buffer, fileVars, recent_bytes, pending>>

purge_after_start ==
  /\ at = "purge" /\ purge(0)
  /\ UNCHANGED <<guestVars, buffer, fileVars>>

-----------------------------------------------------------------------------

Guest == SendRequest \/ \E op \in {"read", "write"}, s \in Sectors : Ask(op, s)

M65 ==
  vf011_wait_loop \/ virtual_f011_read \/ virtual_f011_write
    \/ purge_after_stop \/ start_cpu \/ purge_after_start

Next == Guest \/ M65

Spec == Init /\ [][Next]_vars

-----------------------------------------------------------------------------
(* Properties *)

\* Every variable has its type.
TypeOK ==
  /\ guest \in {"runs", "asks", "waits"}
  /\ buffer \in Nat /\ image \in [Sectors -> Nat] /\ opened \in BOOLEAN
  /\ at \in {"wait", "stop", "start", "purge"}
  /\ Len(recent_bytes) = 4 /\ last_virtual \in Sectors \cup {0}
  /\ Len(pending) <= 2

\* A guest that goes on after a read has in its buffer what it wrote to the
\* sector last, and after a write the image holds it.
DriveIsADisk ==
  guest = "runs" /\ requests > 0 =>
    /\ buffer = disk[request.sector]
    /\ image[request.sector] = disk[request.sector]

\* No sector of the image changes but the one the guest writes.
ImageIsKept ==
  \A s \in Sectors : image[s] = disk[s] \/ (guest # "runs" /\ request.sector = s)

=============================================================================
