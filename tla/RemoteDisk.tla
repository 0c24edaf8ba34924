----------------------------- MODULE RemoteDisk -----------------------------
(***************************************************************************)
(* What the job protocol promises mega65_ftp: a disk that executes one job *)
(* at a time.  A write job puts its sectors on the disk, in any order, and *)
(* ends when all are there; a read job returns what the disk holds; a job  *)
(* of another kind leaves the disk alone.                                  *)
(***************************************************************************)
EXTENDS Naturals

CONSTANTS Sectors, Jobs, MaxJobs, Content(_, _)

VARIABLES
  disk,      \* content of each sector
  current,   \* the job being executed, with its number, or Idle
  begun,     \* jobs begun so far
  result     \* what the last job returned, if it was a read

vars == <<disk, current, begun, result>>

Idle == [kind |-> "none"]
NoResult == [s \in {} |-> 0]

Range(j) == j.start .. j.start + j.n - 1
Written(s) == Content(begun, s)

Init ==
  /\ disk = [s \in Sectors |-> 0]
  /\ current = Idle
  /\ begun = 0
  /\ result = NoResult

Begin(j) ==
  /\ current = Idle
  /\ begun < MaxJobs
  /\ current' = j
  /\ begun' = begun + 1
  /\ result' = NoResult
  /\ UNCHANGED disk

Put ==
  /\ current.kind = "write"
  /\ \E S \in (SUBSET Range(current)) \ {{}} :
       disk' = [s \in Sectors |-> IF s \in S THEN Written(s)
                                             ELSE disk[s]]
  /\ UNCHANGED <<current, begun, result>>

EndWrite ==
  /\ current.kind = "write"
  /\ \A s \in Range(current) : disk[s] = Written(s)
  /\ current' = Idle
  /\ UNCHANGED <<disk, begun, result>>

EndRead ==
  /\ current.kind = "read"
  /\ result' = [s \in Range(current) |-> disk[s]]
  /\ current' = Idle
  /\ UNCHANGED <<disk, begun>>

EndOther ==
  /\ current.kind \notin {"none", "write", "read"}
  /\ current' = Idle
  /\ UNCHANGED <<disk, begun, result>>

Next == (\E j \in Jobs : Begin(j)) \/ Put \/ EndWrite \/ EndRead \/ EndOther

Spec == Init /\ [][Next]_vars

=============================================================================
