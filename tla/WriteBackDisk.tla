--------------------------- MODULE WriteBackDisk ---------------------------
(***************************************************************************)
(* What the sector layer of mega65_ftp promises to the FAT32 code above    *)
(* it: a disk with a write-back buffer.  A write is visible at once in     *)
(* "latest"; "stable", what the SD card holds, only ever becomes a         *)
(* complete snapshot of "latest", never a mixture of older and newer       *)
(* writes.                                                                 *)
(***************************************************************************)

CONSTANTS Sectors, Values

VARIABLES latest, stable

vars == <<latest, stable>>

Contents == [Sectors -> Values]

Init ==
  /\ latest \in Contents
  /\ stable = latest

\* A write reaches the buffer.  The buffer may be emptied to make room before
\* the write, or emptied because of it.
Write(s, v) ==
  /\ latest' = [latest EXCEPT ![s] = v]
  /\ stable' \in {stable, latest, latest'}

Sync ==
  /\ stable' = latest
  /\ UNCHANGED latest

Next ==
  \/ \E s \in Sectors, v \in Values : Write(s, v)
  \/ Sync

Spec == Init /\ [][Next]_vars

=============================================================================
