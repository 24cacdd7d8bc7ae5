------------------------------ MODULE DataFeed ------------------------------
(***************************************************************************)
(* What class dump1090 promises its user, whatever becomes of connections: *)
(* chunks of data are handled one after the other, and main() can end it:  *)
(* once disconnect() has returned, nothing is handled any more.  While it  *)
(* is under way the chunk in hand is finished and at most one more is      *)
(* begun, whose data recv() was about to return.                           *)
(***************************************************************************)
VARIABLES
  reader,  (* "waiting" for data, "handling" a chunk, or "gone" for good *)
  phase    (* of disconnect(): "open" before, "closing", "closed" after  *)

vars == <<reader, phase>>

Init == reader = "waiting" /\ phase = "open"

BeginChunk ==
  /\ reader = "waiting"
  /\ reader' = "handling"
  /\ UNCHANGED phase

FinishChunk ==
  /\ reader = "handling"
  /\ reader' = IF phase = "open" THEN "waiting" ELSE "gone"
  /\ UNCHANGED phase

(* Who is not in recv() when disconnect() begins does not enter it again. *)
Close ==
  /\ phase = "open"
  /\ phase' = "closing"
  /\ \/ UNCHANGED reader
     \/ reader = "waiting" /\ reader' = "gone"

(* recv() returns without data. *)
Leave ==
  /\ reader = "waiting" /\ phase = "closing"
  /\ reader' = "gone"
  /\ UNCHANGED phase

Closed ==
  /\ phase = "closing" /\ reader = "gone"
  /\ phase' = "closed"
  /\ UNCHANGED reader

Next == BeginChunk \/ FinishChunk \/ Close \/ Leave \/ Closed

SafeSpec == Init /\ [][Next]_vars

(* A chunk in hand is finished, and disconnect() returns. *)
Spec == SafeSpec /\ WF_vars(FinishChunk) /\ WF_vars(Leave) /\ WF_vars(Closed)
=============================================================================
