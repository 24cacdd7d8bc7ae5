------------------------- MODULE CoalescingHandoff -------------------------
(***************************************************************************)
(* What the hand-off between the receive thread and the reporting thread   *)
(* promises, without saying how: at most one pending report per aircraft,  *)
(* the newest one; at most Capacity aircraft pending; an aircraft leaves   *)
(* by being taken, because a new aircraft needs its place in a full        *)
(* hand-off, or when everything pending is discarded together.             *)
(* Which aircraft is taken, or gives way, is left open.                    *)
(***************************************************************************)
EXTENDS Integers, FiniteSets, Functions

CONSTANTS
  Address,   (* ICAO addresses                     *)
  Report,    (* pending reports                    *)
  Capacity,  (* aircraft pending at the same time  *)
  Nullopt    (* "no report"                        *)

VARIABLES
  pending,   (* the pending reports, keyed by aircraft   *)
  taken,     (* the report taken last, Nullopt if none   *)
  closed     (* no taker waits for further reports       *)

vars == <<pending, taken, closed>>

Init ==
  /\ pending = [a \in {} |-> Nullopt]
  /\ taken = Nullopt
  /\ closed = FALSE

(* The hand-off after aircraft a's report became r and those of gone left. *)
Updated(a, r, gone) ==
  [x \in (DOMAIN pending \ gone) \cup {a} |-> IF x = a THEN r ELSE pending[x]]

(* A known aircraft's report is replaced; nobody else is affected. *)
Replace(a, r) ==
  /\ a \in DOMAIN pending
  /\ pending' = Updated(a, r, {})
  /\ UNCHANGED <<taken, closed>>

(* A new aircraft is admitted, at the cost of one other only when full. *)
Admit(a, r) ==
  /\ a \notin DOMAIN pending
  /\ \/ /\ Cardinality(DOMAIN pending) < Capacity
        /\ pending' = Updated(a, r, {})
     \/ /\ Cardinality(DOMAIN pending) = Capacity
        /\ \E b \in DOMAIN pending : pending' = Updated(a, r, {b})
  /\ UNCHANGED <<taken, closed>>

Take(a) ==
  /\ a \in DOMAIN pending
  /\ taken' = pending[a]
  /\ pending' = Restrict(pending, DOMAIN pending \ {a})
  /\ UNCHANGED closed

(* The taker learns that nothing is left and that nothing will come. *)
TakeNone ==
  /\ closed
  /\ DOMAIN pending = {}
  /\ taken' = Nullopt
  /\ UNCHANGED <<pending, closed>>

Close ==
  /\ closed' = TRUE
  /\ UNCHANGED <<pending, taken>>

Discard ==
  /\ pending' = Restrict(pending, {})
  /\ UNCHANGED <<taken, closed>>

Next ==
  \/ \E a \in Address, r \in Report : Replace(a, r) \/ Admit(a, r)
  \/ \E a \in Address : Take(a)
  \/ TakeNone
  \/ Close
  \/ Discard

SafeSpec == Init /\ [][Next]_vars

(* Nobody starves: a pending aircraft is taken unless it leaves otherwise. *)
Spec == SafeSpec /\ \A a \in Address : WF_vars(Take(a))
=============================================================================
