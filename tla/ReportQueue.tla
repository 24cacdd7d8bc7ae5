---------------------------- MODULE ReportQueue ----------------------------
(***************************************************************************)
(* report_queue (report_queue.hpp, report_queue.cpp): the bounded hand-off *)
(* between dump1090's receive thread and the reporting worker, coalescing  *)
(* by ICAO address.  Every operation holds the queue's mutex from its      *)
(* first to its last access, so each is one action; which thread calls it, *)
(* and the condition variable, are modelled in ReportingWorker.            *)
(***************************************************************************)
EXTENDS Integers, Sequences, FiniteSets, Functions

CONSTANTS
  Address,   (* ICAO addresses                                      *)
  Time,      (* values of the monotonic clock                       *)
  Fix,       (* position fixes: what a position_report describes    *)
  Capacity,  (* report_queue_capacity, the constructor's t_capacity *)
  Nullopt    (* std::nullopt                                        *)

(* The constructor asserts the first conjunct. *)
ASSUME CapacityAssumption == Capacity \in Nat \ {0}
ASSUME NulloptAssumption ==
  Nullopt \notin [icao : Address, received : Time, fix : Fix]

(* struct pending_report: whose position, when received, which position. *)
PendingReport == [icao : Address, received : Time, fix : Fix]

VARIABLES
  items,    (* the queued report of each queued aircraft           *)
  order,    (* the queued aircraft, first seen first               *)
  stopped,  (* shutdown() was called                               *)
  popped    (* what the last pop() returned                        *)

queueVars == <<items, order, stopped, popped>>

QueueInit ==
  /\ items = [a \in {} |-> Nullopt]
  /\ order = <<>>
  /\ stopped = FALSE
  /\ popped = Nullopt

(* size(): the number of queued aircraft. *)
Size == Cardinality(DOMAIN items)

(* Mutant: the test is off by one. *)
FullTooLate == Size > Capacity /\ order # <<>>

(* push()'s test for having to drop an entry before it inserts one. *)
Full == Size >= Capacity /\ order # <<>>

Inserted(f, a, r) == [x \in DOMAIN f \cup {a} |-> IF x = a THEN r ELSE f[x]]
Erased(f, a) == Restrict(f, DOMAIN f \ {a})

(* Mutants: emplace() alone, which does not overwrite; and a re-queueing one. *)
CoalesceKeepsOld(a, r) ==
  /\ a \in DOMAIN items
  /\ UNCHANGED queueVars
CoalesceRequeues(a, r) ==
  /\ a \in DOMAIN items
  /\ items' = [items EXCEPT ![a] = r]
  /\ order' = Append(SelectSeq(order, LAMBDA x : x # a), a)
  /\ UNCHANGED <<stopped, popped>>

(* push() of a queued aircraft overwrites its report and keeps its place. *)
Coalesce(a, r) ==
  /\ a \in DOMAIN items
  /\ items' = [items EXCEPT ![a] = r]
  /\ UNCHANGED <<order, stopped, popped>>

(* push() of a new aircraft while there is room. *)
Append1(a, r) ==
  /\ a \notin DOMAIN items
  /\ ~Full
  /\ items' = Inserted(items, a, r)
  /\ order' = Append(order, a)
  /\ UNCHANGED <<stopped, popped>>

(* Mutants: the front stays in the FIFO; the youngest entry gives way. *)
DisplaceKeepsFront(a, r) ==
  /\ a \notin DOMAIN items
  /\ Full
  /\ items' = Inserted(Erased(items, Head(order)), a, r)
  /\ order' = Append(order, a)
  /\ UNCHANGED <<stopped, popped>>
DisplaceYoungest(a, r) ==
  /\ a \notin DOMAIN items
  /\ Full
  /\ items' = Inserted(Erased(items, order[Len(order)]), a, r)
  /\ order' = Append(SubSeq(order, 1, Len(order) - 1), a)
  /\ UNCHANGED <<stopped, popped>>

(* push() of a new aircraft at capacity: the oldest queued one gives way. *)
Displace(a, r) ==
  /\ a \notin DOMAIN items
  /\ Full
  /\ items' = Inserted(Erased(items, Head(order)), a, r)
  /\ order' = Append(Tail(order), a)
  /\ UNCHANGED <<stopped, popped>>

Push(a, r) == Coalesce(a, r) \/ Append1(a, r) \/ Displace(a, r)

(* The predicate pop() waits for. *)
PopReady == stopped \/ order # <<>>

(* pop() with an entry to return: the oldest one, stopped or not. *)
PopItem ==
  /\ order # <<>>
  /\ popped' = items[Head(order)]
  /\ items' = Erased(items, Head(order))
  /\ order' = Tail(order)
  /\ UNCHANGED stopped

(* Mutant: pop() gives up as soon as the queue is shut down. *)
PopGivesUp ==
  /\ stopped
  /\ popped' = Nullopt
  /\ UNCHANGED <<items, order, stopped>>

(* pop() returns nullopt only once stopped and empty. *)
PopNullopt ==
  /\ stopped
  /\ order = <<>>
  /\ popped' = Nullopt
  /\ UNCHANGED <<items, order, stopped>>

Pop == PopItem \/ PopNullopt

(* shutdown() discards nothing. *)
Shutdown ==
  /\ stopped' = TRUE
  /\ UNCHANGED <<items, order, popped>>

(* clear() discards everything and leaves stopped alone. *)
Clear ==
  /\ items' = [a \in {} |-> Nullopt]
  /\ order' = <<>>
  /\ UNCHANGED <<stopped, popped>>

-----------------------------------------------------------------------------
(***************************************************************************)
(* The queue under any interleaving of its operations.  handle_adsb_data() *)
(* pushes a report under its own address.  clear() may come at any time:   *)
(* the drain's deadline can even pass before shutdown() is reached.        *)
(***************************************************************************)
QueueNext ==
  \/ \E r \in PendingReport : Push(r.icao, r)
  \/ Pop
  \/ Shutdown
  \/ Clear

(* The worker keeps popping: run()'s loop only leaves after shutdown(). *)
QueueSpec == QueueInit /\ [][QueueNext]_queueVars
FairQueueSpec == QueueSpec /\ WF_queueVars(PopItem)

-----------------------------------------------------------------------------
(* Type invariant of the queue's members and of what pop() returned. *)
QueueTypeOK ==
  /\ DOMAIN items \subseteq Address
  /\ items \in [DOMAIN items -> PendingReport]
  /\ order \in Seq(Address)
  /\ stopped \in BOOLEAN
  /\ popped \in PendingReport \cup {Nullopt}

(* The FIFO and the map hold the same aircraft, each once: pop() reads the *)
(* map at the FIFO's front without testing that the entry is there.        *)
OrderMatchesItems ==
  /\ IsInjective(order)
  /\ DOMAIN items = Range(order)

(* Whatever the message rate, the queue never outgrows its capacity, and   *)
(* an entry is filed under the address it reports.                         *)
Bounded ==
  /\ Len(order) <= Capacity
  /\ Size <= Capacity
  /\ \A a \in DOMAIN items : items[a].icao = a

(* No operation lets one aircraft overtake another: two aircraft queued    *)
(* before and after a step keep their order, however often either one's    *)
(* report was replaced in between (report_queue.hpp, comment on `order`).  *)
Before(s, a, b) ==
  \E i, j \in 1..Len(s) : i < j /\ s[i] = a /\ s[j] = b

NoOvertaking ==
  [][\A a, b \in DOMAIN items \cap DOMAIN items' :
       Before(order, a, b) => Before(order', a, b)]_queueVars

(* A queued aircraft leaves only from the front -- taken by pop(), or      *)
(* dropped because the queue was full and another aircraft appeared -- or  *)
(* because clear() emptied the whole queue.                                *)
LeavesInTurn ==
  [][\A a \in DOMAIN items \ DOMAIN items' :
       \/ a = Head(order) /\ popped' = items[a]
       \/ a = Head(order) /\ Size = Capacity /\ DOMAIN items' \ DOMAIN items # {}
       \/ items' = [x \in {} |-> Nullopt] /\ UNCHANGED popped]_queueVars

(* The queue implements the hand-off, its freedom from starvation          *)
(* included: one noisy aircraft cannot keep another from being sent.       *)
Handoff == INSTANCE CoalescingHandoff WITH
             Report <- PendingReport,
             pending <- items, taken <- popped, closed <- stopped
HandoffSpec == Handoff!Spec
=============================================================================
