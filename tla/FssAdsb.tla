------------------------------ MODULE FssAdsb -------------------------------
(***************************************************************************)
(* The program in normal operation (main.cpp): handle_adsb_data() on       *)
(* dump1090's receive thread folds each message into the registry and      *)
(* pushes the report to the queue, in two critical sections; the reporting *)
(* worker pops and sends; the main loop counts its turns and sweeps the    *)
(* registry.  The parts are those of AircraftRegistry and ReportQueue, the *)
(* steps of the worker and the shutdown in detail are in ReportingWorker.  *)
(***************************************************************************)
EXTENDS AircraftRegistry, Sequences

CONSTANTS
  Capacity,   (* report_queue_capacity                      *)
  Nullopt,    (* std::nullopt, of pop()                     *)
  SweepEvery  (* evict_interval_secs: turns between sweeps  *)

VARIABLES
  items, order, stopped, popped,  (* the queue, as in ReportQueue              *)
  rpc,     (* the receive thread: "lines", "push" inside handle_adsb_data()    *)
  wpc,     (* the worker: "pop", "sending"                                     *)
  seconds, (* seconds_elapsed                                                  *)
  latest   (* for each aircraft, the report it should be sent as: its last     *)

(* What build_report() returns: values of the fields some message carries. *)
Reported == UNION {Carries(type) : type \in MsgType}
PositionReport ==
  [icao : Address, flags : SUBSET Reported,
   values : {[f \in Field |-> IF f \in Reported THEN v[f] ELSE Never] :
               v \in [Reported -> Time \cup {Never}]}]

Queue == INSTANCE ReportQueue WITH Fix <- PositionReport

ASSUME SystemAssumption ==
  /\ Capacity \in Nat \ {0}
  /\ SweepEvery \in Nat \ {0}
  /\ NoReport \notin PositionReport
  /\ Nullopt \notin Queue!PendingReport

queueVars == <<items, order, stopped, popped>>
systemVars == <<vars, queueVars, rpc, wpc, seconds, latest>>

SystemInit ==
  /\ Init
  /\ Queue!QueueInit
  /\ rpc = "lines" /\ wpc = "pop" /\ seconds = 0
  /\ latest = [a \in Address |-> Nullopt]

-----------------------------------------------------------------------------
(* The clock, and the receive thread's stamp of a further chunk. *)
ClockTick == Tick /\ UNCHANGED <<queueVars, rpc, wpc, seconds, latest>>

ReceiveChunk ==
  /\ rpc = "lines"
  /\ Receive
  /\ UNCHANGED <<queueVars, rpc, wpc, seconds, latest>>

(* A report, with the time its message was received at. *)
Pending(r) == [icao |-> r.icao, received |-> stamp, fix |-> r]

(* handle_adsb_data(): fold(), and if that made a report ... *)
FoldMessage(m) ==
  /\ rpc = "lines"
  /\ Fold(m)
  /\ rpc' = IF report' = NoReport THEN "lines" ELSE "push"
  /\ latest' = IF report' = NoReport THEN latest ELSE [latest EXCEPT ![m.icao] = Pending(report')]
  /\ UNCHANGED <<queueVars, wpc, seconds>>

(* Mutant: a queued report is not replaced. *)
PushUnlessQueued ==
  /\ rpc = "push"
  /\ IF report.icao \in DOMAIN items
     THEN UNCHANGED queueVars
     ELSE Queue!Push(report.icao, Pending(report))
  /\ rpc' = "lines"
  /\ UNCHANGED <<vars, wpc, seconds, latest>>

(* ... push(). *)
PushReport ==
  /\ rpc = "push"
  /\ Queue!Push(report.icao, Pending(report))
  /\ rpc' = "lines"
  /\ UNCHANGED <<vars, wpc, seconds, latest>>

-----------------------------------------------------------------------------
(* The worker. *)

PopReport ==
  /\ wpc = "pop"
  /\ Queue!PopItem
  /\ wpc' = "sending"
  /\ UNCHANGED <<vars, rpc, seconds, latest>>

SendReturns ==
  /\ wpc = "sending"
  /\ wpc' = "pop"
  /\ UNCHANGED <<vars, queueVars, rpc, seconds, latest>>

-----------------------------------------------------------------------------
(* main()'s loop. *)

(* Mutant: the turns are counted on. *)
TurnCountsOn ==
  /\ mpc = "loop"
  /\ seconds' = seconds + 1
  /\ UNCHANGED <<vars, queueVars, rpc, wpc, latest>>

(* A turn: sleep(1), reconnect(), attemptReconnect(), the count. *)
Turn ==
  /\ mpc = "loop"
  /\ seconds + 1 < SweepEvery
  /\ seconds' = seconds + 1
  /\ UNCHANGED <<vars, queueVars, rpc, wpc, latest>>

(* Mutant: a sweep uses the last one's clock. *)
SweepWithOldClock ==
  /\ mpc = "loop"
  /\ seconds + 1 >= SweepEvery
  /\ mpc' = "sweep"
  /\ seconds' = 0
  /\ UNCHANGED <<now, recvVars, sweepNow, warned, registryVars>>
  /\ UNCHANGED <<queueVars, rpc, wpc, latest>>

(* The turn that reaches evict_interval_secs begins a sweep. *)
BeginSweep ==
  /\ mpc = "loop"
  /\ seconds + 1 >= SweepEvery
  /\ ReadSweepClock
  /\ seconds' = 0
  /\ UNCHANGED <<queueVars, rpc, wpc, latest>>

Sweep == (EvictStale \/ ReportEvictions) /\ UNCHANGED <<queueVars, rpc, wpc, seconds, latest>>

-----------------------------------------------------------------------------
ReceiveThread == ReceiveChunk \/ PushReport \/ \E m \in Message : FoldMessage(m)
WorkerThread == PopReport \/ SendReturns
MainThread == Turn \/ BeginSweep \/ Sweep

SystemNext == ClockTick \/ ReceiveThread \/ WorkerThread \/ MainThread

SafeSystem == SystemInit /\ [][SystemNext]_systemVars

(* The threads keep running: a report that was folded is pushed, a send    *)
(* returns, and so does each turn of the main loop, however long its       *)
(* reconnect() takes.  Nothing is assumed of the data.                     *)
SystemSpec ==
  /\ SafeSystem
  /\ WF_systemVars(PushReport) /\ WF_systemVars(WorkerThread) /\ WF_systemVars(MainThread)

-----------------------------------------------------------------------------
(* Type invariant of what this module adds to the registry and the queue. *)
SystemTypeOK ==
  /\ TypeOK /\ Queue!QueueTypeOK
  /\ report \in PositionReport \cup {NoReport}
  /\ rpc \in {"lines", "push"} /\ wpc \in {"pop", "sending"}
  /\ rpc = "push" => report # NoReport
  /\ seconds \in 0..SweepEvery - 1
  /\ latest \in [Address -> Queue!PendingReport \cup {Nullopt}]

(* The receive thread and the worker use the queue as its module assumes.  *)
QueueUsed == Queue!QueueSpec

(* What is sent of an aircraft is its last report, complete, with the time *)
(* it was received: not an older one that was still queued, nor one the    *)
(* registry's eviction of the aircraft took anything from.  The exception  *)
(* is a report that a newer one is just about to replace: it was folded    *)
(* and not pushed yet.                                                     *)
SendsLatest ==
  [][wpc = "pop" /\ wpc' = "sending" =>
       \/ popped' = latest[popped'.icao]
       \/ rpc = "push" /\ report.icao = popped'.icao]_systemVars

(* An aircraft that stays silent is forgotten, however the sweeps fall     *)
(* between its messages: the count of turns keeps coming round.            *)
SilentFor(a) == a \in DOMAIN known /\ now - lastHeard[a] >= StaleWindow
StaleForgotten == \A a \in Address : SilentFor(a) ~> ~SilentFor(a)

(* How many steps of main() it takes at most until a silent aircraft is    *)
(* forgotten.  A sweep that read its clock before the window had passed    *)
(* does not count: the next one is a whole round of turns away.            *)
StepsLeft(a) ==
  CASE mpc = "loop" -> SweepEvery - seconds + 1
    [] mpc = "count" -> SweepEvery - seconds + 2
    [] mpc = "sweep" /\ sweepNow - lastHeard[a] >= StaleWindow -> 1
    [] OTHER -> SweepEvery + 3

(* How long that takes is bounded: each step of the main loop brings a     *)
(* silent aircraft nearer to being forgotten, and none of another thread,  *)
(* of the clock or for another aircraft, its eviction and readmission      *)
(* included, takes it further away (the count of seconds in main(), and    *)
(* isStale).                                                               *)
ForgettingNears ==
  [][\A a \in Address : SilentFor(a) /\ SilentFor(a)' /\ lastHeard'[a] = lastHeard[a] =>
       /\ StepsLeft(a) \in Nat /\ StepsLeft(a)' <= StepsLeft(a)
       /\ MainThread => StepsLeft(a)' < StepsLeft(a)]_systemVars

(* What aircraft_registry.hpp says of the two capacities: a registry below *)
(* the queue's capacity could never fill the queue.                        *)
SmallRegistryNeverFillsQueue ==
  RegistryCapacity < Capacity => Queue!Size < Capacity
=============================================================================
