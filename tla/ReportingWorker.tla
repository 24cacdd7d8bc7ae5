-------------------------- MODULE ReportingWorker --------------------------
(***************************************************************************)
(* Three threads around report_queue: dump1090's receive thread, which     *)
(* pushes; the reporting worker (reporting_worker::run), which pops and    *)
(* sends; and the main thread, which on a signal disconnects the receiver  *)
(* and then runs reporting_worker::stop().  A step is what a thread does   *)
(* without another thread being able to see it half done: one critical     *)
(* section, one clock read, one atomic access, one blocking call.          *)
(* A lost and re-established dump1090 connection is, for the queue, only a *)
(* pause in the pushes: the receive thread of this module stands for       *)
(* whichever one is running.                                               *)
(***************************************************************************)
EXTENDS ReportQueue

CONSTANTS
  WallOffset,    (* wall clock minus monotonic clock, before and after NTP steps *)
  ChunkLines,    (* complete lines at most in one recv()'s data   *)
  DrainTimeout,  (* drain_timeout_ms                              *)
  Forever,       (* UINT64_MAX, the deadline while not stopping   *)
  Second,        (* ms_per_s                                      *)
  TslcMax        (* UINT8_MAX                                     *)

ASSUME ClockAssumption ==
  /\ Time \subseteq Nat
  /\ 0 \in Time
  /\ DrainTimeout \in Nat
  /\ Forever \in Nat
  /\ \A t \in Time : t < Forever /\ t + DrainTimeout < Forever
ASSUME WireAssumption ==
  /\ WallOffset \subseteq Nat
  /\ Second \in Nat \ {0}
  /\ TslcMax \in Nat
ASSUME FixAssumption == Fix \subseteq Nat /\ ChunkLines \in Nat

VARIABLES
  now,        (* CLOCK_MONOTONIC                                          *)
  offset,     (* the wall clock minus the monotonic clock                 *)
  connected,  (* dump1090::fd # -1                                        *)
  rpc,        (* the receive thread's place in processMessages()          *)
  stamp,      (* its stamp of the data received last                      *)
  left,       (* complete lines of that data not yet handled              *)
  fixes,      (* position fixes pushed so far: the newest fix's number    *)
  wpc,        (* the worker's place in run()                              *)
  mono,       (* its now_mono                                             *)
  call,       (* the arguments of its last reportAircraft()               *)
  stopNow,    (* the clock as stop() read it                              *)
  deadline,   (* drain_deadline                                           *)
  mpc,        (* the main thread's place in the shutdown sequence         *)
  newest,     (* for each aircraft, its newest fix that was pushed; 0     *)
  lateSends   (* sends begun at or after the drain deadline               *)

recvVars == <<rpc, stamp, left, fixes, newest>>
workerVars == <<wpc, mono, call, lateSends>>
mainVars == <<connected, stopNow, deadline, mpc>>
clockVars == <<now, offset>>
vars == <<queueVars, recvVars, workerVars, mainVars, clockVars>>

(* Nothing was reported yet. *)
NoCall == [icao |-> Nullopt, fix |-> 0, wall |-> 0, tslc |-> 0, timestamp |-> 0]

(* drain_deadline's initial value, and a mutant: default-initialised. *)
DeadlineZero == 0
NoDeadline == Forever

Init ==
  /\ QueueInit
  /\ now = 0 /\ offset \in WallOffset
  /\ connected = TRUE
  /\ rpc = "recv" /\ stamp = 0 /\ left = 0 /\ fixes = 0
  /\ wpc = "pop" /\ mono = 0 /\ call = NoCall
  /\ stopNow = 0 /\ deadline = NoDeadline
  /\ mpc = "loop"
  /\ newest = [a \in Address |-> 0]
  /\ lateSends = 0

-----------------------------------------------------------------------------
(* The clocks. *)

Tick ==
  /\ \E t \in Time : t > now /\ now' = t
  /\ UNCHANGED <<queueVars, recvVars, workerVars, mainVars, offset>>

(* NTP steps the wall clock and leaves CLOCK_MONOTONIC alone. *)
NtpStep ==
  /\ offset' \in WallOffset \ {offset}
  /\ UNCHANGED <<queueVars, recvVars, workerVars, mainVars, now>>

-----------------------------------------------------------------------------
(* The receive thread: processMessages() and handle_adsb_data(). *)

(* recv() returned data ending k lines; all of them get this one stamp.    *)
(* Data that is there already is returned after disconnect(), too.         *)
Receive(k) ==
  /\ rpc = "recv"
  /\ rpc' = "lines" /\ stamp' = now /\ left' = k
  /\ UNCHANGED <<queueVars, fixes, newest, workerVars, mainVars, clockVars>>

(* A line with a position: push()'s critical section.  Nothing checks the  *)
(* connection between two lines of a chunk.                                *)
HandlePosition(a) ==
  /\ rpc = "lines" /\ left > 0
  /\ fixes + 1 \in Fix
  /\ Push(a, [icao |-> a, received |-> stamp, fix |-> fixes + 1])
  /\ fixes' = fixes + 1
  /\ newest' = [newest EXCEPT ![a] = fixes + 1]
  /\ rpc' = "notify" /\ left' = left - 1
  /\ UNCHANGED <<stamp, workerVars, mainVars, clockVars>>

(* A line that yields no report. *)
HandleOther ==
  /\ rpc = "lines" /\ left > 0
  /\ left' = left - 1
  /\ UNCHANGED <<queueVars, rpc, stamp, fixes, newest, workerVars, mainVars, clockVars>>

(* Waking the worker is all that notify_one() and notify_all() do: no one  *)
(* else waits on the queue's condition variable.                           *)
WakeWorker == wpc' = IF wpc = "asleep" THEN "pop" ELSE wpc

(* push()'s notify_one(), after its critical section. *)
NotifyOne ==
  /\ rpc = "notify"
  /\ rpc' = "lines"
  /\ WakeWorker
  /\ UNCHANGED <<queueVars, stamp, left, fixes, newest, mono, call, lateSends, mainVars, clockVars>>

(* processMessages() looks at fd again only before the next recv(). *)
EndChunk ==
  /\ rpc = "lines" /\ left = 0
  /\ rpc' = IF connected THEN "recv" ELSE "exited"
  /\ UNCHANGED <<queueVars, stamp, left, fixes, newest, workerVars, mainVars, clockVars>>

(* disconnect() took the fd and shut the socket down: recv() returns 0. *)
RecvExit ==
  /\ rpc = "recv" /\ ~connected
  /\ rpc' = "exited"
  /\ UNCHANGED <<queueVars, stamp, left, fixes, newest, workerVars, mainVars, clockVars>>

-----------------------------------------------------------------------------
(* The worker: reporting_worker::run(). *)

(* pop() tests its predicate under the lock and, while it fails, releases  *)
(* the lock and sleeps in one step.                                        *)
PopWaits ==
  /\ wpc = "pop" /\ ~PopReady
  /\ wpc' = "asleep"
  /\ UNCHANGED <<queueVars, recvVars, mono, call, lateSends, mainVars, clockVars>>

SpuriousWakeup ==
  /\ wpc = "asleep"
  /\ wpc' = "pop"
  /\ UNCHANGED <<queueVars, recvVars, mono, call, lateSends, mainVars, clockVars>>

PopReturns ==
  /\ wpc = "pop"
  /\ \/ PopItem /\ wpc' = "clock"
     \/ PopNullopt /\ wpc' = "done"
  /\ UNCHANGED <<recvVars, mono, call, lateSends, mainVars, clockVars>>

(* Mutant: the clock is read once, before the loop. *)
ReadMonoOnce ==
  /\ wpc = "clock"
  /\ wpc' = "wall"
  /\ UNCHANGED <<queueVars, recvVars, mono, call, lateSends, mainVars, clockVars>>

ReadMono ==
  /\ wpc = "clock"
  /\ mono' = now
  /\ wpc' = "wall"
  /\ UNCHANGED <<queueVars, recvVars, call, lateSends, mainVars, clockVars>>

(* Mutant: the seconds are not saturated. *)
TslcUnsaturated(received, at) ==
  IF at <= received THEN 0 ELSE (at - received) \div Second

(* Whole seconds since reception, saturated to the wire's uint8_t. *)
derive_tslc(received, at) ==
  IF at <= received THEN 0
  ELSE LET s == (at - received) \div Second IN IF s < TslcMax THEN s ELSE TslcMax

(* Mutant: the report is stamped with the wall clock of the send. *)
WallOfSend(received, at, wall) == wall

(* The wall clock of the reception, saturated at 0. *)
derive_report_timestamp(received, at, wall) ==
  LET elapsed == IF at > received THEN at - received ELSE 0
  IN  IF elapsed <= wall THEN wall - elapsed ELSE 0

(* run()'s test of drain_deadline, and a mutant that is late by one tick. *)
ExpiredLate == now > deadline
Expired == now >= deadline

(* The wall clock is read after the monotonic one; then the call is made. *)
CallReporter ==
  /\ wpc = "wall"
  /\ LET wall == now + offset IN
       call' = [icao |-> popped.icao, fix |-> popped.fix, wall |-> wall,
                tslc |-> derive_tslc(popped.received, mono),
                timestamp |-> derive_report_timestamp(popped.received, mono, wall)]
  /\ lateSends' = IF now >= deadline THEN lateSends + 1 ELSE lateSends
  /\ wpc' = "sending"
  /\ UNCHANGED <<queueVars, recvVars, mono, mainVars, clockVars>>

(* reportAircraft() may block for as long as it likes. *)
SendReturns ==
  /\ wpc = "sending"
  /\ wpc' = "check"
  /\ UNCHANGED <<queueVars, recvVars, mono, call, lateSends, mainVars, clockVars>>

(* Reading the clock and the deadline in one step loses nothing: the       *)
(* deadline is armed once and the clock never goes back, so the answer is  *)
(* always the one that the moment of one of the two reads would give.      *)
CheckDeadline ==
  /\ wpc = "check"
  /\ wpc' = IF Expired THEN "clear" ELSE "pop"
  /\ UNCHANGED <<queueVars, recvVars, mono, call, lateSends, mainVars, clockVars>>

ClearAndBreak ==
  /\ wpc = "clear"
  /\ Clear
  /\ wpc' = "done"
  /\ UNCHANGED <<recvVars, mono, call, lateSends, mainVars, clockVars>>

-----------------------------------------------------------------------------
(* The main thread: the end of main() and reporting_worker::stop(). *)

(* sigIntHandler() cleared `running`, and the loop has noticed. *)
LeaveLoop ==
  /\ mpc = "loop"
  /\ mpc' = "disconnect"
  /\ UNCHANGED <<queueVars, recvVars, workerVars, connected, stopNow, deadline, clockVars>>

Disconnect ==
  /\ mpc = "disconnect"
  /\ connected' = FALSE
  /\ mpc' = "join_recv"
  /\ UNCHANGED <<queueVars, recvVars, workerVars, stopNow, deadline, clockVars>>

(* Mutant: the receive thread is not joined. *)
JoinRecvNoWait ==
  /\ mpc = "join_recv"
  /\ mpc' = "stop"
  /\ UNCHANGED <<queueVars, recvVars, workerVars, connected, stopNow, deadline, clockVars>>

JoinRecv ==
  /\ mpc = "join_recv" /\ rpc = "exited"
  /\ mpc' = "stop"
  /\ UNCHANGED <<queueVars, recvVars, workerVars, connected, stopNow, deadline, clockVars>>

(* stop() reads the clock, and stores the deadline it makes of it later. *)
ReadStopClock ==
  /\ mpc = "stop"
  /\ stopNow' = now
  /\ mpc' = "arm"
  /\ UNCHANGED <<queueVars, recvVars, workerVars, connected, deadline, clockVars>>

(* The deadline can have passed when it is stored. *)
ArmDeadline ==
  /\ mpc = "arm"
  /\ deadline' = stopNow + DrainTimeout
  /\ mpc' = "shutdown"
  /\ UNCHANGED <<queueVars, recvVars, workerVars, connected, stopNow, clockVars>>

ShutdownQueue ==
  /\ mpc = "shutdown"
  /\ Shutdown
  /\ mpc' = "notify_all"
  /\ UNCHANGED <<recvVars, workerVars, connected, stopNow, deadline, clockVars>>

(* Mutant: shutdown() sets the flag and wakes nobody. *)
NotifyNobody ==
  /\ mpc = "notify_all"
  /\ mpc' = "join_worker"
  /\ UNCHANGED <<queueVars, recvVars, workerVars, connected, stopNow, deadline, clockVars>>

NotifyAll ==
  /\ mpc = "notify_all"
  /\ WakeWorker
  /\ mpc' = "join_worker"
  /\ UNCHANGED <<queueVars, recvVars, mono, call, lateSends, connected, stopNow, deadline, clockVars>>

JoinWorker ==
  /\ mpc = "join_worker" /\ wpc = "done"
  /\ mpc' = "exited"
  /\ UNCHANGED <<queueVars, recvVars, workerVars, connected, stopNow, deadline, clockVars>>

-----------------------------------------------------------------------------
Environment ==
  \/ Tick
  \/ NtpStep
  \/ \E k \in 1..ChunkLines : Receive(k)
  \/ LeaveLoop
  \/ SpuriousWakeup

ReceiveThread ==
  \/ \E a \in Address : HandlePosition(a)
  \/ HandleOther \/ NotifyOne \/ EndChunk \/ RecvExit

WorkerThread ==
  \/ PopWaits \/ PopReturns \/ ReadMono \/ CallReporter
  \/ SendReturns \/ CheckDeadline \/ ClearAndBreak

MainThread ==
  \/ Disconnect \/ JoinRecv \/ ReadStopClock \/ ArmDeadline \/ ShutdownQueue
  \/ NotifyAll \/ JoinWorker

Next == Environment \/ ReceiveThread \/ WorkerThread \/ MainThread

SafeSpec == Init /\ [][Next]_vars

(* Each thread keeps running and each blocking call returns, reportAircraft() *)
(* included; nothing is assumed of new data, the clocks or the signal.        *)
Spec == SafeSpec /\ WF_vars(ReceiveThread) /\ WF_vars(WorkerThread) /\ WF_vars(MainThread)

-----------------------------------------------------------------------------
(* Type invariant: every variable, and each thread's place, is well formed. *)
TypeOK ==
  /\ QueueTypeOK
  /\ now \in Time /\ offset \in WallOffset
  /\ connected \in BOOLEAN
  /\ rpc \in {"recv", "lines", "notify", "exited"}
  /\ stamp \in Time /\ left \in 0..ChunkLines /\ fixes \in Nat
  /\ wpc \in {"pop", "asleep", "clock", "wall", "sending", "check", "clear", "done"}
  /\ wpc \in {"clock", "wall"} => popped \in PendingReport
  /\ mono \in Time
  /\ call \in [icao : Address \cup {Nullopt}, fix : Nat, wall : Nat,
               tslc : 0..TslcMax, timestamp : Nat]
  /\ stopNow \in Time /\ deadline \in Nat
  /\ mpc \in {"loop", "disconnect", "join_recv", "stop", "arm", "shutdown",
              "notify_all", "join_worker", "exited"}
  /\ newest \in [Address -> Nat]
  /\ lateSends \in Nat

(* pop() cannot sleep through work: while it sleeps although its predicate *)
(* holds, the wakeup of whoever made it hold is still to come (push() and  *)
(* shutdown() both notify after releasing the lock).                       *)
NoLostWakeup ==
  wpc = "asleep" /\ PopReady => rpc = "notify" \/ mpc = "notify_all"

(* The worker always gets an aircraft's newest fix, and never one older    *)
(* than it already got: what replaced a queued report, or came after it    *)
(* was dropped, is what is sent (report_queue::push's coalescing).         *)
SendsNewestFix ==
  [][\A r \in PendingReport :
       popped' = r /\ wpc = "pop" /\ wpc' = "clock" =>
         /\ r.fix = newest[r.icao]
         /\ call.icao = r.icao => r.fix > call.fix]_vars

(* The receive stamp is never ahead of the send's clock, which is why      *)
(* derive_tslc may call its now <= received guard unreachable              *)
(* (adsb_record.hpp).                                                      *)
ClockNeverBehind == wpc \in {"wall", "sending"} => popped.received <= mono

(* The age told in TSLC and the one told by the wire timestamp are the     *)
(* same age: one reading of the monotonic clock feeds both, whatever NTP   *)
(* does (comment in reporting_worker::run), and that age is never more     *)
(* than the time since reception.                                          *)
AgeAgrees ==
  wpc = "sending" =>
    LET age == call.wall - call.timestamp IN
    /\ call.tslc * Second <= age
    /\ age < (call.tslc + 1) * Second \/ call.tslc = TslcMax
    /\ age <= now - popped.received

(* After the drain deadline at most one more send is begun: the one for an *)
(* item popped between the worker's last look at the clock and the         *)
(* deadline (reporting_worker.hpp, stop()).                                *)
DrainBounded == lateSends <= 1

(* A backlog is discarded only in a shutdown, once the deadline has passed *)
(* and once no more reports can be pushed: a queued report is never lost   *)
(* to the drain while the program runs (drain_deadline's UINT64_MAX).      *)
DiscardsOnlyInDrain ==
  wpc = "clear" => mpc \notin {"loop", "disconnect", "join_recv", "stop", "arm"}
                   /\ now >= deadline /\ rpc = "exited"

(* When stop() has returned nobody touches the queue any more, and nothing *)
(* is left in it: main()'s order of teardown leaves no push() without a    *)
(* worker to pop it.                                                       *)
StopLeavesNothing ==
  /\ wpc = "done" => rpc = "exited" /\ DOMAIN items = {}
  /\ mpc = "exited" => wpc = "done"

(* The worker, the receive thread and main() use the queue as ReportQueue  *)
(* assumes: what they do to it is some sequence of its operations, in      *)
(* which every queued aircraft gets its turn.                              *)
QueueUsed == Handoff!Spec

(* The receive thread and disconnect() are the feed that Dump1090Link      *)
(* provides, however often its connection is lost in between.              *)
Disconnecting ==
  CASE mpc \in {"loop", "disconnect"} -> "open"
    [] mpc = "join_recv" -> "closing"
    [] OTHER -> "closed"
Reading ==
  CASE rpc = "recv" -> "waiting"
    [] rpc \in {"lines", "notify"} -> "handling"
    [] rpc = "exited" -> "gone"

Feed == INSTANCE DataFeed WITH reader <- Reading, phase <- Disconnecting
FeedAsProvided == Feed!Spec

(* A signal stops the program: every thread is joined, provided the send   *)
(* in flight returns.                                                      *)
ShutdownCompletes == mpc = "disconnect" ~> mpc = "exited"

(* What main() says of its teardown order: every report that is ever       *)
(* queued is at least attempted, so a discard finds nothing to discard.    *)
EveryQueuedAttempted == wpc = "clear" => DOMAIN items = {}
=============================================================================
