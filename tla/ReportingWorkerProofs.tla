----------------------- MODULE ReportingWorkerProofs -----------------------
(***************************************************************************)
(* What holds of the three threads around the queue for every number of    *)
(* aircraft, capacity, drain timeout and clock, and every interleaving.    *)
(***************************************************************************)
EXTENDS ReportingWorker, ReportQueueProofs

(* Everything the threads do to the queue is one of its operations, so     *)
(* what ReportQueueProofs says of the queue holds inside this program.     *)
LEMMA StepUsesQueue ==
  ASSUME TypeOK, [Next]_vars
  PROVE  [QueueNext]_queueVars
<1> USE DEF recvVars, workerVars, mainVars, clockVars
<1>1. ASSUME NEW a \in Address, HandlePosition(a) PROVE QueueNext
  <2> DEFINE r == [icao |-> a, received |-> stamp, fix |-> fixes + 1]
  <2>1. r \in PendingReport /\ r.icao = a /\ Push(r.icao, r)
    BY <1>1 DEF HandlePosition, TypeOK, PendingReport
  <2> QED BY <2>1 DEF QueueNext
<1>2. CASE PopReturns
  BY <1>2 DEF PopReturns, QueueNext, Pop
<1>3. CASE ShutdownQueue
  BY <1>3 DEF ShutdownQueue, QueueNext
<1>4. CASE ClearAndBreak
  BY <1>4 DEF ClearAndBreak, QueueNext
<1>5. CASE Environment
  BY <1>5 DEF Environment, Tick, NtpStep, Receive, LeaveLoop, SpuriousWakeup
<1>6. CASE HandleOther \/ NotifyOne \/ EndChunk \/ RecvExit
  BY <1>6 DEF HandleOther, NotifyOne, EndChunk, RecvExit
<1>7. CASE PopWaits \/ ReadMono \/ CallReporter \/ SendReturns \/ CheckDeadline
  BY <1>7 DEF PopWaits, ReadMono, CallReporter, SendReturns, CheckDeadline
<1>8. CASE Disconnect \/ JoinRecv \/ ReadStopClock \/ ArmDeadline \/ NotifyAll \/ JoinWorker
  BY <1>8 DEF Disconnect, JoinRecv, ReadStopClock, ArmDeadline, NotifyAll, JoinWorker
<1>9. CASE UNCHANGED vars
  BY <1>9 DEF vars
<1> QED BY <1>1, <1>2, <1>3, <1>4, <1>5, <1>6, <1>7, <1>8, <1>9
        DEF Next, ReceiveThread, WorkerThread, MainThread

(* What a division by ms_per_s returns. *)
LEMMA WholeSeconds ==
  ASSUME NEW n \in Nat, NEW d \in Nat \ {0}
  PROVE  /\ n \div d \in Nat
         /\ (n \div d) * d <= n
         /\ n < (n \div d + 1) * d
OBVIOUS

LEMMA TslcType ==
  ASSUME NEW received \in Nat, NEW at \in Nat
  PROVE  derive_tslc(received, at) \in 0..TslcMax
<1>1. CASE at <= received
  BY <1>1, WireAssumption DEF derive_tslc
<1>2. CASE at > received
  <2>1. (at - received) \div Second \in Nat
    BY <1>2, WholeSeconds, WireAssumption
  <2> QED BY <1>2, <2>1, WireAssumption DEF derive_tslc
<1> QED BY <1>1, <1>2

LEMMA TimestampType ==
  ASSUME NEW received \in Nat, NEW at \in Nat, NEW wall \in Nat
  PROVE  derive_report_timestamp(received, at, wall) \in Nat
BY DEF derive_report_timestamp

-----------------------------------------------------------------------------
(* The types of the threads' own variables. *)
LEMMA InitType == Init => TypeOK
<1> SUFFICES ASSUME Init PROVE TypeOK
  OBVIOUS
<1>1. QueueTypeOK
  BY InitQueueInv DEF Init, QueueInv
<1>2. call \in [icao : Address \cup {Nullopt}, fix : Nat, wall : Nat,
                tslc : 0..TslcMax, timestamp : Nat]
  BY WireAssumption DEF Init, NoCall
<1>3. deadline \in Nat
  BY ClockAssumption DEF Init, NoDeadline
<1>4. stamp \in Time /\ mono \in Time /\ now \in Time /\ stopNow \in Time
      /\ left \in 0..ChunkLines
  BY ClockAssumption, FixAssumption DEF Init
<1> QED BY <1>1, <1>2, <1>3, <1>4 DEF Init, TypeOK

LEMMA StepType ==
  ASSUME TypeOK, QueueInv, QueueTypeOK', [Next]_vars
  PROVE  TypeOK'
<1> USE DEF TypeOK, queueVars, recvVars, workerVars, mainVars, clockVars
<1>1. CASE Tick
  BY <1>1 DEF Tick
<1>2. CASE NtpStep
  BY <1>2 DEF NtpStep
<1>3. ASSUME NEW k \in 1..ChunkLines, Receive(k) PROVE TypeOK'
  BY <1>3, FixAssumption DEF Receive
<1>4. CASE LeaveLoop
  BY <1>4 DEF LeaveLoop
<1>5. CASE SpuriousWakeup
  BY <1>5 DEF SpuriousWakeup
<1>6. ASSUME NEW a \in Address, HandlePosition(a) PROVE TypeOK'
  <2>1. UNCHANGED popped
    BY <1>6 DEF HandlePosition, Push, Coalesce, Append1, Displace
  <2> QED BY <1>6, <2>1, FixAssumption DEF HandlePosition
<1>7. CASE HandleOther
  BY <1>7, FixAssumption DEF HandleOther
<1>8. CASE NotifyOne
  BY <1>8 DEF NotifyOne, WakeWorker
<1>9. CASE EndChunk
  BY <1>9 DEF EndChunk
<1>10. CASE RecvExit
  BY <1>10 DEF RecvExit
<1>11. CASE PopWaits
  BY <1>11 DEF PopWaits
<1>12. CASE PopReturns
  <2>1. CASE PopItem /\ wpc' = "clock"
    <3>1. popped' \in PendingReport
      BY <2>1, PopItemKeepsInv DEF PopItem, QueueTypeOK
    <3> QED BY <1>12, <2>1, <3>1 DEF PopReturns
  <2>2. CASE PopNullopt /\ wpc' = "done"
    BY <1>12, <2>2 DEF PopReturns
  <2> QED BY <1>12, <2>1, <2>2 DEF PopReturns
<1>13. CASE ReadMono
  BY <1>13 DEF ReadMono
<1>14. CASE CallReporter
  <2>1. popped.icao \in Address /\ popped.fix \in Nat /\ popped.received \in Nat
    BY <1>14, ClockAssumption, FixAssumption DEF CallReporter, PendingReport
  <2>2. now + offset \in Nat /\ mono \in Nat
    BY ClockAssumption, WireAssumption
  <2>3. call' \in [icao : Address \cup {Nullopt}, fix : Nat, wall : Nat,
                   tslc : 0..TslcMax, timestamp : Nat]
    BY <1>14, <2>1, <2>2, TslcType, TimestampType DEF CallReporter
  <2> QED BY <1>14, <2>3 DEF CallReporter
<1>15. CASE SendReturns
  BY <1>15 DEF SendReturns
<1>16. CASE CheckDeadline
  BY <1>16 DEF CheckDeadline
<1>17. CASE ClearAndBreak
  BY <1>17 DEF ClearAndBreak
<1>18. CASE Disconnect
  BY <1>18 DEF Disconnect
<1>19. CASE JoinRecv \/ ReadStopClock
  BY <1>19 DEF JoinRecv, ReadStopClock
<1>20. CASE ArmDeadline
  BY <1>20, ClockAssumption DEF ArmDeadline
<1>21. CASE ShutdownQueue
  BY <1>21 DEF ShutdownQueue, Shutdown
<1>22. CASE NotifyAll
  BY <1>22 DEF NotifyAll, WakeWorker
<1>23. CASE JoinWorker
  BY <1>23 DEF JoinWorker
<1>24. CASE UNCHANGED vars
  BY <1>24 DEF vars
<1> QED BY <1>1, <1>2, <1>3, <1>4, <1>5, <1>6, <1>7, <1>8, <1>9, <1>10, <1>11,
           <1>12, <1>13, <1>14, <1>15, <1>16, <1>17, <1>18, <1>19, <1>20, <1>21,
           <1>22, <1>23, <1>24
        DEF Next, Environment, ReceiveThread, WorkerThread, MainThread

-----------------------------------------------------------------------------
(* Where the threads can be together: what the shutdown sequence has done  *)
(* at each of main()'s places, and why the worker may discard or leave.    *)
Control ==
  /\ connected <=> mpc \in {"loop", "disconnect"}
  /\ mpc \notin {"loop", "disconnect", "join_recv"} => rpc = "exited"
  /\ mpc \in {"loop", "disconnect", "join_recv", "stop", "arm"} => deadline = Forever
  /\ stopped <=> mpc \in {"notify_all", "join_worker", "exited"}
  /\ wpc = "clear" => Expired
  /\ wpc = "done" => rpc = "exited" /\ order = <<>>
  /\ mpc = "exited" => wpc = "done"

(* Reception precedes the worker's clock reading.                          *)
Clocks ==
  /\ stamp <= now /\ mono <= now
  /\ \A a \in DOMAIN items : items[a].received <= now
  /\ popped \in PendingReport => popped.received <= now
  /\ ClockNeverBehind

(* Fixes are numbered as pushed: what waits is newer than what was taken.  *)
Freshness ==
  /\ \A a \in Address : newest[a] <= fixes
  /\ \A a \in DOMAIN items : items[a].fix = newest[a]
  /\ popped \in PendingReport =>
       /\ popped.fix <= fixes
       /\ popped.icao \in DOMAIN items => popped.fix < items[popped.icao].fix
  /\ call.fix <= fixes
  /\ call.icao \in DOMAIN items => call.fix < items[call.icao].fix

(* A send begun too late is the last one.                                  *)
LateSends ==
  /\ lateSends <= 1
  /\ lateSends > 0 => Expired /\ wpc \in {"sending", "check", "clear", "done"}

WorkerInv ==
  TypeOK /\ QueueInv /\ Control /\ NoLostWakeup /\ Clocks /\ Freshness /\ LateSends

LEMMA InitWorkerInv == Init => WorkerInv
<1> SUFFICES ASSUME Init PROVE WorkerInv
  OBVIOUS
<1>1. TypeOK
  BY InitType
<1>2. QueueInv
  BY InitQueueInv DEF Init
<1>3. Control
  BY DEF Init, QueueInit, Control, NoDeadline
<1>4. NoLostWakeup
  BY DEF Init, NoLostWakeup
<1>5. Clocks
  BY NulloptAssumption DEF Init, QueueInit, Clocks, ClockNeverBehind, PendingReport
<1>6. Freshness
  BY NulloptAssumption DEF Init, QueueInit, Freshness, PendingReport, NoCall
<1>7. LateSends
  BY DEF Init, LateSends
<1> QED BY <1>1, <1>2, <1>3, <1>4, <1>5, <1>6, <1>7 DEF WorkerInv

LEMMA StepControl ==
  ASSUME WorkerInv, [Next]_vars
  PROVE  Control'
<1> USE DEF WorkerInv, TypeOK, Control, Expired,
            queueVars, recvVars, workerVars, mainVars, clockVars
<1>1. CASE Tick
  BY <1>1, ClockAssumption DEF Tick
<1>2. CASE NtpStep \/ SpuriousWakeup
  BY <1>2 DEF NtpStep, SpuriousWakeup
<1>3. ASSUME NEW k \in 1..ChunkLines, Receive(k) PROVE Control'
  BY <1>3 DEF Receive
<1>4. CASE LeaveLoop
  BY <1>4 DEF LeaveLoop
<1>5. ASSUME NEW a \in Address, HandlePosition(a) PROVE Control'
  <2>1. UNCHANGED stopped
    BY <1>5 DEF HandlePosition, Push, Coalesce, Append1, Displace
  <2> QED BY <1>5, <2>1 DEF HandlePosition
<1>6. CASE HandleOther \/ EndChunk \/ RecvExit
  BY <1>6 DEF HandleOther, EndChunk, RecvExit
<1>7. CASE NotifyOne
  BY <1>7 DEF NotifyOne, WakeWorker
<1>8. CASE PopReturns
  BY <1>8 DEF PopReturns, PopItem, PopNullopt
<1>9. CASE PopWaits \/ ReadMono \/ CallReporter \/ SendReturns
  BY <1>9 DEF PopWaits, ReadMono, CallReporter, SendReturns
<1>10. CASE CheckDeadline
  BY <1>10 DEF CheckDeadline
<1>11. CASE ClearAndBreak
  BY <1>11, ClockAssumption DEF ClearAndBreak, Clear
<1>12. CASE Disconnect \/ JoinRecv \/ ReadStopClock
  BY <1>12 DEF Disconnect, JoinRecv, ReadStopClock
<1>13. CASE ArmDeadline
  BY <1>13, ClockAssumption DEF ArmDeadline
<1>14. CASE ShutdownQueue
  BY <1>14 DEF ShutdownQueue, Shutdown
<1>15. CASE NotifyAll
  BY <1>15 DEF NotifyAll, WakeWorker
<1>16. CASE JoinWorker
  BY <1>16 DEF JoinWorker
<1>17. CASE UNCHANGED vars
  BY <1>17 DEF vars
<1> QED BY <1>1, <1>2, <1>3, <1>4, <1>5, <1>6, <1>7, <1>8, <1>9, <1>10, <1>11,
           <1>12, <1>13, <1>14, <1>15, <1>16, <1>17
        DEF Next, Environment, ReceiveThread, WorkerThread, MainThread

(* Only a step that makes pop()'s predicate hold, one that spends a wakeup *)
(* or one that falls asleep could lose a wakeup.                           *)
LEMMA StepNoLostWakeup ==
  ASSUME WorkerInv, [Next]_vars
  PROVE  NoLostWakeup'
<1> USE DEF WorkerInv, NoLostWakeup, PopReady,
            queueVars, recvVars, workerVars, mainVars, clockVars
<1>1. ASSUME NEW a \in Address, HandlePosition(a) PROVE NoLostWakeup'
  BY <1>1 DEF HandlePosition
<1>2. CASE NotifyOne
  BY <1>2 DEF NotifyOne, WakeWorker
<1>3. CASE PopWaits
  BY <1>3 DEF PopWaits
<1>4. CASE ShutdownQueue
  BY <1>4 DEF ShutdownQueue
<1>5. CASE NotifyAll
  BY <1>5 DEF NotifyAll, WakeWorker
<1>6. CASE Environment
  BY <1>6 DEF Environment, Tick, NtpStep, Receive, LeaveLoop, SpuriousWakeup
<1>7. CASE HandleOther \/ EndChunk \/ RecvExit
  BY <1>7 DEF HandleOther, EndChunk, RecvExit
<1>8. CASE PopReturns \/ ReadMono \/ CallReporter \/ SendReturns
  BY <1>8 DEF PopReturns, ReadMono, CallReporter, SendReturns
<1>9. CASE CheckDeadline \/ ClearAndBreak
  BY <1>9 DEF CheckDeadline, ClearAndBreak
<1>10. CASE Disconnect \/ JoinRecv \/ ReadStopClock \/ ArmDeadline \/ JoinWorker
  BY <1>10 DEF Disconnect, JoinRecv, ReadStopClock, ArmDeadline, JoinWorker
<1>11. CASE UNCHANGED vars
  BY <1>11 DEF vars
<1> QED BY <1>1, <1>2, <1>3, <1>4, <1>5, <1>6, <1>7, <1>8, <1>9, <1>10, <1>11
        DEF Next, ReceiveThread, WorkerThread, MainThread

LEMMA StepLateSends ==
  ASSUME WorkerInv, [Next]_vars
  PROVE  LateSends'
<1> USE DEF WorkerInv, TypeOK, LateSends, Expired,
            queueVars, recvVars, workerVars, mainVars, clockVars
<1>1. CASE Tick
  BY <1>1, ClockAssumption DEF Tick
<1>2. CASE NtpStep \/ LeaveLoop \/ SpuriousWakeup
  BY <1>2 DEF NtpStep, LeaveLoop, SpuriousWakeup
<1>3. ASSUME NEW k \in 1..ChunkLines, Receive(k) PROVE LateSends'
  BY <1>3 DEF Receive
<1>4. ASSUME NEW a \in Address, HandlePosition(a) PROVE LateSends'
  BY <1>4 DEF HandlePosition
<1>5. CASE HandleOther \/ EndChunk \/ RecvExit
  BY <1>5 DEF HandleOther, EndChunk, RecvExit
<1>6. CASE NotifyOne \/ NotifyAll
  BY <1>6 DEF NotifyOne, NotifyAll, WakeWorker
<1>7. CASE PopWaits \/ PopReturns \/ ReadMono
  BY <1>7 DEF PopWaits, PopReturns, ReadMono
<1>8. CASE CallReporter
  BY <1>8 DEF CallReporter
<1>9. CASE SendReturns \/ CheckDeadline \/ ClearAndBreak
  BY <1>9 DEF SendReturns, CheckDeadline, ClearAndBreak
<1>10. CASE ArmDeadline
  <2>1. lateSends = 0
    BY <1>10, ClockAssumption DEF ArmDeadline, Control
  <2> QED BY <1>10, <2>1 DEF ArmDeadline
<1>11. CASE Disconnect \/ JoinRecv \/ ReadStopClock \/ ShutdownQueue \/ JoinWorker
  BY <1>11 DEF Disconnect, JoinRecv, ReadStopClock, ShutdownQueue, JoinWorker
<1>12. CASE UNCHANGED vars
  BY <1>12 DEF vars
<1> QED BY <1>1, <1>2, <1>3, <1>4, <1>5, <1>6, <1>7, <1>8, <1>9, <1>10, <1>11, <1>12
        DEF Next, Environment, ReceiveThread, WorkerThread, MainThread

-----------------------------------------------------------------------------
(* What push() and pop() do to the reports that stay queued: nothing.      *)
LEMMA PushEffect ==
  ASSUME QueueInv, NEW a \in Address, NEW r \in PendingReport, Push(a, r)
  PROVE  /\ DOMAIN items' \subseteq DOMAIN items \cup {a}
         /\ \A x \in DOMAIN items' : items'[x] = IF x = a THEN r ELSE items[x]
         /\ UNCHANGED <<stopped, popped>>
<1>1. CASE Coalesce(a, r)
  BY <1>1 DEF Coalesce, QueueInv, QueueTypeOK
<1>2. CASE Append1(a, r)
  BY <1>2 DEF Append1, Inserted
<1>3. CASE Displace(a, r)
  BY <1>3 DEF Displace, Inserted, Erased, Restrict
<1> QED BY <1>1, <1>2, <1>3 DEF Push

LEMMA PopEffect ==
  ASSUME QueueInv, PopItem
  PROVE  /\ Head(order) \in DOMAIN items
         /\ popped' = items[Head(order)]
         /\ popped' \in PendingReport
         /\ popped'.icao = Head(order)
         /\ DOMAIN items' = DOMAIN items \ {Head(order)}
         /\ \A x \in DOMAIN items' : items'[x] = items[x]
<1>1. Head(order) \in DOMAIN items
  BY PopItemKeepsInv
<1> QED BY <1>1 DEF PopItem, Erased, Restrict, QueueInv, QueueTypeOK, Bounded

LEMMA StepClocks ==
  ASSUME WorkerInv, [Next]_vars
  PROVE  Clocks'
<1> USE ClockAssumption
    DEF WorkerInv, TypeOK, Clocks, ClockNeverBehind, PendingReport,
        queueVars, recvVars, workerVars, mainVars, clockVars
<1>0. \A a \in DOMAIN items : items[a] \in PendingReport
  BY DEF QueueTypeOK
<1>1. CASE Tick
  <2>1. now' \in Nat /\ now < now' /\ UNCHANGED <<stamp, mono, items, popped, wpc>>
    BY <1>1 DEF Tick
  <2>2. \A a \in DOMAIN items : items[a].received \in Nat
    BY <1>0
  <2>3. popped \in PendingReport => popped.received \in Nat
    OBVIOUS
  <2> QED BY <2>1, <2>2, <2>3
<1>2. CASE NtpStep \/ LeaveLoop \/ SpuriousWakeup
  BY <1>2 DEF NtpStep, LeaveLoop, SpuriousWakeup
<1>3. ASSUME NEW k \in 1..ChunkLines, Receive(k) PROVE Clocks'
  BY <1>3 DEF Receive
<1>4. ASSUME NEW a \in Address, HandlePosition(a) PROVE Clocks'
  <2> DEFINE r == [icao |-> a, received |-> stamp, fix |-> fixes + 1]
  <2>1. r \in PendingReport /\ Push(a, r) /\ r.received <= now
    BY <1>4 DEF HandlePosition
  <2>2. /\ \A x \in DOMAIN items' : items'[x] = IF x = a THEN r ELSE items[x]
        /\ DOMAIN items' \subseteq DOMAIN items \cup {a}
        /\ UNCHANGED popped
    BY <2>1, PushEffect
  <2> HIDE DEF r
  <2>3. UNCHANGED <<now, stamp, mono, wpc>>
    BY <1>4 DEF HandlePosition
  <2> QED BY <2>1, <2>2, <2>3
<1>5. CASE HandleOther \/ EndChunk \/ RecvExit
  BY <1>5 DEF HandleOther, EndChunk, RecvExit
<1>6. CASE NotifyOne \/ NotifyAll
  BY <1>6 DEF NotifyOne, NotifyAll, WakeWorker
<1>7. CASE PopReturns
  <2>1. CASE PopItem /\ wpc' = "clock"
    BY <1>7, <2>1, PopEffect DEF PopReturns
  <2>2. CASE PopNullopt /\ wpc' = "done"
    BY <1>7, <2>2, NulloptAssumption DEF PopReturns, PopNullopt
  <2> QED BY <1>7, <2>1, <2>2 DEF PopReturns
<1>8. CASE ReadMono
  BY <1>8 DEF ReadMono
<1>9. CASE PopWaits \/ CallReporter \/ SendReturns \/ CheckDeadline
  BY <1>9 DEF PopWaits, CallReporter, SendReturns, CheckDeadline
<1>10. CASE ClearAndBreak
  BY <1>10 DEF ClearAndBreak, Clear
<1>11. CASE Disconnect \/ JoinRecv \/ ReadStopClock \/ ArmDeadline \/ JoinWorker
  BY <1>11 DEF Disconnect, JoinRecv, ReadStopClock, ArmDeadline, JoinWorker
<1>12. CASE ShutdownQueue
  BY <1>12 DEF ShutdownQueue, Shutdown
<1>13. CASE UNCHANGED vars
  BY <1>13 DEF vars
<1> QED BY <1>1, <1>2, <1>3, <1>4, <1>5, <1>6, <1>7, <1>8, <1>9, <1>10, <1>11,
           <1>12, <1>13
        DEF Next, Environment, ReceiveThread, WorkerThread, MainThread

LEMMA StepFreshness ==
  ASSUME WorkerInv, [Next]_vars
  PROVE  Freshness'
<1> USE FixAssumption
    DEF WorkerInv, TypeOK, Freshness, PendingReport,
        queueVars, recvVars, workerVars, mainVars, clockVars
<1>1. DOMAIN items \subseteq Address /\ Nullopt \notin PendingReport
  BY NulloptAssumption DEF QueueTypeOK
<1>2. ASSUME NEW a \in Address, HandlePosition(a) PROVE Freshness'
  <2> DEFINE r == [icao |-> a, received |-> stamp, fix |-> fixes + 1]
  <2>1. r \in PendingReport /\ r.fix = fixes + 1 /\ Push(a, r)
    BY <1>2 DEF HandlePosition
  <2>2. /\ \A x \in DOMAIN items' : items'[x] = IF x = a THEN r ELSE items[x]
        /\ DOMAIN items' \subseteq DOMAIN items \cup {a}
        /\ UNCHANGED popped
    BY <2>1, PushEffect
  <2> HIDE DEF r
  <2>3. /\ fixes' = fixes + 1 /\ UNCHANGED call
        /\ newest' = [newest EXCEPT ![a] = fixes + 1]
    BY <1>2 DEF HandlePosition
  <2>4. \A x \in Address : newest'[x] = (IF x = a THEN fixes + 1 ELSE newest[x])
                           /\ newest'[x] <= fixes'
    BY <2>3
  <2>5. \A x \in DOMAIN items' : items'[x].fix = newest'[x]
    BY <2>1, <2>2, <2>4, <1>1
  <2>6. popped' \in PendingReport =>
          /\ popped'.fix <= fixes'
          /\ popped'.icao \in DOMAIN items' => popped'.fix < items'[popped'.icao].fix
    <3> SUFFICES ASSUME popped \in PendingReport
                 PROVE  /\ popped.fix <= fixes + 1
                        /\ popped.icao \in DOMAIN items' =>
                             popped.fix < items'[popped.icao].fix
      BY <2>2, <2>3
    <3>1. popped.fix \in Nat /\ popped.fix <= fixes
      OBVIOUS
    <3> QED BY <3>1, <2>1, <2>2
  <2>7. /\ call'.fix <= fixes'
        /\ call'.icao \in DOMAIN items' => call'.fix < items'[call'.icao].fix
    <3>1. call.fix \in Nat /\ call.fix <= fixes
      OBVIOUS
    <3> QED BY <3>1, <2>1, <2>2, <2>3
  <2> QED BY <2>4, <2>5, <2>6, <2>7
<1>3. CASE PopReturns
  <2>1. CASE PopItem /\ wpc' = "clock"
    <3>1. UNCHANGED <<newest, fixes, call>>
      BY <1>3 DEF PopReturns
    <3>2. popped'.fix = newest[Head(order)] /\ Head(order) \in Address
      BY <2>1, <1>1, PopEffect
    <3> QED BY <2>1, <3>1, <3>2, PopEffect
  <2>2. CASE PopNullopt /\ wpc' = "done"
    BY <1>1, <1>3, <2>2 DEF PopReturns, PopNullopt
  <2> QED BY <1>3, <2>1, <2>2 DEF PopReturns
<1>4. CASE CallReporter
  <2>1. popped \in PendingReport /\ call'.fix = popped.fix /\ call'.icao = popped.icao
    BY <1>4 DEF CallReporter
  <2>2. UNCHANGED <<items, popped, newest, fixes>>
    BY <1>4 DEF CallReporter
  <2> QED BY <2>1, <2>2
<1>5. CASE ClearAndBreak
  BY <1>5 DEF ClearAndBreak, Clear
<1>6. CASE ShutdownQueue
  BY <1>6 DEF ShutdownQueue, Shutdown
<1>7. CASE Environment
  BY <1>7 DEF Environment, Tick, NtpStep, Receive, LeaveLoop, SpuriousWakeup
<1>8. CASE HandleOther \/ NotifyOne \/ EndChunk \/ RecvExit
  BY <1>8 DEF HandleOther, NotifyOne, EndChunk, RecvExit
<1>9. CASE PopWaits \/ ReadMono \/ SendReturns \/ CheckDeadline
  BY <1>9 DEF PopWaits, ReadMono, SendReturns, CheckDeadline
<1>10. CASE Disconnect \/ JoinRecv \/ ReadStopClock \/ ArmDeadline \/ NotifyAll \/ JoinWorker
  BY <1>10 DEF Disconnect, JoinRecv, ReadStopClock, ArmDeadline, NotifyAll, JoinWorker
<1>11. CASE UNCHANGED vars
  BY <1>11 DEF vars
<1> QED BY <1>2, <1>3, <1>4, <1>5, <1>6, <1>7, <1>8, <1>9, <1>10, <1>11
        DEF Next, ReceiveThread, WorkerThread, MainThread

LEMMA WorkerInvariant == SafeSpec => []WorkerInv
<1>1. WorkerInv /\ [Next]_vars => WorkerInv'
  <2> SUFFICES ASSUME WorkerInv, [Next]_vars PROVE WorkerInv'
    OBVIOUS
  <2>1. QueueInv'
    BY StepUsesQueue, QueueStep DEF WorkerInv
  <2>2. TypeOK'
    BY <2>1, StepType DEF WorkerInv, QueueInv
  <2> QED BY <2>1, <2>2, StepControl, StepNoLostWakeup, StepClocks,
             StepFreshness, StepLateSends DEF WorkerInv
<1> QED BY <1>1, InitWorkerInv, PTL DEF SafeSpec

-----------------------------------------------------------------------------
(* While a send is in flight its arguments describe the popped item and    *)
(* the one clock reading made for it.                                      *)
ToldAge ==
  wpc = "sending" =>
    /\ popped \in PendingReport
    /\ call.wall - call.timestamp = mono - popped.received
    /\ call.tslc = derive_tslc(popped.received, mono)

LEMMA StepToldAge ==
  ASSUME WorkerInv, ToldAge, [Next]_vars
  PROVE  ToldAge'
<1> USE DEF WorkerInv, TypeOK, ToldAge,
            queueVars, recvVars, workerVars, mainVars, clockVars
<1>1. CASE CallReporter
  <2>1. /\ popped.received \in Nat /\ mono \in Nat /\ now \in Nat /\ offset \in Nat
        /\ popped.received <= mono /\ mono <= now
    BY <1>1, ClockAssumption, WireAssumption
       DEF CallReporter, PendingReport, Clocks, ClockNeverBehind
  <2>2. derive_report_timestamp(popped.received, mono, now + offset)
          = now + offset - (mono - popped.received)
    BY <2>1 DEF derive_report_timestamp
  <2>3. /\ call'.wall = now + offset
        /\ call'.timestamp = derive_report_timestamp(popped.received, mono, now + offset)
        /\ call'.tslc = derive_tslc(popped.received, mono)
        /\ UNCHANGED <<popped, mono>> /\ popped \in PendingReport
    BY <1>1 DEF CallReporter
  <2> HIDE DEF TypeOK
  <2>4. call'.wall - call'.timestamp = mono - popped.received
    BY <2>1, <2>2, <2>3
  <2> QED BY <2>3, <2>4
<1>2. ASSUME NEW a \in Address, HandlePosition(a) PROVE ToldAge'
  BY <1>2 DEF HandlePosition, Push, Coalesce, Append1, Displace
<1>3. CASE NotifyOne \/ NotifyAll
  BY <1>3 DEF NotifyOne, NotifyAll, WakeWorker
<1>4. CASE PopWaits \/ PopReturns \/ ReadMono \/ SendReturns \/ CheckDeadline \/ ClearAndBreak
  BY <1>4 DEF PopWaits, PopReturns, ReadMono, SendReturns, CheckDeadline, ClearAndBreak
<1>5. CASE ShutdownQueue
  BY <1>5 DEF ShutdownQueue, Shutdown
<1>6. CASE Environment
  BY <1>6 DEF Environment, Tick, NtpStep, Receive, LeaveLoop, SpuriousWakeup
<1>7. CASE HandleOther \/ EndChunk \/ RecvExit
  BY <1>7 DEF HandleOther, EndChunk, RecvExit
<1>8. CASE Disconnect \/ JoinRecv \/ ReadStopClock \/ ArmDeadline \/ JoinWorker
  BY <1>8 DEF Disconnect, JoinRecv, ReadStopClock, ArmDeadline, JoinWorker
<1>9. CASE UNCHANGED vars
  BY <1>9 DEF vars
<1> QED BY <1>1, <1>2, <1>3, <1>4, <1>5, <1>6, <1>7, <1>8, <1>9
        DEF Next, ReceiveThread, WorkerThread, MainThread

LEMMA ToldAgeAgrees ==
  ASSUME WorkerInv, ToldAge
  PROVE  AgeAgrees
<1> SUFFICES ASSUME wpc = "sending"
             PROVE  LET age == call.wall - call.timestamp IN
                      /\ call.tslc * Second <= age
                      /\ age < (call.tslc + 1) * Second \/ call.tslc = TslcMax
                      /\ age <= now - popped.received
  BY DEF AgeAgrees
<1> DEFINE age == mono - popped.received
<1>1. /\ popped.received \in Nat /\ mono \in Nat /\ now \in Nat
      /\ popped.received <= mono /\ mono <= now
      /\ call.wall - call.timestamp = age
      /\ call.tslc = derive_tslc(popped.received, mono)
  BY ClockAssumption
     DEF ToldAge, WorkerInv, TypeOK, PendingReport, Clocks, ClockNeverBehind
<1>2. age \in Nat /\ age <= now - popped.received
  BY <1>1
<1>3. Second \in Nat \ {0} /\ TslcMax \in Nat
  BY WireAssumption
<1>4. call.tslc = IF age \div Second < TslcMax THEN age \div Second ELSE TslcMax
  <2>1. CASE mono <= popped.received
    BY <2>1, <1>1, <1>3 DEF derive_tslc
  <2>2. CASE mono > popped.received
    BY <2>2, <1>1 DEF derive_tslc
  <2> QED BY <1>1, <2>1, <2>2
<1>5. /\ age \div Second \in Nat
      /\ (age \div Second) * Second <= age
      /\ age < (age \div Second + 1) * Second
  BY <1>2, <1>3, WholeSeconds
<1>6. call.tslc * Second <= age
  <2>1. CASE age \div Second < TslcMax
    BY <2>1, <1>4, <1>5
  <2>2. CASE ~(age \div Second < TslcMax)
    <3>1. TslcMax * Second <= (age \div Second) * Second
      BY <2>2, <1>3, <1>5
    <3> QED BY <3>1, <2>2, <1>2, <1>3, <1>4, <1>5
  <2> QED BY <2>1, <2>2
<1>7. age < (call.tslc + 1) * Second \/ call.tslc = TslcMax
  BY <1>4, <1>5
<1> QED BY <1>1, <1>2, <1>6, <1>7

-----------------------------------------------------------------------------
(* Every variable keeps its type. *)
THEOREM WorkerTypes == SafeSpec => []TypeOK
<1>1. WorkerInv => TypeOK
  BY DEF WorkerInv
<1> QED BY <1>1, WorkerInvariant, PTL

(* The program runs the queue only through its operations, with reports    *)
(* filed under their own address, so the queue's theorems hold in it.      *)
THEOREM WorkerUsesQueue == SafeSpec => QueueSpec
<1>1. Init => QueueInit
  BY DEF Init
<1>2. TypeOK /\ [Next]_vars => [QueueNext]_queueVars
  BY StepUsesQueue
<1> QED BY <1>1, <1>2, WorkerTypes, PTL DEF SafeSpec, QueueSpec

(* In this program the queue is the coalescing hand-off.                   *)
THEOREM WorkerHandsOff == SafeSpec => Handoff!SafeSpec
BY WorkerUsesQueue, QueueImplementsHandoff

(* The worker never sleeps through a report or through shutdown().         *)
THEOREM WakeupsKept == SafeSpec => []NoLostWakeup
<1>1. WorkerInv => NoLostWakeup
  BY DEF WorkerInv
<1> QED BY <1>1, WorkerInvariant, PTL

(* derive_tslc's guard against now < received is indeed never needed.      *)
THEOREM ReceptionPrecedesSend == SafeSpec => []ClockNeverBehind
<1>1. WorkerInv => ClockNeverBehind
  BY DEF WorkerInv, Clocks
<1> QED BY <1>1, WorkerInvariant, PTL

(* At most one send is begun after the drain deadline, whatever the        *)
(* backlog and however the clock advances.                                 *)
THEOREM DrainIsBounded == SafeSpec => []DrainBounded
<1>1. WorkerInv => DrainBounded
  BY DEF WorkerInv, LateSends, DrainBounded
<1> QED BY <1>1, WorkerInvariant, PTL

(* The backlog is discarded only in a shutdown whose deadline has passed.  *)
THEOREM DiscardsInDrain == SafeSpec => []DiscardsOnlyInDrain
<1>1. WorkerInv => DiscardsOnlyInDrain
  BY ClockAssumption DEF WorkerInv, TypeOK, Control, Expired, DiscardsOnlyInDrain
<1> QED BY <1>1, WorkerInvariant, PTL

(* After stop() no thread uses the queue and nothing is left in it.        *)
THEOREM StopIsClean == SafeSpec => []StopLeavesNothing
<1>1. WorkerInv => StopLeavesNothing
  BY DEF WorkerInv, Control, QueueInv, OrderMatchesItems, Range, StopLeavesNothing
<1> QED BY <1>1, WorkerInvariant, PTL

(* An aircraft's fixes reach the reporter in order, each the newest known  *)
(* when it was taken.                                                      *)
THEOREM NewestIsSent == SafeSpec => SendsNewestFix
<1> DEFINE Newest == \A r \in PendingReport :
       popped' = r /\ wpc = "pop" /\ wpc' = "clock" =>
         /\ r.fix = newest[r.icao]
         /\ call.icao = r.icao => r.fix > call.fix
<1>1. WorkerInv /\ [Next]_vars => [Newest]_vars
  <2> SUFFICES ASSUME WorkerInv, Next, wpc = "pop", wpc' = "clock",
                      NEW r \in PendingReport, popped' = r
               PROVE  /\ r.fix = newest[r.icao]
                      /\ call.icao = r.icao => r.fix > call.fix
    OBVIOUS
  <2>1. PopReturns
    BY DEF Next, Environment, ReceiveThread, WorkerThread, MainThread,
           workerVars, mainVars, clockVars, recvVars, queueVars, WakeWorker,
           Tick, NtpStep, Receive, LeaveLoop, SpuriousWakeup, HandlePosition,
           HandleOther, NotifyOne, EndChunk, RecvExit, PopWaits, ReadMono,
           CallReporter, SendReturns, CheckDeadline, ClearAndBreak, Disconnect,
           JoinRecv, ReadStopClock, ArmDeadline, ShutdownQueue, NotifyAll, JoinWorker
  <2>2. PopItem
    BY <2>1 DEF PopReturns
  <2>3. /\ Head(order) \in DOMAIN items
        /\ r = items[Head(order)] /\ r.icao = Head(order)
    BY <2>2, PopEffect DEF WorkerInv
  <2>4. r.fix \in Nat /\ call.fix \in Nat
    BY FixAssumption DEF PendingReport, WorkerInv, TypeOK
  <2> QED BY <2>3, <2>4 DEF WorkerInv, Freshness
<1>2. SafeSpec => [][Newest]_vars
  BY <1>1, WorkerInvariant, PTL DEF SafeSpec
<1> QED BY <1>2 DEF SendsNewestFix

(* TSLC and the wire timestamp tell the same age, to the second or to      *)
(* TSLC's saturation, and never more than the time since reception.        *)
THEOREM AgesAgree == SafeSpec => []AgeAgrees
<1>1. Init => ToldAge
  BY DEF Init, ToldAge
<1>2. WorkerInv /\ ToldAge /\ [Next]_vars => ToldAge'
  BY StepToldAge
<1>3. WorkerInv /\ ToldAge => AgeAgrees
  BY ToldAgeAgrees
<1> QED BY <1>1, <1>2, <1>3, WorkerInvariant, PTL DEF SafeSpec

-----------------------------------------------------------------------------
(* Every step of the threads is a step of the feed, or leaves it alone.    *)
LEMMA StepFeeds ==
  ASSUME WorkerInv, [Next]_vars
  PROVE  [Feed!Next]_Feed!vars
<1> USE DEF WorkerInv, TypeOK, Control, Reading, Disconnecting, Feed!vars,
            recvVars, workerVars, mainVars, clockVars
<1>1. CASE UNCHANGED <<rpc, mpc>>
  BY <1>1
<1>2. ASSUME NEW k \in 1..ChunkLines, Receive(k) PROVE Feed!Next
  BY <1>2 DEF Receive, Feed!Next, Feed!BeginChunk
<1>3. CASE EndChunk
  BY <1>3 DEF EndChunk, Feed!Next, Feed!FinishChunk
<1>4. CASE RecvExit
  BY <1>4 DEF RecvExit, Feed!Next, Feed!Leave
<1>5. ASSUME NEW a \in Address, HandlePosition(a) PROVE UNCHANGED Feed!vars
  BY <1>5 DEF HandlePosition
<1>6. CASE HandleOther \/ NotifyOne
  BY <1>6 DEF HandleOther, NotifyOne
<1>7. CASE Disconnect
  BY <1>7 DEF Disconnect, Feed!Next, Feed!Close
<1>8. CASE JoinRecv
  BY <1>8 DEF JoinRecv, Feed!Next, Feed!Closed
<1>9. CASE LeaveLoop \/ ReadStopClock \/ ArmDeadline
  BY <1>9 DEF LeaveLoop, ReadStopClock, ArmDeadline
<1>10. CASE ShutdownQueue \/ NotifyAll \/ JoinWorker
  BY <1>10 DEF ShutdownQueue, NotifyAll, JoinWorker
<1>11. CASE Tick \/ NtpStep \/ SpuriousWakeup
  BY <1>1, <1>11 DEF Tick, NtpStep, SpuriousWakeup
<1>12. CASE WorkerThread
  BY <1>1, <1>12 DEF WorkerThread, PopWaits, PopReturns, ReadMono, CallReporter,
     SendReturns, CheckDeadline, ClearAndBreak
<1>13. CASE UNCHANGED vars
  BY <1>1, <1>13 DEF vars
<1> QED BY <1>2, <1>3, <1>4, <1>5, <1>6, <1>7, <1>8, <1>9, <1>10, <1>11, <1>12, <1>13
        DEF Next, Environment, ReceiveThread, MainThread

(* The receive thread of this module is the feed that Dump1090LinkProofs   *)
(* shows the link to provide: the safety half of FeedAsProvided.           *)
THEOREM WorkerIsFed == SafeSpec => Feed!SafeSpec
<1>1. Init => Feed!Init
  BY DEF Init, Reading, Disconnecting, Feed!Init
<1>2. WorkerInv /\ [Next]_vars => [Feed!Next]_Feed!vars
  BY StepFeeds
<1> QED BY <1>1, <1>2, WorkerInvariant, PTL DEF SafeSpec, Feed!SafeSpec

-----------------------------------------------------------------------------
(* When a thread can take no step of its own: it waits for another one, or *)
(* for data or the signal, or it is over.                                  *)
ReceiverBlocked == rpc = "exited" \/ (rpc = "recv" /\ connected)
WorkerBlocked == wpc \in {"asleep", "done"}
MainBlocked ==
  \/ mpc \in {"loop", "exited"}
  \/ mpc = "join_recv" /\ rpc # "exited"
  \/ mpc = "join_worker" /\ wpc # "done"

(* All three threads stand still only while the program is idle or when it *)
(* has ended, and then with an empty queue: no join, no sleep in pop() and *)
(* no lost wakeup ever holds them all, nor leaves a report lying.          *)
StandstillIsIdle ==
  ReceiverBlocked /\ WorkerBlocked /\ MainBlocked =>
    mpc \in {"loop", "exited"} /\ DOMAIN items = {}

THEOREM NeverDeadlocked == SafeSpec => []StandstillIsIdle
<1>1. WorkerInv => StandstillIsIdle
  <2> SUFFICES ASSUME WorkerInv, ReceiverBlocked, WorkerBlocked, MainBlocked
               PROVE  mpc \in {"loop", "exited"} /\ DOMAIN items = {}
    BY DEF StandstillIsIdle
  <2> USE DEF WorkerInv, TypeOK, Control, ReceiverBlocked, WorkerBlocked, MainBlocked
  <2>1. mpc # "join_recv"
    OBVIOUS
  <2>2. mpc # "join_worker"
    BY DEF NoLostWakeup, PopReady
  <2>3. order = <<>>
    BY <2>1, <2>2 DEF NoLostWakeup, PopReady
  <2>4. DOMAIN items = {}
    BY <2>3 DEF QueueInv, OrderMatchesItems, Range
  <2> QED BY <2>1, <2>2, <2>4
<1> QED BY <1>1, WorkerInvariant, PTL

(* The drain ends: once the receive thread is gone nothing enters the      *)
(* queue, and each turn of the worker's loop takes something out of it or  *)
(* is the last.                                                            *)
DrainShrinks ==
  [][rpc = "exited" =>
       /\ DOMAIN items' \subseteq DOMAIN items
       /\ wpc = "pop" /\ wpc' = "clock" => Len(order') = Len(order) - 1]_vars

THEOREM DrainEnds == SafeSpec => DrainShrinks
<1> DEFINE Shrinks == rpc = "exited" =>
       /\ DOMAIN items' \subseteq DOMAIN items
       /\ wpc = "pop" /\ wpc' = "clock" => Len(order') = Len(order) - 1
<1>1. WorkerInv /\ [Next]_vars => [Shrinks]_vars
  <2> SUFFICES ASSUME WorkerInv, Next, rpc = "exited" PROVE Shrinks
    OBVIOUS
  <2> USE DEF WorkerInv, recvVars, workerVars, mainVars, clockVars, queueVars
  <2>1. CASE PopReturns
    <3>1. CASE PopItem /\ wpc' = "clock"
      <4>1. Len(order') = Len(order) - 1
        BY <3>1 DEF PopItem, QueueInv, QueueTypeOK
      <4> QED BY <3>1, <4>1, PopEffect
    <3>2. CASE PopNullopt /\ wpc' = "done"
      BY <3>2 DEF PopNullopt
    <3> QED BY <2>1, <3>1, <3>2 DEF PopReturns
  <2>2. CASE ClearAndBreak
    BY <2>2 DEF ClearAndBreak, Clear
  <2>3. CASE ShutdownQueue
    BY <2>3 DEF ShutdownQueue, Shutdown
  <2>4. CASE PopWaits \/ ReadMono \/ CallReporter \/ SendReturns \/ CheckDeadline
    BY <2>4 DEF PopWaits, ReadMono, CallReporter, SendReturns, CheckDeadline
  <2>5. CASE ReceiveThread
    BY <2>5 DEF ReceiveThread, HandlePosition, HandleOther, NotifyOne, EndChunk, RecvExit
  <2>6. CASE Environment
    BY <2>6 DEF Environment, Tick, NtpStep, Receive, LeaveLoop, SpuriousWakeup
  <2>7. CASE Disconnect \/ JoinRecv \/ ReadStopClock \/ ArmDeadline \/ JoinWorker
    BY <2>7 DEF Disconnect, JoinRecv, ReadStopClock, ArmDeadline, JoinWorker
  <2>8. CASE NotifyAll
    BY <2>8 DEF NotifyAll, WakeWorker
  <2> QED BY <2>1, <2>2, <2>3, <2>4, <2>5, <2>6, <2>7, <2>8
          DEF Next, WorkerThread, MainThread
<1>2. SafeSpec => [][Shrinks]_vars
  BY <1>1, WorkerInvariant, PTL DEF SafeSpec
<1> QED BY <1>2 DEF DrainShrinks
=============================================================================
