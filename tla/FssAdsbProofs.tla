---------------------------- MODULE FssAdsbProofs ----------------------------
(***************************************************************************)
(* The composition uses the registry and the queue as their own modules    *)
(* assume, so what is proved of the parts holds of the program; and what   *)
(* is sent of an aircraft is the last report that was made of it.          *)
(***************************************************************************)
EXTENDS FssAdsb, AircraftRegistryProofs

QueueProofs == INSTANCE ReportQueueProofs WITH Fix <- PositionReport

-----------------------------------------------------------------------------
(* Every step of the program is a step of the registry or leaves it alone. *)
LEMMA RegistryStep == [SystemNext]_systemVars => [Next]_vars
<1> SUFFICES ASSUME [SystemNext]_systemVars PROVE [Next]_vars
  OBVIOUS
<1>1. CASE ClockTick \/ ReceiveThread
  BY <1>1 DEF ClockTick, ReceiveThread, ReceiveChunk, PushReport, FoldMessage, Next
<1>2. CASE WorkerThread
  BY <1>2 DEF WorkerThread, PopReport, SendReturns
<1>3. CASE MainThread
  BY <1>3 DEF MainThread, Turn, BeginSweep, Sweep, Next
<1>4. CASE UNCHANGED systemVars
  BY <1>4 DEF systemVars
<1>5. QED
  BY <1>1, <1>2, <1>3, <1>4 DEF SystemNext

(* So the registry's guarantees are the program's: honest valid bits, fair *)
(* eviction and exact sweeps, whatever the other threads do.               *)
THEOREM RegistryHolds ==
  SafeSystem => []TypeOK /\ FlagsHonest /\ EvictsLeastRecentlyHeard /\ SweepExact
<1>1. SystemInit => Init
  BY DEF SystemInit
<1>2. SafeSystem => Spec
  BY <1>1, RegistryStep, PTL DEF SafeSystem, Spec
<1>3. QED
  BY <1>2, RegistryTypes, FlagsAreHonest, EvictionIsFair, SweepIsExact

-----------------------------------------------------------------------------
(* The invariant: a record only holds what some message carries, and a     *)
(* queued report is its aircraft's last one, unless the receive thread is  *)
(* between fold() and push() of that aircraft.                             *)
SeenReported ==
  \A a \in DOMAIN known, f \in Field : f \notin Reported => known[a].seen[f] = Never

LatestQueued ==
  /\ \A a \in DOMAIN items : items[a] = latest[a] \/ (rpc = "push" /\ report.icao = a)
  /\ rpc = "push" => latest[report.icao] = Pending(report)

SystemInv ==
  SystemTypeOK /\ RegistryInv /\ QueueProofs!QueueInv /\ SeenReported /\ LatestQueued

LEMMA ReportedFields == Reported \subseteq Field
BY DEF Reported, Carries, Field, MotionField, IdentityField

(* A report of a well-formed record is a position report. *)
LEMMA BuildReportType ==
  ASSUME NEW rec \in Record, NEW m \in Message,
         \A f \in Field : f \notin Reported => rec.seen[f] = Never
  PROVE  build_report(rec, m) \in PositionReport \cup {NoReport}
<1> DEFINE v == [f \in Reported |-> rec.seen[f]]
<1>1. rec.seen \in [Field -> Time \cup {Never}] /\ v \in [Reported -> Time \cup {Never}]
  BY ReportedFields DEF Record
<1>2. rec.seen = [f \in Field |-> IF f \in Reported THEN v[f] ELSE Never]
  BY <1>1
<1> HIDE DEF v
<1>3. rec.seen \in {[f \in Field |-> IF f \in Reported THEN w[f] ELSE Never] :
                     w \in [Reported -> Time \cup {Never}]}
  BY <1>1, <1>2
<1>4. report_flags(rec, stamp) \subseteq Reported
  BY DEF report_flags
<1>5. m.icao \in Address
  BY DEF Message
<1>6. QED
  BY <1>3, <1>4, <1>5 DEF build_report, PositionReport

(* What fold() of a message leaves behind. *)
LEMMA FoldReports ==
  ASSUME TypeOK, SeenReported, NEW m \in Message, Fold(m)
  PROVE  /\ report' \in PositionReport \cup {NoReport} /\ SeenReported'
         /\ report' # NoReport => report'.icao = m.icao
         /\ UNCHANGED stamp /\ m.icao \in Address
<1>1. \E rec \in Record : \E gone :
        /\ Folded(m, rec, gone)
        /\ \A f \in Field : f \notin Reported => rec.seen[f] = Never
  <2>1. CASE FoldKnown(m)
    BY <2>1 DEF FoldKnown, TypeOK, SeenReported
  <2>2. CASE FoldNew(m)
    BY <2>2, NewRecordType DEF FoldNew, NewRecord
  <2>3. CASE FoldEvicting(m)
    BY <2>3, NewRecordType DEF FoldEvicting, NewRecord
  <2>4. QED
    BY <2>1, <2>2, <2>3 DEF Fold
<1>2. PICK rec \in Record :
        \E gone : /\ Folded(m, rec, gone)
                  /\ \A f \in Field : f \notin Reported => rec.seen[f] = Never
  BY <1>1
<1> DEFINE r == update_record(rec, m)
<1>3. Accepted(m) \subseteq Reported
  BY DEF Accepted, Message, Reported
<1>4. r \in Record /\ \A f \in Field : f \notin Reported => r.seen[f] = Never
  BY <1>2, <1>3, UpdateType DEF update_record, TypeOK
<1>5. report' = build_report(r, m) /\ UNCHANGED stamp /\ m.icao \in Address
  BY <1>2 DEF Folded, Message
<1>6. \A a \in DOMAIN known' : known'[a] = r \/ (a \in DOMAIN known /\ known'[a] = known[a])
  BY <1>2 DEF Folded
<1> HIDE DEF r
<1>7. SeenReported'
  BY <1>4, <1>6 DEF SeenReported
<1>8. report' \in PositionReport \cup {NoReport}
  BY <1>4, <1>5, BuildReportType
<1>9. report' # NoReport => report'.icao = m.icao
  BY <1>5 DEF build_report
<1>10. QED
  BY <1>5, <1>7, <1>8, <1>9

-----------------------------------------------------------------------------
(* Both instances of the queue are the same. *)
LEMMA SameCount ==
  \A S : Queue!Cardinality(S) = QueueProofs!Cardinality(S)
BY DEF Queue!Cardinality, QueueProofs!Cardinality, Queue!IsFiniteSet, QueueProofs!IsFiniteSet

LEMMA SameSize == Queue!Size = QueueProofs!Size
BY SameCount DEF Queue!Size, QueueProofs!Size

LEMMA SamePush ==
  ASSUME NEW a, NEW r
  PROVE  Queue!Push(a, r) <=> QueueProofs!Push(a, r)
BY SameSize DEF Queue!Push, QueueProofs!Push, Queue!Coalesce, QueueProofs!Coalesce,
   Queue!Append1, QueueProofs!Append1, Queue!Displace, QueueProofs!Displace,
   Queue!Full, QueueProofs!Full, Queue!Inserted, QueueProofs!Inserted,
   Queue!Erased, QueueProofs!Erased, Queue!Restrict, QueueProofs!Restrict

LEMMA SamePop == Queue!PopItem <=> QueueProofs!PopItem
BY DEF Queue!PopItem, QueueProofs!PopItem,
   Queue!Erased, QueueProofs!Erased, Queue!Restrict, QueueProofs!Restrict

LEMMA SameTypes ==
  /\ Queue!PendingReport = QueueProofs!PendingReport
  /\ Queue!QueueTypeOK <=> QueueProofs!QueueTypeOK
  /\ Queue!QueueInit <=> QueueProofs!QueueInit
BY DEF Queue!PendingReport, QueueProofs!PendingReport, Queue!QueueTypeOK,
   QueueProofs!QueueTypeOK, Queue!QueueInit, QueueProofs!QueueInit

LEMMA QueueAssumptions ==
  /\ Capacity \in Nat \ {0}
  /\ Nullopt \notin [icao : Address, received : Time, fix : PositionReport]
BY SystemAssumption DEF Queue!PendingReport

(* The queue's invariant survives every step of the queue. *)
LEMMA QueueKept ==
  ASSUME QueueProofs!QueueInv, [QueueProofs!QueueNext]_queueVars
  PROVE  QueueProofs!QueueInv' /\ Queue!QueueTypeOK'
<1>1. QueueProofs!QueueInv'
  BY QueueAssumptions, QueueProofs!QueueStep DEF queueVars, QueueProofs!queueVars
<1>2. QueueProofs!QueueTypeOK' => Queue!QueueTypeOK'
  BY DEF Queue!PendingReport, QueueProofs!PendingReport, Queue!QueueTypeOK,
     QueueProofs!QueueTypeOK
<1>3. QED
  BY <1>1, <1>2 DEF QueueProofs!QueueInv

LEMMA QueueInitInv == Queue!QueueInit => QueueProofs!QueueInv
BY SameTypes, QueueAssumptions, QueueProofs!InitQueueInv

-----------------------------------------------------------------------------
LEMMA SystemInitInv == SystemInit => SystemInv
<1> SUFFICES ASSUME SystemInit PROVE SystemInv
  OBVIOUS
<1>1. RegistryInv /\ TypeOK
  BY InitRegistryInv DEF SystemInit, RegistryInv
<1>2. QueueProofs!QueueInv /\ Queue!QueueTypeOK
  BY QueueInitInv, SameTypes DEF SystemInit, QueueProofs!QueueInv
<1>3. SystemTypeOK
  BY <1>1, <1>2, SystemAssumption DEF SystemInit, Init, SystemTypeOK
<1>4. SeenReported /\ LatestQueued
  BY DEF SystemInit, Init, Queue!QueueInit, SeenReported, LatestQueued
<1>5. QED
  BY <1>1, <1>2, <1>3, <1>4 DEF SystemInv

(* A step that leaves the queue and the reports alone. *)
LEMMA OtherSteps ==
  ASSUME SystemInv, [Next]_vars, UNCHANGED <<queueVars, rpc, latest, report, stamp>>,
         wpc' \in {"pop", "sending"}, seconds' \in 0..SweepEvery - 1, SeenReported'
  PROVE  SystemInv'
<1>1. RegistryInv' /\ TypeOK'
  BY StepRegistryInv DEF SystemInv, RegistryInv
<1>2. QueueProofs!QueueInv' /\ Queue!QueueTypeOK'
  BY QueueKept DEF SystemInv
<1>3. SystemTypeOK'
  BY <1>1, <1>2 DEF SystemInv, SystemTypeOK
<1>4. LatestQueued'
  BY DEF SystemInv, LatestQueued, Pending, queueVars
<1>5. QED
  BY <1>1, <1>2, <1>3, <1>4 DEF SystemInv

(* handle_adsb_data(), first half: an aircraft's last report changes. *)
LEMMA FoldMessageKeepsInv ==
  ASSUME SystemInv, NEW m \in Message, FoldMessage(m)
  PROVE  SystemInv'
<1>1. /\ rpc = "lines" /\ Fold(m) /\ UNCHANGED <<queueVars, wpc, seconds>>
      /\ rpc' = IF report' = NoReport THEN "lines" ELSE "push"
      /\ latest' = IF report' = NoReport THEN latest
                   ELSE [latest EXCEPT ![m.icao] = Pending(report')]
  BY DEF FoldMessage
<1>2. /\ report' \in PositionReport \cup {NoReport} /\ SeenReported'
      /\ report' # NoReport => report'.icao = m.icao
      /\ UNCHANGED stamp /\ m.icao \in Address
  BY <1>1, FoldReports DEF SystemInv, SystemTypeOK
<1>3. RegistryInv' /\ TypeOK'
  BY <1>1, StepRegistryInv DEF SystemInv, RegistryInv, Next
<1>4. QueueProofs!QueueInv' /\ Queue!QueueTypeOK'
  BY <1>1, QueueKept DEF SystemInv
<1>5. latest \in [Address -> Queue!PendingReport \cup {Nullopt}] /\ stamp \in Time
  BY DEF SystemInv, SystemTypeOK, TypeOK
<1>6. report' # NoReport => Pending(report') \in Queue!PendingReport
  BY <1>2, <1>5 DEF Pending, PositionReport, Queue!PendingReport
<1>7. latest' \in [Address -> Queue!PendingReport \cup {Nullopt}]
  BY <1>1, <1>2, <1>5, <1>6
<1>8. SystemTypeOK'
  BY <1>1, <1>2, <1>3, <1>4, <1>7 DEF SystemInv, SystemTypeOK
<1>9. LatestQueued'
  <2>1. \A a \in DOMAIN items : items[a] = latest[a]
    BY <1>1 DEF SystemInv, LatestQueued
  <2>2. UNCHANGED items
    BY <1>1 DEF queueVars
  <2>3. CASE report' = NoReport
    BY <1>1, <2>1, <2>2, <2>3 DEF LatestQueued
  <2>4. CASE report' # NoReport
    <3>1. \A a : a # m.icao => latest'[a] = latest[a]
      BY <1>1, <1>5, <2>4
    <3>2. latest'[m.icao] = Pending(report') /\ Pending(report)' = Pending(report')
      BY <1>1, <1>2, <1>5, <2>4 DEF Pending
    <3>3. QED
      BY <1>1, <1>2, <2>1, <2>2, <2>4, <3>1, <3>2 DEF LatestQueued
  <2>5. QED
    BY <2>3, <2>4
<1>10. QED
  BY <1>2, <1>3, <1>4, <1>8, <1>9 DEF SystemInv

(* handle_adsb_data(), second half: that report is queued. *)
LEMMA PushReportKeepsInv ==
  ASSUME SystemInv, PushReport
  PROVE  SystemInv' /\ QueueProofs!QueueNext
<1> DEFINE r == Pending(report)
<1>1. /\ rpc = "push" /\ Queue!Push(report.icao, r)
      /\ rpc' = "lines" /\ UNCHANGED <<vars, wpc, seconds, latest>>
  BY DEF PushReport
<1>2. report \in PositionReport /\ stamp \in Time /\ latest[report.icao] = r
  BY <1>1 DEF SystemInv, SystemTypeOK, TypeOK, LatestQueued
<1>3. r \in QueueProofs!PendingReport /\ r.icao = report.icao
  BY <1>2 DEF Pending, PositionReport, QueueProofs!PendingReport
<1> HIDE DEF r
<1>4. QueueProofs!QueueNext
  BY <1>1, <1>3, SamePush DEF QueueProofs!QueueNext
<1>5. QueueProofs!QueueInv' /\ Queue!QueueTypeOK'
  BY <1>4, QueueKept DEF SystemInv
<1>6. RegistryInv' /\ TypeOK' /\ UNCHANGED <<report, known, stamp>>
  BY <1>1, StepRegistryInv DEF SystemInv, RegistryInv, vars, recvVars, registryVars
<1>7. SystemTypeOK' /\ SeenReported'
  BY <1>1, <1>5, <1>6 DEF SystemInv, SystemTypeOK, SeenReported
<1>8. \A a \in DOMAIN items' :
        items'[a] = IF a = report.icao THEN r ELSE items[a]
  BY <1>1 DEF Queue!Push, Queue!Coalesce, Queue!Append1, Queue!Displace,
     Queue!Inserted, Queue!Erased, Queue!Restrict
<1>9. \A a \in DOMAIN items' : a # report.icao => a \in DOMAIN items
  BY <1>1 DEF Queue!Push, Queue!Coalesce, Queue!Append1, Queue!Displace,
     Queue!Inserted, Queue!Erased, Queue!Restrict
<1>10. LatestQueued'
  BY <1>1, <1>2, <1>8, <1>9 DEF SystemInv, LatestQueued
<1>11. QED
  BY <1>4, <1>5, <1>6, <1>7, <1>10 DEF SystemInv

(* What the worker takes is the front of the queue. *)
LEMMA PopTakesQueued ==
  ASSUME SystemInv, PopReport
  PROVE  /\ popped' \in Queue!PendingReport /\ popped'.icao \in DOMAIN items
         /\ popped' = items[popped'.icao]
         /\ \A a \in DOMAIN items' : a \in DOMAIN items /\ items'[a] = items[a]
<1>1. order # <<>> /\ popped' = items[Head(order)]
  BY DEF PopReport, Queue!PopItem
<1>2. Head(order) \in DOMAIN items
  BY SamePop, QueueAssumptions, QueueProofs!PopItemKeepsInv DEF SystemInv, PopReport
<1>3. popped'.icao = Head(order) /\ popped' \in Queue!PendingReport
  BY <1>1, <1>2 DEF SystemInv, SystemTypeOK, Queue!QueueTypeOK,
     QueueProofs!QueueInv, QueueProofs!Bounded
<1>4. \A a \in DOMAIN items' : a \in DOMAIN items /\ items'[a] = items[a]
  BY DEF PopReport, Queue!PopItem, Queue!Erased, Queue!Restrict
<1>5. QED
  BY <1>1, <1>2, <1>3, <1>4

LEMMA PopReportKeepsInv ==
  ASSUME SystemInv, PopReport
  PROVE  SystemInv' /\ QueueProofs!QueueNext
<1>1. /\ Queue!PopItem /\ wpc' = "sending" /\ UNCHANGED <<vars, rpc, seconds, latest>>
  BY DEF PopReport
<1>2. QueueProofs!QueueNext
  BY <1>1, SamePop DEF QueueProofs!QueueNext, QueueProofs!Pop
<1>3. QueueProofs!QueueInv' /\ Queue!QueueTypeOK'
  BY <1>2, QueueKept DEF SystemInv
<1>4. RegistryInv' /\ TypeOK' /\ UNCHANGED <<report, known, stamp>>
  BY <1>1, StepRegistryInv DEF SystemInv, RegistryInv, vars, recvVars, registryVars
<1>5. SystemTypeOK' /\ SeenReported'
  BY <1>1, <1>3, <1>4 DEF SystemInv, SystemTypeOK, SeenReported
<1>6. LatestQueued'
  BY <1>1, <1>4, PopTakesQueued DEF SystemInv, LatestQueued, Pending
<1>7. QED
  BY <1>2, <1>3, <1>4, <1>5, <1>6 DEF SystemInv

LEMMA SystemStep ==
  ASSUME SystemInv, [SystemNext]_systemVars
  PROVE  SystemInv' /\ [QueueProofs!QueueNext]_queueVars
<1>0. [Next]_vars
  BY RegistryStep
<1>1. CASE ClockTick \/ ReceiveChunk
  <2>1. UNCHANGED <<queueVars, rpc, wpc, seconds, latest, report, known>>
    BY <1>1 DEF ClockTick, ReceiveChunk, Tick, Receive, recvVars, registryVars
  <2>2. RegistryInv' /\ TypeOK'
    BY <1>0, StepRegistryInv DEF SystemInv, RegistryInv
  <2>3. QueueProofs!QueueInv' /\ Queue!QueueTypeOK'
    BY <2>1, QueueKept DEF SystemInv
  <2>4. SystemTypeOK' /\ SeenReported'
    BY <2>1, <2>2, <2>3 DEF SystemInv, SystemTypeOK, SeenReported
  <2>5. rpc = "push" => UNCHANGED stamp
    BY <1>1 DEF ClockTick, ReceiveChunk, Tick, recvVars
  <2>6. LatestQueued'
    BY <2>1, <2>5 DEF SystemInv, LatestQueued, Pending, queueVars
  <2>7. QED
    BY <2>1, <2>2, <2>3, <2>4, <2>6 DEF SystemInv
<1>2. ASSUME NEW m \in Message, FoldMessage(m)
      PROVE  SystemInv' /\ [QueueProofs!QueueNext]_queueVars
  BY <1>2, FoldMessageKeepsInv DEF FoldMessage
<1>3. CASE PushReport
  BY <1>3, PushReportKeepsInv
<1>4. CASE PopReport
  BY <1>4, PopReportKeepsInv
<1>5. CASE SendReturns \/ MainThread \/ UNCHANGED systemVars
  <2>1. UNCHANGED <<queueVars, rpc, latest, report, stamp>> /\ wpc' \in {"pop", "sending"}
    BY <1>5 DEF SystemInv, SystemTypeOK, SendReturns, MainThread, Turn, BeginSweep, Sweep,
       ReadSweepClock, EvictStale, ReportEvictions, systemVars, vars, recvVars
  <2>2. seconds' \in 0..SweepEvery - 1
    BY <1>5, SystemAssumption DEF SystemInv, SystemTypeOK, SendReturns, MainThread, Turn,
       BeginSweep, Sweep, systemVars
  <2>3. \A a \in DOMAIN known' : a \in DOMAIN known /\ known'[a] = known[a]
    BY <1>5 DEF SendReturns, MainThread, Turn, BeginSweep, Sweep, ReadSweepClock,
       EvictStale, Restrict, ReportEvictions, systemVars, vars, registryVars
  <2>4. SeenReported'
    BY <2>3 DEF SystemInv, SeenReported
  <2>5. QED
    BY <1>0, <2>1, <2>2, <2>4, OtherSteps
<1>6. QED
  BY <1>1, <1>2, <1>3, <1>4, <1>5 DEF SystemNext, ReceiveThread, WorkerThread

LEMMA SystemInvariant == SafeSystem => []SystemInv
BY SystemInitInv, SystemStep, PTL DEF SafeSystem

-----------------------------------------------------------------------------
(* Every part keeps its types in the composition; a report is only pushed  *)
(* when fold() returned one.                                               *)
THEOREM SystemTypes == SafeSystem => []SystemTypeOK
<1>1. SystemInv => SystemTypeOK
  BY DEF SystemInv
<1>2. QED
  BY <1>1, SystemInvariant, PTL

(* The receive thread and the worker use the queue as its module assumes   *)
(* (handle_adsb_data, main.cpp, and reporting_worker::run).                *)
THEOREM SystemUsesQueue == SafeSystem => QueueUsed
<1>1. SystemInit => Queue!QueueInit
  BY DEF SystemInit
<1>2. SystemInv /\ [SystemNext]_systemVars => [Queue!QueueNext]_Queue!queueVars
  <2> SUFFICES ASSUME SystemInv, [SystemNext]_systemVars
               PROVE  [Queue!QueueNext]_Queue!queueVars
    OBVIOUS
  <2>1. CASE PushReport
    <3>1. Pending(report) \in Queue!PendingReport /\ Pending(report).icao = report.icao
      BY <2>1 DEF SystemInv, SystemTypeOK, TypeOK, PushReport, Pending, PositionReport,
         Queue!PendingReport
    <3>2. QED
      BY <2>1, <3>1 DEF PushReport, Queue!QueueNext
  <2>2. CASE PopReport
    BY <2>2 DEF PopReport, Queue!QueueNext, Queue!Pop
  <2>3. CASE ~(PushReport \/ PopReport)
    BY <2>3 DEF SystemNext, ReceiveThread, WorkerThread, MainThread, ClockTick, ReceiveChunk,
       FoldMessage, SendReturns, Turn, BeginSweep, Sweep, systemVars, queueVars,
       Queue!queueVars
  <2>4. QED
    BY <2>1, <2>2, <2>3
<1>3. QED
  BY <1>1, <1>2, SystemInvariant, PTL DEF SafeSystem, QueueUsed, Queue!QueueSpec

(* So the queue's guarantees are the program's: it is bounded, in order,   *)
(* loses nothing but to a full queue, brings every queued report nearer    *)
(* the front with each pop(), and implements the hand-off.                 *)
THEOREM QueueHolds ==
  SafeSystem => /\ []QueueProofs!Bounded
                /\ QueueProofs!NoOvertaking /\ QueueProofs!LeavesInTurn
                /\ QueueProofs!AdvancesInTurn
                /\ QueueProofs!Handoff!SafeSpec
<1>1. SystemInit => QueueProofs!QueueInit
  BY SameTypes DEF SystemInit
<1>2. SystemInv /\ [SystemNext]_systemVars
        => [QueueProofs!QueueNext]_QueueProofs!queueVars
  BY SystemStep DEF queueVars, QueueProofs!queueVars
<1>3. SafeSystem => QueueProofs!QueueSpec
  BY <1>1, <1>2, SystemInvariant, PTL DEF SafeSystem, QueueProofs!QueueSpec
<1>4. QED
  BY <1>3, QueueAssumptions, QueueProofs!QueueBounded, QueueProofs!QueueFifo,
     QueueProofs!QueueLeavesInTurn, QueueProofs!QueueAdvances,
     QueueProofs!QueueImplementsHandoff

(* What the worker takes is the aircraft's last report, however the        *)
(* registry and the queue were changed since (coalescing in push(), values *)
(* copied in build_report()).                                              *)
THEOREM LatestIsSent == SafeSystem => SendsLatest
<1> DEFINE Latest == wpc = "pop" /\ wpc' = "sending" =>
       \/ popped' = latest[popped'.icao]
       \/ rpc = "push" /\ report.icao = popped'.icao
<1>1. SystemInv /\ [SystemNext]_systemVars => [Latest]_systemVars
  <2> SUFFICES ASSUME SystemInv, SystemNext, wpc = "pop", wpc' = "sending" PROVE Latest
    OBVIOUS
  <2>1. PopReport
    BY DEF SystemNext, ReceiveThread, WorkerThread, MainThread, ClockTick, ReceiveChunk,
       FoldMessage, PushReport, SendReturns, Turn, BeginSweep, Sweep
  <2>2. QED
    BY <2>1, PopTakesQueued DEF SystemInv, LatestQueued
<1>2. SafeSystem => [][Latest]_systemVars
  BY <1>1, SystemInvariant, PTL DEF SafeSystem
<1>3. QED
  BY <1>2 DEF SendsLatest

-----------------------------------------------------------------------------
(* Each turn and each part of a sweep brings it nearer, and no step of     *)
(* another thread or aircraft takes it further away (main's count of       *)
(* seconds, main.cpp, and isStale).                                        *)
THEOREM SilenceIsCounted == SafeSystem => ForgettingNears
<1> DEFINE Nears == \A a \in Address :
       SilentFor(a) /\ SilentFor(a)' /\ lastHeard'[a] = lastHeard[a] =>
         /\ StepsLeft(a) \in Nat /\ StepsLeft(a)' <= StepsLeft(a)
         /\ MainThread => StepsLeft(a)' < StepsLeft(a)
<1>1. SystemInv /\ [SystemNext]_systemVars => [Nears]_systemVars
  <2> SUFFICES ASSUME SystemInv, SystemNext, NEW a \in Address,
                      SilentFor(a), SilentFor(a)', lastHeard'[a] = lastHeard[a]
               PROVE  /\ StepsLeft(a) \in Nat /\ StepsLeft(a)' <= StepsLeft(a)
                      /\ MainThread => StepsLeft(a)' < StepsLeft(a)
    OBVIOUS
  <2>1. /\ seconds \in 0..SweepEvery - 1 /\ SweepEvery \in Nat
        /\ mpc \in {"loop", "sweep", "count"} /\ now \in Int /\ sweepNow \in Int
        /\ lastHeard[a] \in Int /\ StaleWindow \in Int
        /\ a \in DOMAIN known => known[a].last_seen = lastHeard[a]
    BY SystemAssumption, RegistryAssumption
       DEF SystemInv, SystemTypeOK, TypeOK, RegistryInv, Clocks
  <2>2. StepsLeft(a) \in Nat /\ StepsLeft(a) >= 1
    BY <2>1 DEF StepsLeft
  <2>3. CASE ClockTick \/ ReceiveThread \/ WorkerThread
    <3>1. UNCHANGED <<mpc, seconds, sweepNow>>
      BY <2>3 DEF ClockTick, ReceiveThread, WorkerThread, ReceiveChunk, FoldMessage,
         PushReport, PopReport, SendReturns, Tick, Receive, Fold, FoldKnown, FoldNew,
         FoldEvicting, Folded, vars, recvVars, registryVars, mainVars
    <3>2. StepsLeft(a)' = StepsLeft(a)
      BY <3>1 DEF StepsLeft
    <3>3. ~MainThread
      BY <2>1, <3>1 DEF MainThread, Turn, BeginSweep, Sweep, ReadSweepClock, EvictStale,
         ReportEvictions
    <3>4. QED
      BY <2>2, <3>2, <3>3
  <2>4. CASE Turn
    BY <2>1, <2>4 DEF Turn, StepsLeft, vars, mainVars
  <2>5. CASE BeginSweep
    <3>1. mpc = "loop" /\ mpc' = "sweep" /\ sweepNow' = now
      BY <2>5 DEF BeginSweep, ReadSweepClock
    <3>2. StepsLeft(a)' = 1 /\ StepsLeft(a) >= 2
      BY <2>1, <3>1 DEF StepsLeft, SilentFor
    <3>3. QED
      BY <2>2, <3>2
  <2>6. CASE Sweep /\ EvictStale
    <3>1. mpc = "sweep" /\ mpc' = "count" /\ UNCHANGED seconds /\ a \in DOMAIN known
          /\ a \notin Stale
      BY <2>6 DEF Sweep, EvictStale, SilentFor, Restrict
    <3>2. ~(sweepNow - lastHeard[a] >= StaleWindow)
      BY <2>1, <3>1, RegistryAssumption DEF Stale, isStale
    <3>3. QED
      BY <2>1, <2>2, <3>1, <3>2 DEF StepsLeft
  <2>7. CASE Sweep /\ ReportEvictions
    BY <2>1, <2>7 DEF Sweep, ReportEvictions, StepsLeft
  <2>8. QED
    BY <2>3, <2>4, <2>5, <2>6, <2>7 DEF SystemNext, MainThread, Sweep
<1>2. SafeSystem => [][Nears]_systemVars
  BY <1>1, SystemInvariant, PTL DEF SafeSystem
<1>3. QED
  BY <1>2 DEF ForgettingNears
=============================================================================
