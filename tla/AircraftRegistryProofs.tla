----------------------- MODULE AircraftRegistryProofs -----------------------
(***************************************************************************)
(* What holds of the registry for every set of aircraft, every capacity    *)
(* and window, and every interleaving of folds and sweeps.                 *)
(***************************************************************************)
EXTENDS AircraftRegistry, FiniteSetTheorems, TLAPS

(* The domain is finite: the registry is built one aircraft at a time.     *)
Sized == IsFiniteSet(DOMAIN known)

(* Stamps are never ahead of the clock, and each aircraft's last_seen is   *)
(* when it was heard last.                                                 *)
Clocks ==
  /\ stamp <= now /\ sweepNow <= now
  /\ \A a \in Address : lastHeard[a] <= stamp
  /\ \A a \in DOMAIN known : known[a].last_seen = lastHeard[a]

(* A record's field is the newest one received since admission.            *)
SeenIsNewest ==
  \A a \in DOMAIN known, f \in Field :
    /\ known[a].seen[f] = Never => Heard(a, f) = {}
    /\ known[a].seen[f] # Never =>
         known[a].seen[f] \in Heard(a, f)
         /\ \A t \in Heard(a, f) : t <= known[a].seen[f]

HeardOfKnown ==
  \A h \in heard : h.icao \in DOMAIN known /\ h.at <= stamp

RegistryInv == TypeOK /\ Sized /\ Clocks /\ HeardOfKnown /\ SeenIsNewest

LEMMA InitRegistryInv == Init => RegistryInv
<1> SUFFICES ASSUME Init PROVE RegistryInv
  OBVIOUS
<1>1. DOMAIN known = {} /\ IsFiniteSet({}) /\ Cardinality({}) = 0
  BY FS_EmptySet DEF Init
<1>2. TypeOK /\ Sized
  BY <1>1, RegistryAssumption DEF Init, TypeOK, Sized
<1>3. Clocks
  BY <1>1 DEF Init, Clocks
<1>4. HeardOfKnown /\ SeenIsNewest
  BY <1>1 DEF Init, HeardOfKnown, SeenIsNewest
<1> QED BY <1>2, <1>3, <1>4 DEF RegistryInv

(* A record stays well formed when a message is folded into it. *)
LEMMA UpdateType ==
  ASSUME stamp \in Time, NEW rec \in Record, NEW m
  PROVE  update_record(rec, m) \in Record
BY DEF update_record, Record

LEMMA NewRecordType == NewRecord \in Record
BY RegistryAssumption DEF NewRecord, Record

(* What every way of folding m into record rec does, gone being dropped.   *)
LEMMA FoldedKeepsInv ==
  ASSUME RegistryInv, NEW m \in Message, NEW rec \in Record,
         NEW gone \in SUBSET DOMAIN known, Folded(m, rec, gone),
         m.icao \notin gone,
         m.icao \in DOMAIN known => rec = known[m.icao],
         m.icao \notin DOMAIN known => rec = NewRecord,
         Cardinality(DOMAIN known') <= RegistryCapacity,
         evictions' \in Nat
  PROVE  RegistryInv'
<1> USE DEF RegistryInv
<1>1. /\ m.icao \in Address /\ stamp \in Time /\ Accepted(m) \subseteq Field
      /\ UNCHANGED <<now, stamp, mpc, sweepNow, warned>>
  BY DEF Message, TypeOK, Folded, mainVars, Accepted
<1>2. /\ DOMAIN known' = (DOMAIN known \ gone) \cup {m.icao}
      /\ \A a \in DOMAIN known' :
           known'[a] = IF a = m.icao THEN update_record(rec, m) ELSE known[a]
  BY DEF Folded
<1>3. update_record(rec, m) \in Record
  BY <1>1, UpdateType
<1>4. lastHeard' = [lastHeard EXCEPT ![m.icao] = stamp]
  BY DEF Folded
<1>5. heard' = {h \in heard : h.icao \notin gone}
               \cup {[icao |-> m.icao, field |-> f, at |-> stamp] : f \in Accepted(m)}
  BY DEF Folded
<1>6. TypeOK'
  <2>1. known' \in [DOMAIN known' -> Record]
    BY <1>2, <1>3 DEF TypeOK, Folded
  <2>2. heard' \subseteq [icao : Address, field : Field, at : Time]
    BY <1>1, <1>5 DEF TypeOK
  <2>3. lastHeard' \in [Address -> Time]
    BY <1>1, <1>4 DEF TypeOK
  <2> QED BY <1>1, <1>2, <2>1, <2>2, <2>3 DEF TypeOK
<1>7. Sized'
  <2>1. IsFiniteSet(DOMAIN known \ gone)
    BY FS_Subset DEF Sized
  <2> QED BY <2>1, <1>2, FS_AddElement DEF Sized
<1>8. Clocks'
  <2>1. \A a \in Address : lastHeard'[a] = IF a = m.icao THEN stamp ELSE lastHeard[a]
    BY <1>4 DEF TypeOK
  <2>2. update_record(rec, m).last_seen = stamp
    BY DEF update_record
  <2>3. stamp \in Nat
    BY <1>1, RegistryAssumption
  <2> QED BY <1>1, <1>2, <2>1, <2>2, <2>3 DEF Clocks, TypeOK
<1>9. HeardOfKnown'
  <2>1. stamp \in Nat
    BY <1>1, RegistryAssumption
  <2> QED BY <1>1, <1>2, <1>5, <2>1 DEF HeardOfKnown
<1>10. SeenIsNewest'
  <2> SUFFICES ASSUME NEW a \in DOMAIN known', NEW f \in Field
               PROVE  /\ known'[a].seen[f] = Never => Heard(a, f)' = {}
                      /\ known'[a].seen[f] # Never =>
                           known'[a].seen[f] \in Heard(a, f)'
                           /\ \A t \in Heard(a, f)' : t <= known'[a].seen[f]
    BY DEF SeenIsNewest
  <2>1. CASE a # m.icao
    <3>1. a \in DOMAIN known /\ a \notin gone /\ known'[a] = known[a]
      BY <2>1, <1>2
    <3>2. Heard(a, f)' = Heard(a, f)
      BY <2>1, <3>1, <1>5 DEF Heard
    <3> QED BY <3>1, <3>2 DEF SeenIsNewest
  <2>2. CASE a = m.icao
    <3>1. known'[a].seen[f] = IF f \in Accepted(m) THEN stamp ELSE rec.seen[f]
      <4>1. known'[a] = update_record(rec, m)
        BY <2>2, <1>2
      <4> HIDE DEF RegistryInv
      <4> QED BY <4>1 DEF update_record
    <3>2. Heard(a, f)' = Heard(a, f) \cup (IF f \in Accepted(m) THEN {stamp} ELSE {})
      <4> DEFINE g(x) == [icao |-> m.icao, field |-> x, at |-> stamp]
      <4>1. \A h \in heard : h.icao = a => h \in heard'
        BY <2>2, <1>5
      <4>2. \A x \in Accepted(m) : g(x) \in heard'
        BY <1>5
      <4>3. \A h \in heard' : h \in heard \/ \E x \in Accepted(m) : h = g(x)
        BY <1>5
      <4>4. \A x : g(x).icao = m.icao /\ g(x).field = x /\ g(x).at = stamp
        OBVIOUS
      <4> HIDE DEF g, RegistryInv
      <4>5. Heard(a, f)' \subseteq Heard(a, f) \cup (IF f \in Accepted(m) THEN {stamp} ELSE {})
        BY <2>2, <4>3, <4>4 DEF Heard
      <4>6. Heard(a, f) \subseteq Heard(a, f)'
        BY <4>1 DEF Heard
      <4>7. f \in Accepted(m) => stamp \in Heard(a, f)'
        BY <2>2, <4>2, <4>4 DEF Heard
      <4> QED BY <4>5, <4>6, <4>7
    <3>3. \A t \in Heard(a, f) : t <= stamp
      BY DEF Heard, HeardOfKnown
    <3>4. stamp # Never /\ stamp \in Nat
      BY <1>1, RegistryAssumption
    <3>5. CASE f \in Accepted(m)
      BY <3>1, <3>2, <3>3, <3>4, <3>5
    <3>6. CASE f \notin Accepted(m) /\ a \in DOMAIN known
      BY <2>2, <3>1, <3>2, <3>6 DEF SeenIsNewest
    <3>7. CASE f \notin Accepted(m) /\ a \notin DOMAIN known
      <4>1. Heard(a, f) = {}
        BY <3>7 DEF Heard, HeardOfKnown
      <4>2. rec.seen[f] = Never
        BY <2>2, <3>7 DEF NewRecord
      <4> QED BY <3>1, <3>2, <3>7, <4>1, <4>2
    <3> QED BY <3>5, <3>6, <3>7
  <2> QED BY <2>1, <2>2
<1> QED BY <1>6, <1>7, <1>8, <1>9, <1>10

(* A message folded into a registry with room, or about a known aircraft.  *)
LEMMA FoldKnownKeepsInv ==
  ASSUME RegistryInv, NEW m \in Message, FoldKnown(m)
  PROVE  RegistryInv'
<1>1. /\ m.icao \in DOMAIN known /\ known[m.icao] \in Record
      /\ Folded(m, known[m.icao], {})
      /\ evictions' \in Nat
  BY DEF FoldKnown, RegistryInv, TypeOK
<1>2. DOMAIN known' = DOMAIN known
  BY <1>1 DEF Folded
<1> QED BY <1>1, <1>2, FoldedKeepsInv DEF RegistryInv, TypeOK

LEMMA FoldNewKeepsInv ==
  ASSUME RegistryInv, NEW m \in Message, FoldNew(m)
  PROVE  RegistryInv'
<1>1. /\ m.icao \notin DOMAIN known /\ HasRoom
      /\ Folded(m, NewRecord, {})
      /\ evictions' \in Nat
  BY DEF FoldNew, RegistryInv, TypeOK
<1>2. DOMAIN known' = DOMAIN known \cup {m.icao}
  BY <1>1 DEF Folded
<1>3. Cardinality(DOMAIN known') <= RegistryCapacity
  <2>1. IsFiniteSet(DOMAIN known) /\ Cardinality(DOMAIN known) \in Nat
    BY FS_CardinalityType DEF RegistryInv, Sized
  <2>2. Cardinality(DOMAIN known') = Cardinality(DOMAIN known) + 1
    BY <1>1, <1>2, <2>1, FS_AddElement
  <2> QED BY <1>1, <2>1, <2>2, RegistryAssumption DEF HasRoom
<1> QED BY <1>1, <1>3, NewRecordType, FoldedKeepsInv

(* At capacity, one leaves and one comes. *)
LEMMA FoldEvictingKeepsInv ==
  ASSUME RegistryInv, NEW m \in Message, FoldEvicting(m)
  PROVE  RegistryInv'
<1>1. PICK b \in DOMAIN known : LeastRecentlySeen(b) /\ Folded(m, NewRecord, {b})
  BY DEF FoldEvicting
<1>2. m.icao \notin DOMAIN known /\ evictions' \in Nat
  BY DEF FoldEvicting, RegistryInv, TypeOK
<1>3. DOMAIN known' = (DOMAIN known \ {b}) \cup {m.icao}
  BY <1>1 DEF Folded
<1>4. Cardinality(DOMAIN known') <= RegistryCapacity
  <2>1. /\ IsFiniteSet(DOMAIN known \ {b})
        /\ Cardinality(DOMAIN known \ {b}) = Cardinality(DOMAIN known) - 1
    BY FS_RemoveElement DEF RegistryInv, Sized
  <2>2. Cardinality(DOMAIN known') = Cardinality(DOMAIN known \ {b}) + 1
    BY <1>2, <1>3, <2>1, FS_AddElement
  <2> QED BY <2>1, <2>2, FS_CardinalityType DEF RegistryInv, TypeOK, Sized
<1> QED BY <1>1, <1>2, <1>4, NewRecordType, FoldedKeepsInv

LEMMA EvictStaleKeepsInv ==
  ASSUME RegistryInv, EvictStale
  PROVE  RegistryInv'
<1> USE DEF RegistryInv
<1>1. /\ DOMAIN known' = DOMAIN known \ Stale
      /\ \A a \in DOMAIN known' : known'[a] = known[a]
      /\ known' \in [DOMAIN known' -> Record]
  BY DEF EvictStale, Restrict, TypeOK
<1>2. /\ UNCHANGED <<now, stamp, report, lastHeard, sweepNow, warned, evictions>>
      /\ mpc' = "count"
  BY DEF EvictStale, recvVars
<1>3. IsFiniteSet(DOMAIN known') /\ Cardinality(DOMAIN known') <= Cardinality(DOMAIN known)
  BY <1>1, FS_Subset DEF Sized
<1>4. heard' = {h \in heard : h.icao \notin Stale}
  BY DEF EvictStale
<1>5. TypeOK'
  <2>1. Cardinality(DOMAIN known') <= RegistryCapacity
    BY <1>3, FS_CardinalityType, RegistryAssumption DEF TypeOK, Sized
  <2> QED BY <1>1, <1>2, <1>4, <2>1 DEF TypeOK
<1>6. Sized' /\ Clocks' /\ HeardOfKnown'
  BY <1>1, <1>2, <1>3, <1>4 DEF Sized, Clocks, HeardOfKnown
<1>7. SeenIsNewest'
  <2>1. \A a \in DOMAIN known', f \in Field : Heard(a, f)' = Heard(a, f)
    BY <1>1, <1>4 DEF Heard
  <2> QED BY <1>1, <2>1 DEF SeenIsNewest
<1> QED BY <1>5, <1>6, <1>7

(* What a step that leaves the registry alone cannot disturb. *)
LEMMA RegistryAlone ==
  ASSUME RegistryInv, UNCHANGED registryVars
  PROVE  Sized' /\ SeenIsNewest'
<1>1. UNCHANGED <<known, heard>>
  BY DEF registryVars
<1>2. Sized'
  BY <1>1 DEF RegistryInv, Sized
<1>3. \A a, f : Heard(a, f)' = Heard(a, f)
  BY <1>1 DEF Heard
<1>4. SeenIsNewest'
  BY <1>1, <1>3 DEF RegistryInv, SeenIsNewest
<1> QED BY <1>2, <1>4

LEMMA StepRegistryInv ==
  ASSUME RegistryInv, [Next]_vars
  PROVE  RegistryInv'
<1>0. /\ now \in Nat /\ stamp \in Nat /\ sweepNow \in Nat
      /\ \A a \in Address : lastHeard[a] \in Nat
      /\ \A h \in heard : h.at \in Nat
  BY RegistryAssumption DEF RegistryInv, TypeOK
<1>1. CASE Tick
  <2>1. UNCHANGED registryVars /\ UNCHANGED <<recvVars, mainVars>>
    BY <1>1 DEF Tick
  <2>2. now' \in Time /\ now' > now /\ now' \in Nat
    BY <1>1, RegistryAssumption DEF Tick
  <2>3. TypeOK'
    BY <2>1, <2>2 DEF RegistryInv, TypeOK, registryVars, recvVars, mainVars
  <2>4. Clocks' /\ HeardOfKnown'
    BY <1>0, <2>1, <2>2
       DEF RegistryInv, Clocks, HeardOfKnown, registryVars, recvVars, mainVars
  <2> QED BY <2>1, <2>3, <2>4, RegistryAlone DEF RegistryInv
<1>2. CASE Receive
  <2>1. /\ UNCHANGED registryVars /\ UNCHANGED <<now, report, lastHeard>>
        /\ UNCHANGED mainVars /\ stamp' = now
    BY <1>2 DEF Receive
  <2>2. TypeOK'
    BY <2>1 DEF RegistryInv, TypeOK, registryVars, mainVars
  <2>3. Clocks'
    BY <1>0, <2>1 DEF RegistryInv, Clocks, registryVars, mainVars
  <2>4. HeardOfKnown'
    <3>1. stamp <= now
      BY DEF RegistryInv, Clocks
    <3>2. UNCHANGED <<known, heard>>
      BY <2>1 DEF registryVars
    <3>3. \A h \in heard : h.icao \in DOMAIN known /\ h.at <= now
      BY <1>0, <3>1 DEF RegistryInv, HeardOfKnown
    <3> QED BY <2>1, <3>2, <3>3 DEF HeardOfKnown
  <2> QED BY <2>1, <2>2, <2>3, <2>4, RegistryAlone DEF RegistryInv
<1>3. ASSUME NEW m \in Message, Fold(m) PROVE RegistryInv'
  BY <1>3, FoldKnownKeepsInv, FoldNewKeepsInv, FoldEvictingKeepsInv DEF Fold
<1>4. CASE ReadSweepClock
  <2>1. /\ UNCHANGED registryVars /\ UNCHANGED <<now, warned>>
        /\ UNCHANGED recvVars /\ sweepNow' = now /\ mpc' = "sweep"
    BY <1>4 DEF ReadSweepClock
  <2>2. TypeOK'
    BY <2>1 DEF RegistryInv, TypeOK, registryVars, recvVars
  <2>3. Clocks' /\ HeardOfKnown'
    BY <1>0, <2>1 DEF RegistryInv, Clocks, HeardOfKnown, registryVars, recvVars
  <2> QED BY <2>1, <2>2, <2>3, RegistryAlone DEF RegistryInv
<1>5. CASE EvictStale
  BY <1>5, EvictStaleKeepsInv
<1>6. CASE ReportEvictions
  <2>1. /\ UNCHANGED registryVars /\ UNCHANGED <<now, sweepNow>>
        /\ UNCHANGED recvVars /\ mpc' = "loop" /\ warned' \in {warned, evictions}
    BY <1>6 DEF ReportEvictions
  <2>2. TypeOK'
    BY <2>1 DEF RegistryInv, TypeOK, registryVars, recvVars
  <2>3. Clocks' /\ HeardOfKnown'
    BY <2>1 DEF RegistryInv, Clocks, HeardOfKnown, registryVars, recvVars
  <2> QED BY <2>1, <2>2, <2>3, RegistryAlone DEF RegistryInv
<1>7. CASE UNCHANGED vars
  <2>1. UNCHANGED registryVars /\ UNCHANGED <<now, recvVars, mainVars>>
    BY <1>7 DEF vars
  <2>2. TypeOK' /\ Clocks' /\ HeardOfKnown'
    BY <2>1 DEF RegistryInv, TypeOK, Clocks, HeardOfKnown, registryVars, recvVars, mainVars
  <2> QED BY <2>1, <2>2, RegistryAlone DEF RegistryInv
<1> QED BY <1>1, <1>2, <1>3, <1>4, <1>5, <1>6, <1>7 DEF Next

LEMMA RegistryInvariant == Spec => []RegistryInv
BY InitRegistryInv, StepRegistryInv, PTL DEF Spec

-----------------------------------------------------------------------------
(* The registry's memory is bounded by its capacity under any flood of     *)
(* distinct addresses.                                                     *)
THEOREM RegistryTypes == Spec => []TypeOK
<1>1. RegistryInv => TypeOK
  BY DEF RegistryInv
<1> QED BY <1>1, RegistryInvariant, PTL

(* A sweep never takes an aircraft heard within the window, and misses     *)
(* nobody silent for the window when it read the clock.                    *)
THEOREM SweepIsExact == Spec => SweepExact
<1> DEFINE Exact == mpc = "sweep" /\ mpc' = "count" =>
       /\ \A a \in DOMAIN known \ DOMAIN known' : now - lastHeard[a] >= StaleWindow
       /\ \A a \in DOMAIN known' : sweepNow - lastHeard[a] < StaleWindow
<1>1. RegistryInv /\ [Next]_vars => [Exact]_vars
  <2> SUFFICES ASSUME RegistryInv, Next, mpc = "sweep", mpc' = "count"
               PROVE  /\ \A a \in DOMAIN known \ DOMAIN known' :
                           now - lastHeard[a] >= StaleWindow
                      /\ \A a \in DOMAIN known' : sweepNow - lastHeard[a] < StaleWindow
    OBVIOUS
  <2>1. EvictStale
    BY DEF Next, Tick, Receive, Fold, FoldKnown, FoldNew, FoldEvicting, Folded,
           ReadSweepClock, ReportEvictions, mainVars
  <2>2. DOMAIN known' = DOMAIN known \ Stale
    BY <2>1 DEF EvictStale, Restrict
  <2>3. \A a \in DOMAIN known :
          /\ lastHeard[a] \in Nat /\ known[a].last_seen = lastHeard[a]
          /\ a \in Address
    BY RegistryAssumption DEF RegistryInv, TypeOK, Clocks
  <2>4. now \in Nat /\ sweepNow \in Nat /\ sweepNow <= now /\ StaleWindow \in Nat
    BY RegistryAssumption DEF RegistryInv, TypeOK, Clocks
  <2>5. \A a \in DOMAIN known :
          a \in Stale <=> sweepNow >= lastHeard[a] /\ sweepNow - lastHeard[a] >= StaleWindow
    BY <2>3 DEF Stale, isStale
  <2> QED BY <2>2, <2>3, <2>4, <2>5
<1>2. Spec => [][Exact]_vars
  BY <1>1, RegistryInvariant, PTL DEF Spec
<1> QED BY <1>2 DEF SweepExact

-----------------------------------------------------------------------------
(* Only a fold changes what fold() returned, when an aircraft was heard and *)
(* how many were evicted.                                                   *)
LEMMA FoldSteps ==
  ASSUME Next,
         report' # report \/ lastHeard' # lastHeard \/ evictions' # evictions
  PROVE  \E m \in Message : Fold(m)
BY DEF Next, Tick, Receive, ReadSweepClock, EvictStale, ReportEvictions,
       recvVars, registryVars

(* What the three ways of folding have in common. *)
LEMMA FoldShape ==
  ASSUME NEW m \in Message, Fold(m)
  PROVE  \E rec, gone : Folded(m, rec, gone) /\ m.icao \notin gone
<1>1. CASE FoldKnown(m)
  BY <1>1 DEF FoldKnown
<1>2. CASE FoldNew(m)
  BY <1>2 DEF FoldNew
<1>3. CASE FoldEvicting(m)
  BY <1>3 DEF FoldEvicting
<1> QED BY <1>1, <1>2, <1>3 DEF Fold

(* Every report's valid bits are exactly the fields received within their  *)
(* window since admission, and its values are the newest ones received.    *)
THEOREM FlagsAreHonest == Spec => FlagsHonest
<1> DEFINE Honest == report' # report /\ report' # NoReport =>
       \A f \in Field, a \in {report'.icao} :
         LET times == Heard(a, f)' IN
         /\ f \in report'.flags <=> \E t \in times : stamp - t < Window(f)
         /\ f \in report'.flags =>
              report'.values[f] \in times /\ \A t \in times : t <= report'.values[f]
<1>1. RegistryInv /\ RegistryInv' /\ [Next]_vars => [Honest]_vars
  <2> SUFFICES ASSUME RegistryInv', Next, report' # report, report' # NoReport,
                      NEW f \in Field, NEW a \in {report'.icao}
               PROVE  /\ f \in report'.flags
                           <=> \E t \in Heard(a, f)' : stamp - t < Window(f)
                      /\ f \in report'.flags =>
                           report'.values[f] \in Heard(a, f)'
                           /\ \A t \in Heard(a, f)' : t <= report'.values[f]
    OBVIOUS
  <2>0. PICK m \in Message : Fold(m)
    BY FoldSteps
  <2>1. PICK rec, gone : Folded(m, rec, gone)
    BY <2>0, FoldShape
  <2>2. /\ m.icao \in DOMAIN known'
        /\ known'[m.icao] = update_record(rec, m)
        /\ report' = build_report(known'[m.icao], m)
        /\ stamp' = stamp
    BY <2>1 DEF Folded
  <2> DEFINE seen == known'[m.icao].seen[f]
             times == Heard(a, f)'
  <2>3. /\ a = m.icao
        /\ report'.values = known'[m.icao].seen
        /\ report'.flags = report_flags(known'[m.icao], stamp)
    BY <2>2 DEF build_report
  <2>4. f \in report'.flags
          <=> seen # Never /\ ~(stamp >= seen /\ stamp - seen >= Window(f))
    BY <2>3 DEF report_flags, field_expired
  <2>5. /\ seen = Never => times = {}
        /\ seen # Never => seen \in times /\ \A t \in times : t <= seen
    BY <2>2, <2>3 DEF RegistryInv, SeenIsNewest
  <2>6. \A t \in times : t \in Nat /\ t <= stamp
    BY <2>2, RegistryAssumption DEF Heard, RegistryInv, HeardOfKnown, TypeOK
  <2>7. stamp \in Nat /\ Window(f) \in Nat
    BY <2>2, RegistryAssumption DEF RegistryInv, TypeOK, Window
  <2>8. report'.values[f] = seen
    BY <2>3
  <2> HIDE DEF seen, times
  <2>9. /\ f \in report'.flags <=> \E t \in times : stamp - t < Window(f)
        /\ f \in report'.flags =>
             report'.values[f] \in times /\ \A t \in times : t <= report'.values[f]
    BY <2>4, <2>5, <2>6, <2>7, <2>8
  <2> QED BY <2>9 DEF times
<1>2. Spec => [][Honest]_vars
  BY <1>1, RegistryInvariant, PTL DEF Spec
<1> QED BY <1>2 DEF FlagsHonest

(* Capacity costs exactly one aircraft, the one not heard for longest, and *)
(* only when a new one appears; whoever is heard is tracked afterwards.    *)
THEOREM EvictionIsFair == Spec => EvictsLeastRecentlyHeard
<1> DEFINE Fair == lastHeard' # lastHeard \/ evictions' # evictions =>
       LET gone == DOMAIN known \ DOMAIN known'
           new == DOMAIN known' \ DOMAIN known IN
       /\ \A b \in gone : \A a \in DOMAIN known : lastHeard[b] <= lastHeard[a]
       /\ Cardinality(gone) = evictions' - evictions
       /\ gone # {} => Cardinality(DOMAIN known) = RegistryCapacity /\ new # {}
       /\ \A a \in Address : lastHeard'[a] # lastHeard[a] => a \in DOMAIN known'
<1>1. RegistryInv /\ [Next]_vars => [Fair]_vars
  <2> SUFFICES ASSUME RegistryInv, Next,
                      lastHeard' # lastHeard \/ evictions' # evictions
               PROVE  Fair
    OBVIOUS
  <2> DEFINE gone == DOMAIN known \ DOMAIN known'
             new == DOMAIN known' \ DOMAIN known
  <2>1. PICK m \in Message : Fold(m)
    BY FoldSteps
  <2>2. /\ evictions \in Nat /\ RegistryCapacity \in Nat
        /\ IsFiniteSet(DOMAIN known) /\ Cardinality(DOMAIN known) \in Nat
        /\ Cardinality(DOMAIN known) <= RegistryCapacity
        /\ \A a \in DOMAIN known : a \in Address /\ known[a].last_seen = lastHeard[a]
    BY RegistryAssumption, FS_CardinalityType DEF RegistryInv, TypeOK, Sized, Clocks
  <2>3. \A a \in Address : lastHeard'[a] # lastHeard[a] => a \in DOMAIN known'
    <3>1. PICK rec, out : Folded(m, rec, out)
      BY <2>1, FoldShape
    <3>2. m.icao \in DOMAIN known' /\ lastHeard' = [lastHeard EXCEPT ![m.icao] = stamp]
      BY <3>1 DEF Folded
    <3> QED BY <3>2 DEF RegistryInv, TypeOK
  <2>4. CASE FoldKnown(m) \/ FoldNew(m)
    <3>1. gone = {} /\ evictions' = evictions
      BY <2>4 DEF FoldKnown, FoldNew, Folded
    <3>2. Cardinality(gone) = 0
      BY <3>1, FS_EmptySet
    <3> QED BY <2>2, <2>3, <3>1, <3>2
  <2>5. CASE FoldEvicting(m)
    <3>1. PICK b \in DOMAIN known : LeastRecentlySeen(b) /\ Folded(m, NewRecord, {b})
      BY <2>5 DEF FoldEvicting
    <3>2. m.icao \notin DOMAIN known /\ ~HasRoom /\ evictions' = evictions + 1
      BY <2>5 DEF FoldEvicting
    <3>3. DOMAIN known' = (DOMAIN known \ {b}) \cup {m.icao}
      BY <3>1 DEF Folded
    <3>4. gone = {b} /\ new # {}
      BY <3>2, <3>3
    <3>5. Cardinality(gone) = 1
      BY <3>4, FS_Singleton
    <3>6. Cardinality(DOMAIN known) = RegistryCapacity
      BY <2>2, <3>2 DEF HasRoom
    <3>7. \A a \in DOMAIN known : lastHeard[b] <= lastHeard[a]
      BY <2>2, <3>1 DEF LeastRecentlySeen
    <3>8. Cardinality(gone) = evictions' - evictions
      BY <2>2, <3>2, <3>5
    <3> QED BY <2>3, <3>4, <3>6, <3>7, <3>8
  <2> QED BY <2>1, <2>4, <2>5 DEF Fold
<1>2. Spec => [][Fair]_vars
  BY <1>1, RegistryInvariant, PTL DEF Spec
<1> QED BY <1>2 DEF EvictsLeastRecentlyHeard
=============================================================================
