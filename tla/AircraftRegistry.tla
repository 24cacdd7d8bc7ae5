-------------------------- MODULE AircraftRegistry --------------------------
(***************************************************************************)
(* aircraft_registry (aircraft_registry.cpp) with the decision logic of    *)
(* adsb_record.hpp, and its two users: dump1090's receive thread, which    *)
(* stamps a chunk and folds its messages, and the main thread, which once  *)
(* a minute runs evict_stale_aircraft().  fold(), evict_stale() and        *)
(* capacity_evictions() each hold the registry's lock throughout and are   *)
(* one action each; a clock read before the lock is an action of its own.  *)
(* A field's value stands for itself by the time it was observed at.       *)
(***************************************************************************)
EXTENDS AdsbMessage, FiniteSets, Functions

CONSTANTS
  Time,              (* values of the monotonic clock                     *)
  RegistryCapacity,  (* default_registry_capacity                         *)
  MotionWindow,      (* motion_freshness_ms                               *)
  IdentityWindow,    (* identity_freshness_ms                             *)
  StaleWindow,       (* stale_window_ms of evict_stale_aircraft()         *)
  Never,             (* a field that was never set                        *)
  NoReport,          (* std::nullopt                                      *)
  MaxEvictions       (* bound of the model: capacity evictions counted    *)

ASSUME RegistryAssumption ==
  /\ RegistryCapacity \in Nat \ {0}
  /\ Time \subseteq Nat /\ 0 \in Time /\ Never \notin Time
  /\ MaxEvictions \in Nat
  /\ MotionWindow \in Nat /\ IdentityWindow \in Nat /\ StaleWindow \in Nat

Window(f) == IF f \in MotionField THEN MotionWindow ELSE IdentityWindow

VARIABLES
  now,        (* CLOCK_MONOTONIC                                            *)
  stamp,      (* the receive thread's stamp of its current chunk            *)
  known,      (* known_aircraft                                             *)
  evictions,  (* the aircraft dropped for want of room                      *)
  report,     (* what the last fold() returned                              *)
  mpc,        (* the main thread's place in evict_stale_aircraft()          *)
  sweepNow,   (* its `now`                                                  *)
  warned,     (* reported_capacity_evictions                                *)
  lastHeard,  (* for each aircraft, when a message of it was last received  *)
  heard       (* usable fields received of the known aircraft: who, what, when *)

recvVars == <<stamp, report, lastHeard>>
mainVars == <<mpc, sweepNow, warned>>
registryVars == <<known, evictions, heard>>
vars == <<now, recvVars, mainVars, registryVars>>

(* A record as fold() creates it. *)
NewRecord == [last_seen |-> 0, seen |-> [f \in Field |-> Never]]

Init ==
  /\ now = 0 /\ stamp = 0
  /\ known = [a \in {} |-> NewRecord]
  /\ evictions = 0
  /\ report = NoReport
  /\ mpc = "loop" /\ sweepNow = 0 /\ warned = 0
  /\ lastHeard = [a \in Address |-> 0]
  /\ heard = {}

Tick ==
  /\ \E t \in Time : t > now /\ now' = t
  /\ UNCHANGED <<recvVars, mainVars, registryVars>>

(* recv() returned: everything in this chunk is stamped with this time. *)
Receive ==
  /\ stamp # now
  /\ stamp' = now
  /\ UNCHANGED <<now, report, lastHeard, mainVars, registryVars>>

-----------------------------------------------------------------------------
(* What fold() does to the aircraft's record. *)

(* Mutants: motion fields that the message lacks are cleared; a message    *)
(* that carries nothing does not count as being heard.                     *)
UpdateDropsMotion(rec, m) ==
  [last_seen |-> stamp,
   seen |-> [f \in Field |-> IF f \in Accepted(m) THEN stamp
                             ELSE IF f \in MotionField THEN Never ELSE rec.seen[f]]]
UpdateIgnoresEmpty(rec, m) ==
  [last_seen |-> IF m.fields = {} THEN rec.last_seen ELSE stamp,
   seen |-> [f \in Field |-> IF f \in Accepted(m) THEN stamp ELSE rec.seen[f]]]

(* update_record() copies what the message carries and keeps the rest; the *)
(* record's last_seen is set to the message's stamp whatever it carries.   *)
update_record(rec, m) ==
  [last_seen |-> stamp,
   seen |-> [f \in Field |-> IF f \in Accepted(m) THEN stamp ELSE rec.seen[f]]]

field_expired(as_of, observed, window) ==
  as_of >= observed /\ as_of - observed >= window

(* The valid bits, as of the triggering message's reception. *)
report_flags(rec, as_of) ==
  {f \in Field : rec.seen[f] # Never
                 /\ ~field_expired(as_of, rec.seen[f], Window(f))}

(* Only a message that carries a position itself makes a report; all the   *)
(* other values come from the record.                                      *)
build_report(rec, m) ==
  IF m.position
  THEN [icao |-> m.icao, values |-> rec.seen, flags |-> report_flags(rec, stamp)]
  ELSE NoReport

(* The fields of the registry once m's record is rec and gone were dropped. *)
Folded(m, rec, gone) ==
  /\ known' = [a \in (DOMAIN known \ gone) \cup {m.icao} |->
                 IF a = m.icao THEN update_record(rec, m) ELSE known[a]]
  /\ report' = build_report(update_record(rec, m), m)
  /\ lastHeard' = [lastHeard EXCEPT ![m.icao] = stamp]
  /\ heard' = {h \in heard : h.icao \notin gone}
              \cup {[icao |-> m.icao, field |-> f, at |-> stamp] : f \in Accepted(m)}
  /\ UNCHANGED <<now, stamp, mainVars>>

(* fold() of a known aircraft's message, however full the registry is. *)
FoldKnown(m) ==
  /\ m.icao \in DOMAIN known
  /\ Folded(m, known[m.icao], {})
  /\ UNCHANGED evictions

(* fold()'s test of the registry's capacity, and a mutant off by one. *)
HasRoomForOneMore == Cardinality(DOMAIN known) <= RegistryCapacity
HasRoom == Cardinality(DOMAIN known) < RegistryCapacity

(* fold() of a new aircraft's message while there is room. *)
FoldNew(m) ==
  /\ m.icao \notin DOMAIN known
  /\ HasRoom
  /\ Folded(m, NewRecord, {})
  /\ UNCHANGED evictions

(* min_element over the records by last_seen; of several with the oldest,  *)
(* whichever the map's key order puts first.                               *)
LeastRecentlySeen(b) ==
  \A a \in DOMAIN known : known[b].last_seen <= known[a].last_seen

(* fold() of a new aircraft's message at capacity: room is made first. *)
FoldEvicting(m) ==
  /\ m.icao \notin DOMAIN known
  /\ ~HasRoom
  /\ \E b \in DOMAIN known : LeastRecentlySeen(b) /\ Folded(m, NewRecord, {b})
  /\ evictions < MaxEvictions
  /\ evictions' = evictions + 1

Fold(m) == FoldKnown(m) \/ FoldNew(m) \/ FoldEvicting(m)

-----------------------------------------------------------------------------
(* The main thread: evict_stale_aircraft(). *)

(* The clock is read before evict_stale() takes the registry's lock. *)
ReadSweepClock ==
  /\ mpc = "loop"
  /\ sweepNow' = now
  /\ mpc' = "sweep"
  /\ UNCHANGED <<now, recvVars, warned, registryVars>>

(* Mutant: no guard, the unsigned difference wraps. *)
WrappingAge(rec, at, window) == (at - rec.last_seen) % 64 >= window

isStale(rec, at, window) ==
  at >= rec.last_seen /\ at - rec.last_seen >= window

Stale == {a \in DOMAIN known : isStale(known[a], sweepNow, StaleWindow)}

EvictStale ==
  /\ mpc = "sweep"
  /\ known' = Restrict(known, DOMAIN known \ Stale)
  /\ heard' = {h \in heard : h.icao \notin Stale}
  /\ mpc' = "count"
  /\ UNCHANGED <<now, recvVars, sweepNow, warned, evictions>>

(* The warning tells how many were dropped since the last one. *)
ReportEvictions ==
  /\ mpc = "count"
  /\ warned' = IF evictions > warned THEN evictions ELSE warned
  /\ mpc' = "loop"
  /\ UNCHANGED <<now, recvVars, sweepNow, registryVars>>

-----------------------------------------------------------------------------
Next ==
  \/ Tick
  \/ Receive
  \/ \E m \in Message : Fold(m)
  \/ ReadSweepClock \/ EvictStale \/ ReportEvictions

Spec == Init /\ [][Next]_vars

-----------------------------------------------------------------------------
Record == [last_seen : Time, seen : [Field -> Time \cup {Never}]]

(* Type invariant: records are well formed, and the registry never holds   *)
(* more aircraft than its capacity, however many addresses are received.   *)
TypeOK ==
  /\ now \in Time /\ stamp \in Time /\ sweepNow \in Time
  /\ DOMAIN known \subseteq Address
  /\ known \in [DOMAIN known -> Record]
  /\ Cardinality(DOMAIN known) <= RegistryCapacity
  /\ evictions \in Nat /\ warned \in Nat
  /\ mpc \in {"loop", "sweep", "count"}
  /\ lastHeard \in [Address -> Time]
  /\ heard \subseteq [icao : Address, field : Field, at : Time]

(* A report's valid bits are the truth about the moment of the fix: a bit  *)
(* is set exactly if the field was received, within its window, since the  *)
(* aircraft was admitted; and the value sent is the newest one received    *)
(* (report_flags, update_record and build_report together).                *)
Heard(a, f) == {h.at : h \in {x \in heard : x.icao = a /\ x.field = f}}

FlagsHonest ==
  [][report' # report /\ report' # NoReport =>
       \A f \in Field, a \in {report'.icao} :
         LET times == Heard(a, f)' IN
         /\ f \in report'.flags <=> \E t \in times : stamp - t < Window(f)
         /\ f \in report'.flags =>
              report'.values[f] \in times /\ \A t \in times : t <= report'.values[f]]_vars

(* What capacity costs is always the aircraft not heard from for longest,  *)
(* never one that is already tracked or the one just admitted (the comment *)
(* at aircraft_registry::fold).                                            *)
EvictsLeastRecentlyHeard ==
  [][lastHeard' # lastHeard \/ evictions' # evictions =>
       LET gone == DOMAIN known \ DOMAIN known'
           new == DOMAIN known' \ DOMAIN known IN
       /\ \A b \in gone : \A a \in DOMAIN known : lastHeard[b] <= lastHeard[a]
       /\ Cardinality(gone) = evictions' - evictions
       /\ gone # {} => Cardinality(DOMAIN known) = RegistryCapacity /\ new # {}
       /\ \A a \in Address : lastHeard'[a] # lastHeard[a] => a \in DOMAIN known']_vars

(* A sweep removes only aircraft that have been silent for the whole       *)
(* window, even those heard after it read the clock, and leaves nobody who *)
(* had been when it read the clock (isStale's guard against wrapping).     *)
SweepExact ==
  [][mpc = "sweep" /\ mpc' = "count" =>
       /\ \A a \in DOMAIN known \ DOMAIN known' : now - lastHeard[a] >= StaleWindow
       /\ \A a \in DOMAIN known' : sweepNow - lastHeard[a] < StaleWindow]_vars

(* What ADSBData::isStale's comment says of its guard: the sweep's clock   *)
(* is never behind the last_seen it is compared with.                      *)
SweepClockNotBehind ==
  mpc = "sweep" => \A a \in DOMAIN known : known[a].last_seen <= sweepNow
=============================================================================
