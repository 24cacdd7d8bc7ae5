---------------------------- MODULE ReportContent ----------------------------
(***************************************************************************)
(* What ends up in a position report: one aircraft's lines are parsed      *)
(* (Sbs1Message), kept in its record and turned into a report in the       *)
(* units of the FSS (update_record and build_report, adsb_record.hpp, with *)
(* units.hpp).  When a field was heard, and who is tracked at all, is left *)
(* to AircraftRegistry.                                                    *)
(***************************************************************************)
EXTENDS Sbs1Message

CONSTANT Lines  (* the lines received *)

ASSUME LinesAssumption == Lines \subseteq Line

VARIABLES
  message,  (* what the last line passed to the callback, or Absent        *)
  record,   (* the values of each aircraft's record                        *)
  said,     (* what each aircraft's valid columns said last, unclamped     *)
  located   (* the last line gave a position                               *)

vars == <<message, record, said, located>>

Nothing == [f \in Field |-> Absent]

Init ==
  /\ message = Absent /\ located = FALSE
  /\ record = [a \in Address |-> Nothing] /\ said = [a \in Address |-> Nothing]

-----------------------------------------------------------------------------
(* What the message carries replaces the value, the rest is kept. *)
update_record(rec, m) ==
  [f \in Field |-> IF f \in Accepted(Shape(m)) THEN m.values[f] ELSE rec[f]]

(* A field that was never set is sent as 0 or the empty callsign, and not  *)
(* flagged as valid.                                                       *)
OrZero(v) == IF v = Absent THEN 0 ELSE v

build_report(rec, m) ==
  [icao |-> m.icao,
   callsign |-> OrZero(rec["callsign"]),
   altitude |-> OrZero(rec["altitude"]),
   heading |-> deg_to_centideg(OrZero(rec["heading"])),
   hor_vel |-> knots_to_cm_per_s(OrZero(rec["speed"])),
   ver_vel |-> ft_per_min_to_cm_per_s(OrZero(rec["vertvel"])),
   squawk |-> OrZero(rec["squawk"])]

(* The report of the last message, if it made one. *)
Reporting == message # Absent /\ message.position
report == build_report(record[message.icao], message)

-----------------------------------------------------------------------------
(* The reference, read off the texts without the parsers: which aircraft   *)
(* and type a line names, and what a column says, if it is one of that     *)
(* column's texts.  A type is known by the number its column begins with.  *)

IsInteger(t) == t.digits = "whole" /\ ~t.rest /\ t.sign # "other"
IsDecimal(t) == t.digits \in {"whole", "decimal"} /\ ~t.rest /\ t.sign # "other"

(* Numbers of up to four octal digits: 0012 and 12 are the same squawk. *)
OctalCode == {1000 * a + 100 * b + 10 * c + d : a, b, c, d \in 0..7}

Says(l, f) ==
  CASE f = "callsign" -> IF l.callsign \in 1..8 THEN l.callsign ELSE Absent
    [] f = "altitude" -> IF IsInteger(l.altitude) THEN Integer(l.altitude) ELSE Absent
    [] f = "speed" -> IF IsDecimal(l.groundspeed)
                         /\ 0 <= Thousandths(l.groundspeed)
                         /\ Thousandths(l.groundspeed) <= DoubleMax
                      THEN Thousandths(l.groundspeed) ELSE Absent
    [] f = "heading" -> IF IsDecimal(l.track)
                           /\ 0 <= Thousandths(l.track) /\ Thousandths(l.track) <= 360000
                        THEN Thousandths(l.track) ELSE Absent
    [] f = "vertvel" -> IF IsInteger(l.vertrate) THEN Integer(l.vertrate) ELSE Absent
    [] f = "squawk" -> IF IsInteger(l.squawk) /\ l.squawk.sign = "none"
                          /\ l.squawk.whole \in OctalCode
                       THEN l.squawk.whole ELSE Absent

Names(l, a) ==
  /\ l.columns /\ l.type = "MSG"
  /\ IsInteger(l.address) /\ l.address.sign = "none" /\ l.address.whole = a
IsType(l, n) ==
  l.id.digits \in {"whole", "decimal"} /\ l.id.sign # "minus" /\ l.id.whole = n

Hears(s, a, l) ==
  [f \in Field |->
     IF Names(l, a) /\ Says(l, f) # Absent /\ \E n \in 1..8 : IsType(l, n) /\ f \in Carries(n)
     THEN Says(l, f) ELSE s[f]]

InRange(t, limit) ==
  IsDecimal(t) /\ -limit <= Thousandths(t) /\ Thousandths(t) <= limit
Locates(l) ==
  /\ IsType(l, 3) /\ \E a \in Address : Names(l, a)
  /\ InRange(l.lat, 90000) /\ InRange(l.lng, 180000)

-----------------------------------------------------------------------------
(* processMessage() of a line, and what the callback makes of the message; *)
(* `said` and `located` are told by the reference alone.                   *)
HandleLine(l) ==
  /\ Accepts(l)
  /\ LET m == processMessage(l) IN
     /\ message' = m
     /\ record' = [record EXCEPT ![m.icao] = update_record(record[m.icao], m)]

IgnoreLine(l) ==
  /\ ~Accepts(l)
  /\ message' = Absent
  /\ UNCHANGED record

Next ==
  \E l \in Lines :
    /\ HandleLine(l) \/ IgnoreLine(l)
    /\ said' = [a \in Address |-> Hears(said[a], a, l)]
    /\ located' = Locates(l)

Spec == Init /\ [][Next]_vars

-----------------------------------------------------------------------------
(* The values a field of the record can have. *)
Fits(f, v) ==
  /\ f = "callsign" => v \in 1..max_callsign_length
  /\ f = "altitude" => v \in 0..UInt32Max
  /\ f = "speed" => v \in 0..DoubleMax
  /\ f = "heading" => v \in Int /\ 0 <= v /\ v <= 360000
  /\ f = "vertvel" => v \in Int16Min..Int16Max
  /\ f = "squawk" => v \in OctalCode

(* Type invariant: every value of every record fits its C++ type. *)
TypeOK ==
  /\ record \in [Address -> [Field -> Int \cup {Absent}]]
  /\ \A a \in Address, f \in Field :
       record[a][f] # Absent => Fits(f, record[a][f])

(* What the parser passes on is what AircraftRegistry assumes of it. *)
MessagesAsAssumed == message # Absent => Shape(message) \in Message

(* The limits a clamped field's value is brought to, and no other field's. *)
Limited(f, v) ==
  CASE f = "altitude" /\ v # Absent -> Clamp(v, 0, UInt32Max)
    [] f = "vertvel" /\ v # Absent -> Clamp(v, Int16Min, Int16Max)
    [] OTHER -> v

(* The record holds what the aircraft's valid columns said last: garbage,  *)
(* a number with something behind it, an impossible squawk or a line       *)
(* without an address changes nothing, and a number too large for the      *)
(* field, or for the parser's own integers, counts as the nearest value.   *)
RecordFollowsFeed ==
  \A a \in Address, f \in Field : record[a][f] = Limited(f, said[a][f])

(* n/d is nearest to the integer r, or r is the limit it lies beyond. *)
Nearest(r, n, d, lo, hi) ==
  IF n < d * lo THEN r = lo
  ELSE IF n > d * hi THEN r = hi
  ELSE -d <= 2 * (d * r - n) /\ 2 * (d * r - n) <= d

(* A line makes a report exactly if it is an airborne position with two    *)
(* coordinates in range, whatever else it lacks.                           *)
PositionsWhole == Reporting <=> located

(* Every report gives what the aircraft's lines said last, the numbers in  *)
(* their units to within half of one, and never one that wrapped around.   *)
ReportAccurate ==
  /\ PositionsWhole
  /\ Reporting =>
       LET s == [f \in Field |-> OrZero(said[message.icao][f])] IN
       /\ report.callsign = s["callsign"] /\ report.squawk = s["squawk"]
       /\ Nearest(report.altitude, s["altitude"], 1, 0, UInt32Max)
       /\ Nearest(report.heading, s["heading"], 10, 0, UInt16Max)
       /\ Nearest(report.hor_vel, 463 * s["speed"], 9000, 0, UInt16Max)
       /\ Nearest(report.ver_vel, 127 * Limited("vertvel", s["vertvel"]), 250,
                  Int16Min, Int16Max)
=============================================================================
