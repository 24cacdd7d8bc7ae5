----------------------------- MODULE Sbs1Message -----------------------------
(***************************************************************************)
(* dump1090::processMessage() and the parsers of its columns               *)
(* (dump1090.cpp).  A column is not its characters but what from_chars and *)
(* strtol can tell of it: a sign, digits before and after a point, and     *)
(* whether something is left over.  Integer types keep their limits.       *)
(***************************************************************************)
EXTENDS AdsbMessage, Units

CONSTANTS
  UInt32Max,    (* of sbs1_to_altitude()'s result                         *)
  LongLongMax,  (* of its intermediate long long                          *)
  LongMax,      (* of sbs1_to_vertrate()'s intermediate long, and strtol() *)
  UIntMax,      (* of the address's uint32_t                              *)
  ULongMax,     (* of sbs1_to_squawk()'s intermediate unsigned long       *)
  DoubleMax,    (* the largest double, in thousandths                     *)
  IcaoMax,      (* icao_address_max                                       *)
  Absent        (* std::nullopt                                           *)

ASSUME WidthAssumption ==
  /\ UInt32Max \in Nat /\ LongLongMax \in Nat /\ UInt32Max <= LongLongMax
  /\ LongMax \in Nat /\ Int16Max <= LongMax /\ 8 < LongMax
  /\ UIntMax \in Nat /\ IcaoMax \in Nat /\ IcaoMax <= UIntMax
  /\ ULongMax \in Nat /\ 7777 <= ULongMax
  /\ DoubleMax \in Nat /\ 360000 <= DoubleMax
  /\ Absent \notin Int /\ Address = 1..IcaoMax /\ MsgType = 1..8
ASSUME NoMessageAssumption ==
  Absent \notin [icao : Address, type : MsgType, position : BOOLEAN,
                 values : [Field -> Int \cup {Absent}]]

-----------------------------------------------------------------------------
(* What a column holds.  `sign` is "other" for a plus or a blank, `digits` *)
(* is "special" for nan and inf; `whole` and `milli` are the digits before *)
(* and after the point, `rest` tells that something follows the number.    *)
Text ==
  {t \in [sign : {"none", "minus", "other"},
          digits : {"none", "whole", "decimal", "special"},
          whole : Nat, milli : 0..999, rest : BOOLEAN] :
     /\ t.digits # "decimal" => t.milli = 0
     /\ t.digits \in {"none", "special"} => t.whole = 0}

Signed(t, n) == IF t.sign = "minus" THEN -n ELSE n
Integer(t) == Signed(t, t.whole)
Thousandths(t) == Signed(t, 1000 * t.whole + t.milli)

(* from_chars() into an integer type: the error, whether it consumed the   *)
(* whole column, and the value, which an error leaves at 0.                *)
IntegerFromChars(t, lo, hi) ==
  IF \/ t.digits \notin {"whole", "decimal"}
     \/ t.sign = "other" \/ (t.sign = "minus" /\ lo = 0)
  THEN [ec |-> "invalid", all |-> FALSE, v |-> 0]
  ELSE [ec |-> IF lo <= Integer(t) /\ Integer(t) <= hi THEN "ok" ELSE "range",
        all |-> t.digits = "whole" /\ ~t.rest,
        v |-> IF lo <= Integer(t) /\ Integer(t) <= hi THEN Integer(t) ELSE 0]

looks_negative(t) == t.sign = "minus"

-----------------------------------------------------------------------------
sbs1_to_address(t) ==
  LET r == IntegerFromChars(t, 0, UIntMax) IN
  IF r.ec # "ok" \/ ~r.all \/ r.v = 0 \/ r.v > IcaoMax THEN Absent ELSE r.v

(* lo and hi are in thousandths.  from_chars reads nan and inf as numbers. *)
sbs1_to_double(t, lo, hi) ==
  IF \/ t.digits = "none" \/ t.sign = "other" \/ t.rest
     \/ t.digits = "special"
     \/ Thousandths(t) < -DoubleMax \/ Thousandths(t) > DoubleMax
     \/ Thousandths(t) < lo \/ Thousandths(t) > hi
  THEN Absent
  ELSE Thousandths(t)

(* The value both clamping parsers continue with: the far end of the       *)
(* intermediate type when the number does not fit it.  A mutant takes the  *)
(* same end for both signs.                                                *)
OverflownAlwaysHigh(t, r, lo, hi) == IF r.ec = "range" THEN hi ELSE r.v
Overflown(t, r, lo, hi) ==
  IF r.ec = "range" THEN IF looks_negative(t) THEN lo ELSE hi ELSE r.v

sbs1_to_altitude(t) ==
  LET r == IntegerFromChars(t, -LongLongMax - 1, LongLongMax) IN
  IF ~r.all \/ r.ec \notin {"ok", "range"} THEN Absent
  ELSE Clamp(Overflown(t, r, -LongLongMax - 1, LongLongMax), 0, UInt32Max)

sbs1_to_vertrate(t) ==
  LET r == IntegerFromChars(t, -LongMax - 1, LongMax) IN
  IF ~r.all \/ r.ec \notin {"ok", "range"} THEN Absent
  ELSE Clamp(Overflown(t, r, -LongMax - 1, LongMax), Int16Min, Int16Max)

(* Mutant: the loop ends before the last digit. *)
OctalButLast(v) == \A place \in {10, 100, 1000} : (v \div place) % 10 <= 7

(* The loop over the decimal digits, of which there are at most four. *)
OctalDigits(v) == \A place \in {1, 10, 100, 1000} : (v \div place) % 10 <= 7

sbs1_to_squawk(t) ==
  LET r == IntegerFromChars(t, 0, ULongMax) IN
  IF ~r.all \/ r.ec # "ok" \/ r.v > 7777 \/ ~OctalDigits(r.v) THEN Absent ELSE r.v

(* Mutant: the sign is not looked at. *)
StrtolUnsigned(t) == IF t.digits \in {"whole", "decimal"} THEN t.whole ELSE 0

(* The transmission type: strtol() takes a prefix, a plus sign or a blank  *)
(* before it, the nearest long if it is none, and 0 for no number.         *)
strtol(t) ==
  IF t.digits \in {"whole", "decimal"} THEN Clamp(Integer(t), -LongMax - 1, LongMax) ELSE 0

-----------------------------------------------------------------------------
(* A line, by the columns processMessage() looks at; `columns` tells that  *)
(* there are enough of them.  The callsign is passed on raw: of it, only   *)
(* the length without the padding is told.                                 *)
max_callsign_length == 8
Line == [columns : BOOLEAN, type : {"MSG", "other"}, id : Text, address : Text,
         callsign : Nat, altitude : Text, groundspeed : Text, track : Text,
         lat : Text, lng : Text, vertrate : Text, squawk : Text]

Latitude(l) == sbs1_to_double(l.lat, -90000, 90000)
Longitude(l) == sbs1_to_double(l.lng, -180000, 180000)

(* Both coordinates, or no position. *)
HasPosition(l) == Latitude(l) # Absent /\ Longitude(l) # Absent

(* What the column of a field holds. *)
Value(l, f) ==
  CASE f = "callsign" -> l.callsign
    [] f = "altitude" -> sbs1_to_altitude(l.altitude)
    [] f = "speed" -> sbs1_to_double(l.groundspeed, 0, DoubleMax)
    [] f = "heading" -> sbs1_to_double(l.track, 0, 360000)
    [] f = "vertvel" -> sbs1_to_vertrate(l.vertrate)
    [] f = "squawk" -> sbs1_to_squawk(l.squawk)

(* processMessage() returns early for any other line... *)
Accepts(l) ==
  /\ l.columns /\ l.type = "MSG"
  /\ sbs1_to_address(l.address) # Absent
  /\ strtol(l.id) \in 1..8

(* Mutant: a position of any type counts. *)
PositionOfAnyType(l) ==
  LET id == strtol(l.id) IN
  [icao |-> sbs1_to_address(l.address), type |-> id,
   values |-> [f \in Field |-> IF f \in Carries(id) THEN Value(l, f) ELSE Absent],
   position |-> HasPosition(l)]

(* ... and calls the callback with this message for such a line. *)
processMessage(l) ==
  LET id == strtol(l.id) IN
  [icao |-> sbs1_to_address(l.address), type |-> id,
   values |-> [f \in Field |-> IF f \in Carries(id) THEN Value(l, f) ELSE Absent],
   position |-> id = 3 /\ HasPosition(l)]

(* The message as aircraft_registry sees it. *)
Shape(m) ==
  [icao |-> m.icao, type |-> m.type, fields |-> {f \in Field : m.values[f] # Absent},
   usable |-> m.values["callsign"] \in (1..max_callsign_length) \cup {Absent}, position |-> m.position]
=============================================================================
