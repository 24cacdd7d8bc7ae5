------------------------- MODULE ReportContentProofs -------------------------
(***************************************************************************)
(* The parsers, the conversions and the record, for every text a column    *)
(* may hold and every width of the integer types the assumptions allow.    *)
(***************************************************************************)
EXTENDS ReportContent, TLAPS

-----------------------------------------------------------------------------
(* The parsers, one by one. *)

LEMMA TextTypes ==
  ASSUME NEW t \in Text
  PROVE  /\ t.whole \in Nat /\ Integer(t) \in Int /\ Thousandths(t) \in Int
         /\ t.sign \in {"none", "minus", "other"}
         /\ t.digits \in {"none", "whole", "decimal", "special"}
         /\ t.rest \in BOOLEAN
         /\ t.sign # "minus" => Integer(t) = t.whole
         /\ t.sign = "minus" => Integer(t) = -t.whole
BY DEF Text, Integer, Thousandths, Signed

(* A number too large for the intermediate type is the nearest value all   *)
(* the same, as long as that type is as wide as the field's own.           *)
LEMMA ClampedThroughWidth ==
  ASSUME NEW t \in Text, NEW wide \in Nat, NEW lo \in Int, NEW hi \in Int,
         -wide - 1 <= lo, lo <= hi, hi <= wide, IsInteger(t)
  PROVE  LET r == IntegerFromChars(t, -wide - 1, wide) IN
         /\ r.all /\ r.ec \in {"ok", "range"}
         /\ Clamp(Overflown(t, r, -wide - 1, wide), lo, hi) = Clamp(Integer(t), lo, hi)
<1> DEFINE r == IntegerFromChars(t, -wide - 1, wide)
<1>1. /\ t.digits = "whole" /\ ~t.rest /\ t.sign \in {"none", "minus"}
      /\ t.whole \in Nat /\ Integer(t) \in Int
      /\ t.sign # "minus" => Integer(t) = t.whole
      /\ t.sign = "minus" => Integer(t) = -t.whole
  BY TextTypes DEF IsInteger
<1>2. -wide - 1 # 0
  OBVIOUS
<1>3. r = [ec |-> IF -wide - 1 <= Integer(t) /\ Integer(t) <= wide THEN "ok" ELSE "range",
           all |-> TRUE,
           v |-> IF -wide - 1 <= Integer(t) /\ Integer(t) <= wide THEN Integer(t) ELSE 0]
  BY <1>1, <1>2 DEF IntegerFromChars
<1> HIDE DEF r
<1>4. CASE -wide - 1 <= Integer(t) /\ Integer(t) <= wide
  BY <1>3, <1>4 DEF Overflown, r
<1>5. CASE Integer(t) > wide
  <2>1. t.sign # "minus"
    BY <1>1, <1>5
  <2>2. r.all /\ r.ec = "range"
    BY <1>1, <1>3, <1>5
  <2>3. Overflown(t, r, -wide - 1, wide) = wide
    BY <2>1, <2>2 DEF Overflown, looks_negative
  <2>4. Clamp(wide, lo, hi) = Clamp(Integer(t), lo, hi)
    BY <1>1, <1>5 DEF Clamp
  <2>5. QED
    BY <2>2, <2>3, <2>4 DEF r
<1>6. CASE Integer(t) < -wide - 1
  <2>1. t.sign = "minus"
    BY <1>1, <1>6
  <2>2. r.all /\ r.ec = "range"
    BY <1>1, <1>3, <1>6
  <2>3. Overflown(t, r, -wide - 1, wide) = -wide - 1
    BY <2>1, <2>2 DEF Overflown, looks_negative
  <2>4. Clamp(-wide - 1, lo, hi) = Clamp(Integer(t), lo, hi)
    BY <1>1, <1>6 DEF Clamp
  <2>5. QED
    BY <2>2, <2>3, <2>4 DEF r
<1>7. QED
  BY <1>1, <1>4, <1>5, <1>6

LEMMA NotAnInteger ==
  ASSUME NEW t \in Text, NEW lo, NEW hi, ~IsInteger(t)
  PROVE  ~IntegerFromChars(t, lo, hi).all
BY TextTypes DEF IntegerFromChars, IsInteger

(* An altitude is a clean integer's nearest uint32_t, on targets of any    *)
(* width (the comment at sbs1_to_altitude).                                *)
THEOREM AltitudeParsed ==
  \A t \in Text :
    sbs1_to_altitude(t) =
      IF IsInteger(t) THEN Clamp(Integer(t), 0, UInt32Max) ELSE Absent
<1> TAKE t \in Text
<1>1. CASE IsInteger(t)
  <2> DEFINE r == IntegerFromChars(t, -LongLongMax - 1, LongLongMax)
  <2>1. /\ LongLongMax \in Nat /\ UInt32Max \in Int /\ -LongLongMax - 1 <= 0
        /\ 0 <= UInt32Max /\ UInt32Max <= LongLongMax
    BY WidthAssumption
  <2>2. /\ r.all /\ r.ec \in {"ok", "range"}
        /\ Clamp(Overflown(t, r, -LongLongMax - 1, LongLongMax), 0, UInt32Max)
             = Clamp(Integer(t), 0, UInt32Max)
    BY <1>1, <2>1, ClampedThroughWidth
  <2>3. sbs1_to_altitude(t) =
          IF ~r.all \/ r.ec \notin {"ok", "range"} THEN Absent
          ELSE Clamp(Overflown(t, r, -LongLongMax - 1, LongLongMax), 0, UInt32Max)
    BY DEF sbs1_to_altitude
  <2> HIDE DEF r
  <2>4. QED
    BY <1>1, <2>2, <2>3
<1>2. CASE ~IsInteger(t)
  BY <1>2, NotAnInteger DEF sbs1_to_altitude
<1>3. QED
  BY <1>1, <1>2

(* A vertical rate is a clean integer's nearest int16_t (the comment at    *)
(* sbs1_to_vertrate).                                                      *)
THEOREM VertRateParsed ==
  \A t \in Text :
    sbs1_to_vertrate(t) =
      IF IsInteger(t) THEN Clamp(Integer(t), Int16Min, Int16Max) ELSE Absent
<1> TAKE t \in Text
<1>1. Int16Min \in Int /\ Int16Max \in Int /\ -LongMax - 1 <= Int16Min
      /\ Int16Min <= Int16Max /\ Int16Max <= LongMax /\ LongMax \in Nat
  BY WidthAssumption, UnitsAssumption DEF Int16Min
<1>2. CASE IsInteger(t)
  <2> DEFINE r == IntegerFromChars(t, -LongMax - 1, LongMax)
  <2>1. /\ r.all /\ r.ec \in {"ok", "range"}
        /\ Clamp(Overflown(t, r, -LongMax - 1, LongMax), Int16Min, Int16Max)
             = Clamp(Integer(t), Int16Min, Int16Max)
    BY <1>1, <1>2, ClampedThroughWidth
  <2>2. sbs1_to_vertrate(t) =
          IF ~r.all \/ r.ec \notin {"ok", "range"} THEN Absent
          ELSE Clamp(Overflown(t, r, -LongMax - 1, LongMax), Int16Min, Int16Max)
    BY DEF sbs1_to_vertrate
  <2> HIDE DEF r
  <2>3. QED
    BY <1>2, <2>1, <2>2
<1>3. CASE ~IsInteger(t)
  BY <1>3, NotAnInteger DEF sbs1_to_vertrate
<1>4. QED
  BY <1>2, <1>3

(* The digit loop and the bound leave the numbers of octal digits. *)
LEMMA OctalCodes ==
  ASSUME NEW v \in Nat
  PROVE  v <= 7777 /\ OctalDigits(v) <=> v \in OctalCode
<1>1. ASSUME v <= 7777, OctalDigits(v) PROVE v \in OctalCode
  <2> DEFINE a == (v \div 1000) % 10  b == (v \div 100) % 10
             c == (v \div 10) % 10  d == v % 10
  <2>1. a \in 0..7 /\ b \in 0..7 /\ c \in 0..7 /\ (v \div 1) % 10 \in 0..7
    BY <1>1 DEF OctalDigits
  <2>2. v \div 1 = v
    OBVIOUS
  <2>3. v = 1000 * a + 100 * b + 10 * c + d
    BY <1>1
  <2>4. QED
    BY <2>1, <2>2, <2>3 DEF OctalCode
<1>2. ASSUME v \in OctalCode PROVE v <= 7777 /\ OctalDigits(v)
  <2>1. PICK a \in 0..7, b \in 0..7, c \in 0..7, d \in 0..7 :
          v = 1000 * a + 100 * b + 10 * c + d
    BY <1>2 DEF OctalCode
  <2>2. (v \div 1) % 10 = d /\ (v \div 10) % 10 = c /\ (v \div 100) % 10 = b
        /\ (v \div 1000) % 10 = a
    BY <2>1
  <2>3. QED
    BY <2>1, <2>2 DEF OctalDigits
<1>3. QED
  BY <1>1, <1>2

(* A squawk is a number of up to four octal digits, or nothing: no         *)
(* overflow, sign or wrap makes one of anything else (the comment at       *)
(* sbs1_to_squawk).                                                        *)
THEOREM SquawkParsed ==
  \A t \in Text :
    sbs1_to_squawk(t) =
      IF IsInteger(t) /\ t.sign = "none" /\ t.whole \in OctalCode
      THEN t.whole ELSE Absent
<1> TAKE t \in Text
<1> DEFINE r == IntegerFromChars(t, 0, ULongMax)
<1>1. t.whole \in Nat /\ (t.sign = "none" => Integer(t) = t.whole)
      /\ t.sign \in {"none", "minus", "other"}
  BY TextTypes
<1>2. CASE ~IsInteger(t) \/ t.sign # "none"
  <2>1. ~r.all
    BY <1>1, <1>2 DEF IntegerFromChars, IsInteger
  <2>2. sbs1_to_squawk(t) = Absent
    BY <2>1 DEF sbs1_to_squawk
  <2>3. QED
    BY <1>2, <2>2
<1>3. CASE IsInteger(t) /\ t.sign = "none"
  <2>1. Integer(t) = t.whole /\ 0 <= t.whole /\ t.digits = "whole" /\ ~t.rest
    BY <1>1, <1>3 DEF IsInteger
  <2>2. r = [ec |-> IF 0 <= Integer(t) /\ Integer(t) <= ULongMax THEN "ok" ELSE "range",
             all |-> t.digits = "whole" /\ ~t.rest,
             v |-> IF 0 <= Integer(t) /\ Integer(t) <= ULongMax THEN Integer(t) ELSE 0]
    BY <1>3, <2>1 DEF IntegerFromChars
  <2>3. sbs1_to_squawk(t) =
          IF ~r.all \/ r.ec # "ok" \/ r.v > 7777 \/ ~OctalDigits(r.v) THEN Absent ELSE r.v
    BY DEF sbs1_to_squawk
  <2> HIDE DEF r
  <2>4. t.whole \in OctalCode <=> t.whole <= 7777 /\ OctalDigits(t.whole)
    BY <1>1, OctalCodes
  <2>5. CASE t.whole <= ULongMax
    <3>1. r.all /\ r.ec = "ok" /\ r.v = t.whole
      BY <2>1, <2>2, <2>5
    <3>2. QED
      BY <1>1, <1>3, <2>3, <2>4, <3>1
  <2>6. CASE t.whole > ULongMax
    <3>1. r.ec = "range"
      BY <1>1, <2>1, <2>2, <2>6, WidthAssumption
    <3>2. sbs1_to_squawk(t) = Absent /\ t.whole > 7777
      BY <1>1, <2>3, <2>6, <3>1, WidthAssumption
    <3>3. QED
      BY <1>1, <2>4, <3>2
  <2>7. QED
    BY <1>1, <2>5, <2>6, WidthAssumption
<1>4. QED
  BY <1>2, <1>3

(* An address is a clean positive number of up to icao_address_max. *)
LEMMA AddressParsed ==
  ASSUME NEW t \in Text
  PROVE  sbs1_to_address(t) =
           IF IsInteger(t) /\ t.sign = "none" /\ t.whole \in Address THEN t.whole ELSE Absent
<1> DEFINE r == IntegerFromChars(t, 0, UIntMax)
<1>1. t.whole \in Nat /\ (t.sign = "none" => Integer(t) = t.whole)
      /\ t.sign \in {"none", "minus", "other"}
  BY TextTypes
<1>2. sbs1_to_address(t) =
        IF r.ec # "ok" \/ ~r.all \/ r.v = 0 \/ r.v > IcaoMax THEN Absent ELSE r.v
  BY DEF sbs1_to_address
<1>3. CASE ~IsInteger(t) \/ t.sign # "none"
  <2>1. ~r.all
    BY <1>1, <1>3 DEF IntegerFromChars, IsInteger
  <2> HIDE DEF r
  <2>2. sbs1_to_address(t) = Absent
    BY <1>2, <2>1
  <2>3. QED
    BY <1>3, <2>2
<1>4. CASE IsInteger(t) /\ t.sign = "none"
  <2>1. Integer(t) = t.whole /\ 0 <= t.whole /\ t.digits = "whole" /\ ~t.rest
    BY <1>1, <1>4 DEF IsInteger
  <2>2. r = [ec |-> IF 0 <= Integer(t) /\ Integer(t) <= UIntMax THEN "ok" ELSE "range",
             all |-> t.digits = "whole" /\ ~t.rest,
             v |-> IF 0 <= Integer(t) /\ Integer(t) <= UIntMax THEN Integer(t) ELSE 0]
    BY <1>4, <2>1 DEF IntegerFromChars
  <2> HIDE DEF r
  <2>3. r.all /\ (r.ec = "ok" <=> t.whole <= UIntMax) /\ (r.ec = "ok" => r.v = t.whole)
    BY <2>1, <2>2
  <2>4. UIntMax \in Nat /\ IcaoMax \in Nat /\ IcaoMax <= UIntMax /\ Address = 1..IcaoMax
    BY WidthAssumption
  <2>5. CASE t.whole \in Address
    BY <1>1, <1>2, <1>4, <2>3, <2>4, <2>5
  <2>6. CASE t.whole \notin Address
    BY <1>1, <1>2, <1>4, <2>3, <2>4, <2>6
  <2>7. QED
    BY <2>5, <2>6
<1>5. QED
  BY <1>3, <1>4

(* strtol() gives one of the eight types for the columns that begin with   *)
(* its number, and for no other: a minus or a number beyond long is none.  *)
LEMMA TypeParsed ==
  ASSUME NEW l \in Line, NEW n \in 1..8
  PROVE  strtol(l.id) = n <=> IsType(l, n)
<1> DEFINE t == l.id
<1>1. t \in Text
  BY DEF Line
<1> HIDE DEF t
<1>2. /\ t.whole \in Nat /\ Integer(t) \in Int
      /\ t.sign # "minus" => Integer(t) = t.whole
      /\ t.sign = "minus" => Integer(t) = -t.whole
  BY <1>1, TextTypes
<1>3. LongMax \in Nat /\ 8 < LongMax
  BY WidthAssumption
<1>4. Clamp(Integer(t), -LongMax - 1, LongMax) = n <=> Integer(t) = n
  <2>1. ASSUME NEW i \in Int, NEW w \in Int, 8 < w
        PROVE  Clamp(i, -w - 1, w) = n <=> i = n
    BY <2>1 DEF Clamp
  <2>2. QED
    BY <1>2, <1>3, <2>1
<1>5. Integer(t) = n <=> t.sign # "minus" /\ t.whole = n
  BY <1>2
<1>6. strtol(t) = n <=> t.digits \in {"whole", "decimal"} /\ t.sign # "minus" /\ t.whole = n
  BY <1>4, <1>5 DEF strtol
<1>7. QED
  BY <1>6 DEF IsType, t

(* processMessage() passes on the lines that name an aircraft and a type. *)
LEMMA LinesAccepted ==
  ASSUME NEW l \in Line
  PROVE  /\ Accepts(l) <=> (\E a \in Address : Names(l, a)) /\ (\E n \in 1..8 : IsType(l, n))
         /\ Accepts(l) => \A a \in Address : Names(l, a) <=> a = sbs1_to_address(l.address)
         /\ Accepts(l) => sbs1_to_address(l.address) \in Address
<1>1. l.address \in Text
  BY DEF Line
<1>2. Absent \notin Address
  BY WidthAssumption
<1>3. sbs1_to_address(l.address) =
        IF IsInteger(l.address) /\ l.address.sign = "none" /\ l.address.whole \in Address
        THEN l.address.whole ELSE Absent
  BY <1>1, AddressParsed
<1>4. strtol(l.id) \in 1..8 <=> \E n \in 1..8 : IsType(l, n)
  BY TypeParsed
<1>5. QED
  BY <1>2, <1>3, <1>4 DEF Accepts, Names

(* A coordinate, a track or a speed is a clean decimal within its limits:  *)
(* no text that strtod would have taken for 0, no nan and no infinity.     *)
LEMMA DoubleParsed ==
  \A t \in Text, lo, hi \in -DoubleMax..DoubleMax :
    sbs1_to_double(t, lo, hi) =
      IF IsDecimal(t) /\ lo <= Thousandths(t) /\ Thousandths(t) <= hi
      THEN Thousandths(t) ELSE Absent
BY TextTypes, WidthAssumption DEF sbs1_to_double, IsDecimal

-----------------------------------------------------------------------------
(* The conversions. *)

(* Each conversion gives the nearest value of its unit, or the limit its   *)
(* input lies beyond: nothing wraps, and no rounding leaves the type.      *)
THEOREM ConversionsNearest ==
  \A n \in Int :
    /\ Nearest(knots_to_cm_per_s(n), 463 * n, 9000, 0, UInt16Max)
    /\ Nearest(ft_per_min_to_cm_per_s(n), 127 * n, 250, Int16Min, Int16Max)
    /\ Nearest(deg_to_centideg(n), n, 10, 0, UInt16Max)
<1> TAKE n \in Int
<1> USE UnitsAssumption DEF Int16Min
<1>1. Nearest(knots_to_cm_per_s(n), 463 * n, 9000, 0, UInt16Max)
  <2>1. \A c \in 0..9000 * UInt16Max :
          LET r == RoundHalfUp(c, 9000) IN
          r \in Int /\ -9000 <= 2 * (9000 * r - c) /\ 2 * (9000 * r - c) <= 9000
          /\ (c = 0 => r = 0) /\ (c = 9000 * UInt16Max => r = UInt16Max)
    BY DEF RoundHalfUp
  <2>2. QED
    BY <2>1 DEF Nearest, knots_to_cm_per_s, Clamp
<1>2. Nearest(ft_per_min_to_cm_per_s(n), 127 * n, 250, Int16Min, Int16Max)
  <2>1. \A c \in 250 * Int16Min..250 * Int16Max :
          LET r == RoundBySign(c, 250) IN
          r \in Int /\ -250 <= 2 * (250 * r - c) /\ 2 * (250 * r - c) <= 250
          /\ (c = 250 * Int16Min => r = Int16Min) /\ (c = 250 * Int16Max => r = Int16Max)
    BY DEF RoundBySign, RoundHalfUp
  <2>2. QED
    BY <2>1 DEF Nearest, ft_per_min_to_cm_per_s, Clamp
<1>3. Nearest(deg_to_centideg(n), n, 10, 0, UInt16Max)
  <2>1. \A c \in 0..10 * UInt16Max :
          LET r == RoundHalfUp(c, 10) IN
          r \in Int /\ -10 <= 2 * (10 * r - c) /\ 2 * (10 * r - c) <= 10
          /\ (c = 0 => r = 0) /\ (c = 10 * UInt16Max => r = UInt16Max)
    BY DEF RoundHalfUp
  <2>2. QED
    BY <2>1 DEF Nearest, deg_to_centideg, Clamp
<1>4. QED
  BY <1>1, <1>2, <1>3
-----------------------------------------------------------------------------
(* The record and its reports. *)

Datum == Int \cup {Absent}

LEMMA FitsByField ==
  ASSUME NEW v
  PROVE  /\ Fits("callsign", v) <=> v \in 1..max_callsign_length
         /\ Fits("altitude", v) <=> v \in 0..UInt32Max
         /\ Fits("speed", v) <=> v \in 0..DoubleMax
         /\ Fits("heading", v) <=> v \in Int /\ 0 <= v /\ v <= 360000
         /\ Fits("vertvel", v) <=> v \in Int16Min..Int16Max
         /\ Fits("squawk", v) <=> v \in OctalCode
BY DEF Fits

LEMMA LimitedByField ==
  ASSUME NEW v
  PROVE  /\ v = Absent => \A f : Limited(f, v) = v
         /\ v # Absent => Limited("altitude", v) = Clamp(v, 0, UInt32Max)
         /\ v # Absent => Limited("vertvel", v) = Clamp(v, Int16Min, Int16Max)
         /\ \A f : f # "altitude" /\ f # "vertvel" => Limited(f, v) = v
BY DEF Limited

(* What a column is worth to the record is what it says, within limits. *)
LEMMA ValueIsLimited ==
  ASSUME NEW l \in Line, NEW f \in Field
  PROVE  LET v == IF f = "callsign" /\ Value(l, f) \notin 1..8 THEN Absent ELSE Value(l, f)
         IN /\ Says(l, f) \in Datum /\ Value(l, f) \in Datum
            /\ v = Limited(f, Says(l, f))
            /\ v # Absent => Fits(f, v)
            /\ v = Absent <=> Says(l, f) = Absent
<1>1. CASE f = "callsign"
  <2>1. l.callsign \in Nat /\ Value(l, f) = l.callsign
    BY <1>1 DEF Line, Value
  <2>2. Says(l, f) = IF l.callsign \in 1..8 THEN l.callsign ELSE Absent
    BY <1>1 DEF Says
  <2>3. /\ \A v \in 1..8 : Fits(f, v)
        /\ Says(l, f) # Absent => Limited(f, Says(l, f)) = Says(l, f)
        /\ Says(l, f) = Absent => Limited(f, Says(l, f)) = Says(l, f)
    <3>1. \A v \in 1..8 : Fits(f, v)
      BY <1>1, FitsByField DEF max_callsign_length
    <3>2. \A x : Limited(f, x) = x
      BY <1>1, LimitedByField
    <3>3. QED
      BY <1>1, <3>1, <3>2
  <2> DEFINE v == IF f = "callsign" /\ Value(l, f) \notin 1..8 THEN Absent ELSE Value(l, f)
  <2>4. v = IF l.callsign \in 1..8 THEN l.callsign ELSE Absent
    BY <1>1, <2>1
  <2>5. Value(l, f) \in Datum /\ Absent \notin 1..8
    BY <2>1, WidthAssumption DEF Datum
  <2>6. v = Says(l, f) /\ v \in Datum /\ (v # Absent => v \in 1..8)
    BY <2>1, <2>2, <2>4, WidthAssumption DEF Datum
  <2> HIDE DEF v
  <2>7. /\ Says(l, f) \in Datum /\ v = Limited(f, Says(l, f))
        /\ v # Absent => Fits(f, v)
        /\ (v = Absent <=> Says(l, f) = Absent)
    BY <2>3, <2>6
  <2>8. QED
    BY <2>5, <2>7 DEF v
<1>2. CASE f = "altitude"
  <2>1. l.altitude \in Text /\ Integer(l.altitude) \in Int
    BY TextTypes DEF Line
  <2>2. Value(l, f) = IF IsInteger(l.altitude)
                      THEN Clamp(Integer(l.altitude), 0, UInt32Max) ELSE Absent
    BY <1>2, <2>1, AltitudeParsed, WidthAssumption DEF Value
  <2>3. Says(l, f) = IF IsInteger(l.altitude) THEN Integer(l.altitude) ELSE Absent
    BY <1>2 DEF Says
  <2>4. \A x : /\ Fits(f, x) <=> x \in 0..UInt32Max
              /\ Limited(f, x) = IF x = Absent THEN Absent ELSE Clamp(x, 0, UInt32Max)
    BY <1>2, FitsByField, LimitedByField
  <2>5. Clamp(Integer(l.altitude), 0, UInt32Max) \in 0..UInt32Max /\ 0..UInt32Max \subseteq Int
    BY <2>1, WidthAssumption, UnitsAssumption DEF Clamp
  <2>6. /\ Says(l, f) \in Datum /\ Value(l, f) \in Datum
        /\ Value(l, f) = Limited(f, Says(l, f))
        /\ Value(l, f) # Absent => Fits(f, Value(l, f))
        /\ Value(l, f) = Absent <=> Says(l, f) = Absent
    BY <2>1, <2>2, <2>3, <2>4, <2>5, WidthAssumption DEF Datum
  <2>7. QED
    BY <1>2, <2>6
<1>3. CASE f = "vertvel"
  <2>1. l.vertrate \in Text /\ Integer(l.vertrate) \in Int
    BY TextTypes DEF Line
  <2>2. Value(l, f) = IF IsInteger(l.vertrate)
                      THEN Clamp(Integer(l.vertrate), Int16Min, Int16Max) ELSE Absent
    BY <1>3, <2>1, VertRateParsed, WidthAssumption DEF Value
  <2>3. Says(l, f) = IF IsInteger(l.vertrate) THEN Integer(l.vertrate) ELSE Absent
    BY <1>3 DEF Says
  <2>4. \A x : /\ Fits(f, x) <=> x \in Int16Min..Int16Max
              /\ Limited(f, x) = IF x = Absent THEN Absent ELSE Clamp(x, Int16Min, Int16Max)
    BY <1>3, FitsByField, LimitedByField
  <2>5. Clamp(Integer(l.vertrate), Int16Min, Int16Max) \in Int16Min..Int16Max /\ Int16Min..Int16Max \subseteq Int
    BY <2>1, WidthAssumption, UnitsAssumption DEF Clamp, Int16Min
  <2>6. /\ Says(l, f) \in Datum /\ Value(l, f) \in Datum
        /\ Value(l, f) = Limited(f, Says(l, f))
        /\ Value(l, f) # Absent => Fits(f, Value(l, f))
        /\ Value(l, f) = Absent <=> Says(l, f) = Absent
    BY <2>1, <2>2, <2>3, <2>4, <2>5, WidthAssumption DEF Datum
  <2>7. QED
    BY <1>3, <2>6
<1>4. CASE f = "speed"
  <2>1. l.groundspeed \in Text /\ Thousandths(l.groundspeed) \in Int
    BY TextTypes DEF Line
  <2>2. Value(l, f) = IF IsDecimal(l.groundspeed) /\ 0 <= Thousandths(l.groundspeed)
                         /\ Thousandths(l.groundspeed) <= DoubleMax
                      THEN Thousandths(l.groundspeed) ELSE Absent
    BY <1>4, <2>1, DoubleParsed, WidthAssumption DEF Value
  <2>3. Says(l, f) = Value(l, f)
    BY <1>4, <2>2 DEF Says
  <2>4. \A x : Limited(f, x) = x
    BY <1>4, LimitedByField
  <2>5. \A x : x \in 0..DoubleMax => Fits(f, x)
    BY <1>4, FitsByField
  <2>6. /\ Says(l, f) \in Datum /\ Value(l, f) \in Datum
        /\ Value(l, f) = Limited(f, Says(l, f))
        /\ Value(l, f) # Absent => Fits(f, Value(l, f))
        /\ Value(l, f) = Absent <=> Says(l, f) = Absent
    BY <2>1, <2>2, <2>3, <2>4, <2>5, WidthAssumption DEF Datum
  <2>7. QED
    BY <1>4, <2>6
<1>5. CASE f = "heading"
  <2>1. l.track \in Text /\ Thousandths(l.track) \in Int
    BY TextTypes DEF Line
  <2>2. Value(l, f) = IF IsDecimal(l.track) /\ 0 <= Thousandths(l.track)
                         /\ Thousandths(l.track) <= 360000
                      THEN Thousandths(l.track) ELSE Absent
    BY <1>5, <2>1, DoubleParsed, WidthAssumption DEF Value
  <2>3. Says(l, f) = Value(l, f)
    BY <1>5, <2>2 DEF Says
  <2>4. \A x : Limited(f, x) = x
    BY <1>5, LimitedByField
  <2>5. \A x : x \in Int /\ 0 <= x /\ x <= 360000 => Fits(f, x)
    BY <1>5, FitsByField
  <2>6. /\ Says(l, f) \in Datum /\ Value(l, f) \in Datum
        /\ Value(l, f) = Limited(f, Says(l, f))
        /\ Value(l, f) # Absent => Fits(f, Value(l, f))
        /\ Value(l, f) = Absent <=> Says(l, f) = Absent
    BY <2>1, <2>2, <2>3, <2>4, <2>5, WidthAssumption DEF Datum
  <2>7. QED
    BY <1>5, <2>6
<1>6. CASE f = "squawk"
  <2>1. l.squawk \in Text /\ l.squawk.whole \in Nat
    BY TextTypes DEF Line
  <2>2. Value(l, f) = Says(l, f)
    BY <1>6, <2>1, SquawkParsed, WidthAssumption DEF Value, Says
  <2>3. Says(l, f) \in Datum /\ (Says(l, f) # Absent => Says(l, f) \in OctalCode)
    BY <1>6, <2>1, WidthAssumption DEF Says, Datum
  <2>4. QED
    BY <1>6, <2>2, <2>3, FitsByField, LimitedByField
<1>7. QED
  BY <1>1, <1>2, <1>3, <1>4, <1>5, <1>6 DEF Field, MotionField, IdentityField
(* The record follows the feed over one message. *)
LEMMA UpdateFollows ==
  ASSUME NEW l \in Line, NEW rec \in [Field -> Datum], NEW s \in [Field -> Datum],
         Accepts(l),
         \A f \in Field : /\ rec[f] = Limited(f, s[f])
                          /\ rec[f] # Absent => Fits(f, rec[f])
  PROVE  LET m == processMessage(l) IN
         /\ update_record(rec, m) \in [Field -> Datum]
         /\ Hears(s, m.icao, l) \in [Field -> Datum]
         /\ \A f \in Field :
              /\ update_record(rec, m)[f] = Limited(f, Hears(s, m.icao, l)[f])
              /\ update_record(rec, m)[f] # Absent
                   => Fits(f, update_record(rec, m)[f])
<1> DEFINE m == processMessage(l)  id == strtol(l.id)
<1>1. /\ m.values = [f \in Field |-> IF f \in Carries(id) THEN Value(l, f) ELSE Absent]
      /\ Shape(m).usable <=> m.values["callsign"] \in (1..8) \cup {Absent}
      /\ Shape(m).fields = {f \in Field : m.values[f] # Absent}
      /\ m.icao = sbs1_to_address(l.address)
  BY DEF processMessage, Shape, max_callsign_length
<1> HIDE DEF m
<1>2. "callsign" \in Field
  BY DEF Field, IdentityField
<1>0. /\ Names(l, m.icao)
      /\ \A f : f \in Carries(id) <=> \E n \in 1..8 : IsType(l, n) /\ f \in Carries(n)
  BY <1>1, LinesAccepted, TypeParsed DEF Accepts
<1>3. ASSUME NEW f \in Field
      PROVE  /\ update_record(rec, m)[f] \in Datum /\ Hears(s, m.icao, l)[f] \in Datum
             /\ update_record(rec, m)[f] = Limited(f, Hears(s, m.icao, l)[f])
             /\ update_record(rec, m)[f] # Absent
                  => Fits(f, update_record(rec, m)[f])
  <2> DEFINE v == IF f = "callsign" /\ Value(l, f) \notin 1..8 THEN Absent ELSE Value(l, f)
  <2>1. /\ Says(l, f) \in Datum /\ Value(l, f) \in Datum
        /\ v = Limited(f, Says(l, f)) /\ (v # Absent => Fits(f, v))
        /\ v = Absent <=> Says(l, f) = Absent
    BY ValueIsLimited
  <2>2. f \in Accepted(Shape(m)) <=> f \in Carries(id) /\ v # Absent
    BY <1>1, <1>2, WidthAssumption DEF Accepted
  <2>3. update_record(rec, m)[f] =
          IF f \in Accepted(Shape(m)) THEN m.values[f] ELSE rec[f]
    BY DEF update_record
  <2>4. f \in Accepted(Shape(m)) => m.values[f] = v
    BY <1>1, <2>2
  <2>5. Hears(s, m.icao, l)[f] =
          IF f \in Carries(id) /\ Says(l, f) # Absent THEN Says(l, f) ELSE s[f]
    BY <1>0 DEF Hears
  <2> HIDE DEF v, id
  <2>6. CASE f \in Carries(id) /\ v # Absent
    BY <2>1, <2>2, <2>3, <2>4, <2>5, <2>6 DEF v
  <2>7. CASE ~(f \in Carries(id) /\ v # Absent)
    BY <2>1, <2>2, <2>3, <2>5, <2>7
  <2>8. QED
    BY <2>6, <2>7
<1>4. update_record(rec, m) \in [Field -> Datum] /\ Hears(s, m.icao, l) \in [Field -> Datum]
  BY <1>3 DEF update_record, Hears
<1>5. QED
  BY <1>3, <1>4 DEF m

(* A line is heard of no aircraft but the one it names. *)
LEMMA OthersUnheard ==
  ASSUME NEW l \in Line, NEW a \in Address, NEW s \in [Field -> Datum],
         ~Accepts(l) \/ a # processMessage(l).icao
  PROVE  Hears(s, a, l) = s
<1>1. ~(Names(l, a) /\ \E n \in 1..8 : IsType(l, n))
  BY LinesAccepted DEF processMessage
<1>2. \A f \in Field : Hears(s, a, l)[f] = s[f]
  BY <1>1 DEF Hears
<1>3. QED
  BY <1>2 DEF Hears

(* What the parser passes on is a message as the registry assumes it. *)
LEMMA MessageShape ==
  ASSUME NEW l \in Line, Accepts(l)
  PROVE  LET m == processMessage(l) IN
         /\ m # Absent /\ m.icao \in Address /\ Shape(m) \in Message
         /\ m.position <=> Locates(l)
<1> DEFINE m == processMessage(l)  id == strtol(l.id)
<1>1. /\ m.values = [f \in Field |-> IF f \in Carries(id) THEN Value(l, f) ELSE Absent]
      /\ m.type = id /\ m.icao = sbs1_to_address(l.address)
      /\ m.position = (id = 3 /\ HasPosition(l))
      /\ m = [icao |-> m.icao, type |-> m.type, values |-> m.values, position |-> m.position]
  BY DEF processMessage
<1> HIDE DEF m
<1>2. m.icao \in Address /\ id \in MsgType
  BY <1>1, LinesAccepted, WidthAssumption DEF Accepts
<1>3. m.values \in [Field -> Datum]
  BY <1>1, ValueIsLimited DEF Datum
<1>4. m.position \in BOOLEAN /\ (m.position <=> Locates(l))
  <2>1. /\ l.lat \in Text /\ l.lng \in Text
        /\ Thousandths(l.lat) \in Int /\ Thousandths(l.lng) \in Int
    BY TextTypes DEF Line
  <2>2. /\ -90000 \in -DoubleMax..DoubleMax /\ 90000 \in -DoubleMax..DoubleMax
        /\ -180000 \in -DoubleMax..DoubleMax /\ 180000 \in -DoubleMax..DoubleMax
    BY WidthAssumption
  <2>3. Latitude(l) = IF InRange(l.lat, 90000) THEN Thousandths(l.lat) ELSE Absent
    BY <2>1, <2>2, DoubleParsed DEF Latitude, InRange
  <2>4. Longitude(l) = IF InRange(l.lng, 180000) THEN Thousandths(l.lng) ELSE Absent
    BY <2>1, <2>2, DoubleParsed DEF Longitude, InRange
  <2>5. HasPosition(l) <=> InRange(l.lat, 90000) /\ InRange(l.lng, 180000)
    BY <2>1, <2>3, <2>4, WidthAssumption DEF HasPosition
  <2>6. m.position = (id = 3 /\ HasPosition(l)) /\ Locates(l) \in BOOLEAN
    BY <1>1 DEF Locates
  <2>7. Locates(l) <=> id = 3 /\ HasPosition(l)
    <3>1. id = 3 <=> IsType(l, 3)
      BY TypeParsed
    <3>2. \E a \in Address : Names(l, a)
      BY LinesAccepted
    <3>3. QED
      BY <2>5, <3>1, <3>2 DEF Locates
  <2>8. QED
    BY <2>6, <2>7
<1>5. "callsign" \in Field /\ (id = 1 => m.values["callsign"] # Absent)
      /\ (id # 1 => m.values["callsign"] = Absent)
  BY <1>1, <1>2, WidthAssumption DEF Field, IdentityField, Carries, Value, Line
<1>6. /\ Shape(m).icao = m.icao /\ Shape(m).type = id /\ Shape(m).position = m.position
      /\ Shape(m).fields = {f \in Field : m.values[f] # Absent}
      /\ Shape(m).usable = (m.values["callsign"] \in (1..8) \cup {Absent})
      /\ Shape(m) \in [icao : Address, type : MsgType, fields : SUBSET Field,
                       usable : BOOLEAN, position : BOOLEAN]
  BY <1>1, <1>2, <1>4 DEF Shape, max_callsign_length
<1> HIDE DEF id
<1>7. Shape(m) \in Message
  <2>1. Shape(m).fields \subseteq Carries(Shape(m).type)
    BY <1>1, <1>6
  <2>2. Shape(m).type = 1 => Shape(m).fields = Carries(1)
    <3>1. Carries(1) = {"callsign"}
      BY DEF Carries
    <3>2. QED
      BY <1>5, <1>6, <2>1, <3>1
  <2>3. (Shape(m).type # 1 => Shape(m).usable) /\ (Shape(m).position => Shape(m).type = 3)
    BY <1>1, <1>5, <1>6
  <2>4. QED
    BY <1>6, <2>1, <2>2, <2>3 DEF Message
<1>8. m # Absent
  <2>1. m.type \in MsgType /\ m.values \in [Field -> Int \cup {Absent}]
    BY <1>1, <1>2, <1>3 DEF Datum
  <2>2. [icao |-> m.icao, type |-> m.type, values |-> m.values, position |-> m.position]
          \in [icao : Address, type : MsgType, position : BOOLEAN,
               values : [Field -> Int \cup {Absent}]]
    BY <1>2, <1>4, <2>1
  <2>3. QED
    BY <1>1, <2>2, NoMessageAssumption
<1>9. QED
  BY <1>2, <1>4, <1>7, <1>8 DEF m

-----------------------------------------------------------------------------
(* The invariant: the records and what the lines said, entry by entry, and *)
(* the last message.                                                       *)
MessageOK ==
  /\ message # Absent =>
       message.icao \in Address /\ Shape(message) \in Message /\ (message.position <=> located)
  /\ message = Absent => ~located
SaidOK == said \in [Address -> [Field -> Datum]]

ContentInv == TypeOK /\ SaidOK /\ RecordFollowsFeed /\ MessageOK

LEMMA ContentInit == Init => ContentInv
<1> SUFFICES ASSUME Init PROVE ContentInv
  OBVIOUS
<1>1. \A a \in Address, f \in Field : record[a][f] = Absent /\ said[a][f] = Absent
  BY DEF Init, Nothing
<1>2. \A f : Limited(f, Absent) = Absent
  BY LimitedByField
<1>3. TypeOK /\ SaidOK
  BY <1>1 DEF Init, Nothing, TypeOK, SaidOK, Datum
<1>4. RecordFollowsFeed
  BY <1>1, <1>2 DEF RecordFollowsFeed
<1>5. MessageOK
  BY DEF Init, MessageOK
<1>6. QED
  BY <1>3, <1>4, <1>5 DEF ContentInv

(* One line read, whether it is handled or ignored. *)
Read(l) ==
  /\ HandleLine(l) \/ IgnoreLine(l)
  /\ said' = [a \in Address |-> Hears(said[a], a, l)]
  /\ located' = Locates(l)

LEMMA ContentLine ==
  ASSUME ContentInv, NEW l \in Lines, Read(l), HandleLine(l)
  PROVE  ContentInv'
<1> DEFINE m == processMessage(l)  a == m.icao
<1>1. l \in Line /\ Accepts(l)
  BY LinesAssumption DEF HandleLine
<1>2. /\ m # Absent /\ a \in Address /\ Shape(m) \in Message
      /\ m.position <=> Locates(l)
  BY <1>1, MessageShape
<1>3. /\ message' = m /\ located' = Locates(l)
      /\ record' = [record EXCEPT ![a] = update_record(record[a], m)]
      /\ said' = [b \in Address |-> Hears(said[b], b, l)]
  BY DEF HandleLine, Read
<1>4. /\ record[a] \in [Field -> Datum] /\ said[a] \in [Field -> Datum]
      /\ \A f \in Field : /\ record[a][f] = Limited(f, said[a][f])
                          /\ record[a][f] # Absent => Fits(f, record[a][f])
  BY <1>2 DEF ContentInv, TypeOK, SaidOK, RecordFollowsFeed, Datum
<1>5. /\ update_record(record[a], m) \in [Field -> Datum]
      /\ Hears(said[a], a, l) \in [Field -> Datum]
      /\ \A f \in Field :
           /\ update_record(record[a], m)[f] = Limited(f, Hears(said[a], a, l)[f])
           /\ update_record(record[a], m)[f] # Absent
                => Fits(f, update_record(record[a], m)[f])
  BY <1>1, <1>4, UpdateFollows
<1>6. MessageOK'
  BY <1>2, <1>3 DEF MessageOK, Shape
<1>7. /\ record \in [Address -> [Field -> Datum]] /\ said \in [Address -> [Field -> Datum]]
      /\ \A b \in Address, f \in Field :
           /\ record[b][f] = Limited(f, said[b][f])
           /\ record[b][f] # Absent => Fits(f, record[b][f])
  BY DEF ContentInv, TypeOK, SaidOK, RecordFollowsFeed, Datum
<1>8. \A b \in Address : b # a => Hears(said[b], b, l) = said[b]
  BY <1>1, <1>7, OthersUnheard
<1> HIDE DEF m, a
<1>9. \A b \in Address :
        /\ record'[b] = IF b = a THEN update_record(record[a], m) ELSE record[b]
        /\ said'[b] = IF b = a THEN Hears(said[a], a, l) ELSE said[b]
  BY <1>2, <1>3, <1>7, <1>8
<1>10. record' \in [Address -> [Field -> Datum]] /\ said' \in [Address -> [Field -> Datum]]
  BY <1>2, <1>3, <1>5, <1>7, <1>9
<1>11. \A b \in Address, f \in Field :
         /\ record'[b][f] = Limited(f, said'[b][f])
         /\ record'[b][f] # Absent => Fits(f, record'[b][f])
  BY <1>5, <1>7, <1>9
<1>12. QED
  BY <1>6, <1>10, <1>11 DEF ContentInv, TypeOK, SaidOK, RecordFollowsFeed, Datum

LEMMA ContentIgnored ==
  ASSUME ContentInv, NEW l \in Lines, Read(l), IgnoreLine(l)
  PROVE  ContentInv'
<1>1. l \in Line /\ ~Accepts(l) /\ message' = Absent /\ UNCHANGED record
  BY LinesAssumption DEF IgnoreLine
<1>2. said \in [Address -> [Field -> Datum]]
  BY DEF ContentInv, SaidOK
<1>3. \A a \in Address : Hears(said[a], a, l) = said[a]
  BY <1>1, <1>2, OthersUnheard
<1>4. UNCHANGED said
  BY <1>2, <1>3 DEF Read
<1>5. ~located'
  <2>1. ~Locates(l)
    BY <1>1, LinesAccepted DEF Locates
  <2>2. QED
    BY <2>1 DEF Read
<1>6. QED
  BY <1>1, <1>4, <1>5 DEF ContentInv, TypeOK, SaidOK, RecordFollowsFeed, MessageOK

LEMMA ContentNext == ContentInv /\ [Next]_vars => ContentInv'
<1> SUFFICES ASSUME ContentInv, [Next]_vars PROVE ContentInv'
  OBVIOUS
<1>1. ASSUME NEW l \in Lines, Read(l) PROVE ContentInv'
  BY <1>1, ContentLine, ContentIgnored DEF Read
<1>2. CASE UNCHANGED vars
  BY <1>2 DEF vars, ContentInv, TypeOK, SaidOK, RecordFollowsFeed, MessageOK
<1>3. QED
  BY <1>1, <1>2 DEF Next, Read

LEMMA ContentInvariant == Spec => []ContentInv
BY ContentInit, ContentNext, PTL DEF Spec

-----------------------------------------------------------------------------
(* Every value of every record fits its C++ type (adsb_record.hpp), for    *)
(* every line and every width the assumptions allow.                       *)
THEOREM ContentTypes == Spec => []TypeOK
<1>1. ContentInv => TypeOK
  BY DEF ContentInv
<1>2. QED
  BY <1>1, ContentInvariant, PTL

(* Every record holds what its aircraft's valid columns said last, each    *)
(* brought to the limits of its field (processMessage, update_record).     *)
THEOREM RecordsFollow == Spec => []RecordFollowsFeed
<1>1. ContentInv => RecordFollowsFeed
  BY DEF ContentInv
<1>2. QED
  BY <1>1, ContentInvariant, PTL

(* The parser passes on only messages of the form AircraftRegistry is      *)
(* proved for: the two models fit together.                                *)
THEOREM MessagesFit == Spec => []MessagesAsAssumed
<1>1. ContentInv => MessagesAsAssumed
  BY DEF ContentInv, MessageOK, MessagesAsAssumed
<1>2. QED
  BY <1>1, ContentInvariant, PTL

(* A line makes a report exactly if it is an airborne position with both   *)
(* coordinates in range (handle_adsb_data, has_position).                  *)
THEOREM WholePositions == Spec => []PositionsWhole
<1>1. ContentInv => PositionsWhole
  BY DEF ContentInv, MessageOK, PositionsWhole, Reporting
<1>2. QED
  BY <1>1, ContentInvariant, PTL

(* Every report gives what the aircraft's lines said last, each value in   *)
(* its unit to within half of one or at its limit (build_report).          *)
THEOREM AccurateReports == Spec => []ReportAccurate
<1>0. ContentInv => PositionsWhole
  BY DEF ContentInv, MessageOK, PositionsWhole, Reporting
<1>1. ASSUME ContentInv PROVE ReportAccurate
  <2> SUFFICES ASSUME Reporting
               PROVE  LET s == [f \in Field |-> OrZero(said[message.icao][f])] IN
                      /\ report.callsign = s["callsign"] /\ report.squawk = s["squawk"]
                      /\ Nearest(report.altitude, s["altitude"], 1, 0, UInt32Max)
                      /\ Nearest(report.heading, s["heading"], 10, 0, UInt16Max)
                      /\ Nearest(report.hor_vel, 463 * s["speed"], 9000, 0, UInt16Max)
                      /\ Nearest(report.ver_vel, 127 * Limited("vertvel", s["vertvel"]),
                                 250, Int16Min, Int16Max)
    BY <1>0, <1>1 DEF ReportAccurate
  <2> DEFINE r == record[message.icao]  t == said[message.icao]
             s == [f \in Field |-> OrZero(t[f])]
  <2>1. message.icao \in Address
    BY <1>1 DEF ContentInv, MessageOK, Reporting
  <2>2. /\ r \in [Field -> Datum] /\ t \in [Field -> Datum]
        /\ \A f \in Field : r[f] = Limited(f, t[f])
    BY <1>1, <2>1 DEF ContentInv, TypeOK, SaidOK, RecordFollowsFeed, Datum
  <2>3. /\ report.altitude = OrZero(r["altitude"])
        /\ report.heading = deg_to_centideg(OrZero(r["heading"]))
        /\ report.hor_vel = knots_to_cm_per_s(OrZero(r["speed"]))
        /\ report.ver_vel = ft_per_min_to_cm_per_s(OrZero(r["vertvel"]))
        /\ report.callsign = OrZero(r["callsign"]) /\ report.squawk = OrZero(r["squawk"])
    BY DEF report, build_report
  <2> HIDE DEF r, t
  <2>4. /\ "altitude" \in Field /\ "heading" \in Field
        /\ "speed" \in Field /\ "vertvel" \in Field
        /\ "callsign" \in Field /\ "squawk" \in Field
    BY DEF Field, MotionField, IdentityField
  <2>5. \A f \in Field : s[f] = OrZero(t[f]) /\ s[f] \in Int /\ OrZero(r[f]) \in Int
    <3>1. \A x \in Datum : OrZero(x) \in Int
      BY DEF OrZero, Datum
    <3>2. QED
      BY <2>2, <3>1
  <2> HIDE DEF s
  <2>6. /\ OrZero(r["heading"]) = s["heading"] /\ OrZero(r["speed"]) = s["speed"]
        /\ OrZero(r["callsign"]) = s["callsign"] /\ OrZero(r["squawk"]) = s["squawk"]
    <3>1. /\ r["heading"] = t["heading"] /\ r["speed"] = t["speed"]
          /\ r["callsign"] = t["callsign"] /\ r["squawk"] = t["squawk"]
      BY <2>2, <2>4 DEF Limited
    <3>2. QED
      BY <2>4, <2>5, <3>1
  <2>7. Nearest(report.altitude, s["altitude"], 1, 0, UInt32Max)
    <3>1. t["altitude"] = Absent \/ r["altitude"] = Clamp(t["altitude"], 0, UInt32Max)
      BY <2>2, <2>4, LimitedByField
    <3>2. t["altitude"] = Absent => r["altitude"] = Absent
      BY <2>2, <2>4, LimitedByField
    <3>3. Absent \notin Int /\ UInt32Max \in Nat
      BY WidthAssumption
    <3>4. report.altitude = Clamp(s["altitude"], 0, UInt32Max)
      BY <2>2, <2>3, <2>4, <2>5, <3>1, <3>2, <3>3 DEF OrZero, Clamp, Datum
    <3>5. QED
      BY <2>4, <2>5, <3>3, <3>4 DEF Nearest, Clamp
  <2>8. OrZero(r["vertvel"]) = Limited("vertvel", s["vertvel"])
    <3>1. t["vertvel"] = Absent \/ r["vertvel"] = Clamp(t["vertvel"], Int16Min, Int16Max)
      BY <2>2, <2>4, LimitedByField
    <3>2. t["vertvel"] = Absent => r["vertvel"] = Absent
      BY <2>2, <2>4, LimitedByField
    <3>3. /\ Absent \notin Int /\ Clamp(0, Int16Min, Int16Max) = 0
          /\ \A x \in Int : Clamp(x, Int16Min, Int16Max) \in Int
      BY WidthAssumption, UnitsAssumption DEF Clamp, Int16Min
    <3>4. Limited("vertvel", s["vertvel"]) = Clamp(s["vertvel"], Int16Min, Int16Max)
      BY <2>4, <2>5, <3>3, LimitedByField
    <3>5. QED
      BY <2>2, <2>4, <2>5, <3>1, <3>2, <3>3, <3>4 DEF OrZero, Datum
  <2>9. /\ Nearest(report.heading, s["heading"], 10, 0, UInt16Max)
        /\ Nearest(report.hor_vel, 463 * s["speed"], 9000, 0, UInt16Max)
    BY <2>3, <2>4, <2>5, <2>6, ConversionsNearest
  <2>10. Nearest(report.ver_vel, 127 * Limited("vertvel", s["vertvel"]), 250, Int16Min, Int16Max)
    BY <2>3, <2>4, <2>5, <2>8, ConversionsNearest
  <2>11. QED
    BY <2>3, <2>6, <2>7, <2>9, <2>10 DEF s, t
<1>2. QED
  BY <1>1, ContentInvariant, PTL
=============================================================================
