--------------------------- MODULE MCReportContent ---------------------------
(* An instance of ReportContent for TLC.  Its integer types are small, with *)
(* a long that is narrower than the altitude's unsigned type, as on armhf.  *)
(* A column takes each of the texts its parser tells apart while the other  *)
(* columns of its line are empty.                                          *)
EXTENDS ReportContent

Number(sign, whole) ==
  [sign |-> sign, digits |-> "whole", whole |-> whole, milli |-> 0, rest |-> FALSE]
Decimal(sign, whole, milli) ==
  [sign |-> sign, digits |-> "decimal", whole |-> whole, milli |-> milli, rest |-> FALSE]
Empty == [Number("none", 0) EXCEPT !.digits = "none"]
Garbage == [Empty EXCEPT !.rest = TRUE]
NanOrInf == [Empty EXCEPT !.digits = "special"]
WithRest(t) == [t EXCEPT !.rest = TRUE]

(* Texts no parser of numbers accepts. *)
Junk == {Empty, Garbage, WithRest(Number("none", 12)), Number("other", 12)}

Altitudes ==
  {Number("none", n) : n \in {35, 91, 500}} \cup {Number("minus", n) : n \in {1, 500}}
  \cup {Decimal("none", 12, 500)} \cup Junk
Tracks ==
  {Decimal("none", 270, 555), Number("none", 360), Number("none", 361),
   Number("minus", 1), NanOrInf} \cup Junk
Speeds ==
  {Decimal("none", 145, 650), Number("none", 1500),
   Number("none", 2001), NanOrInf} \cup Junk
Rates ==
  {Number("minus", 7), Number("none", 30), Number("none", 99), Number("minus", 99)}
  \cup {Decimal("none", 12, 500)} \cup Junk
Squawks ==
  {Number("none", n) : n \in {7777, 7778, 1280, 1208, 9999}}
  \cup {Number("minus", 1200)} \cup Junk
Latitudes == {Decimal("minus", 43, 531), Number("none", 90), Number("none", 91), NanOrInf, Empty}
Longitudes == {Decimal("none", 172, 636), Number("minus", 181), WithRest(Number("none", 12)), Empty}

Blank ==
  [columns |-> TRUE, type |-> "MSG", id |-> Number("none", 8), address |-> Number("none", 1),
   callsign |-> 0, altitude |-> Empty, groundspeed |-> Empty, track |-> Empty,
   lat |-> Empty, lng |-> Empty, vertrate |-> Empty, squawk |-> Empty]
Msg(id) == [Blank EXCEPT !.id = Number("none", id)]
Fix == [Msg(3) EXCEPT !.lat = Number("none", 1), !.lng = Number("none", 1)]

MCLines ==
  {[Msg(1) EXCEPT !.callsign = c] : c \in {0, 8, 9}}
  \cup {[Msg(id) EXCEPT !.altitude = t] : id \in {5, 7}, t \in {Number("none", 35)}}
  \cup {[Fix EXCEPT !.altitude = t] : t \in Altitudes}
  \cup {[Msg(3) EXCEPT !.lat = s, !.lng = t] : s \in Latitudes, t \in Longitudes}
  \cup {[Msg(4) EXCEPT !.track = t] : t \in Tracks}
  \cup {[Msg(4) EXCEPT !.groundspeed = t] : t \in Speeds}
  \cup {[Msg(4) EXCEPT !.vertrate = t] : t \in Rates}
  \cup {[Msg(6) EXCEPT !.squawk = t] : t \in Squawks}
  \cup {[Fix EXCEPT !.id = t, !.altitude = Number("none", 35)] :
           t \in {Number("none", n) : n \in {2, 8, 9, 50}}
                \cup {Number("minus", 3), Number("other", 3), Decimal("none", 3, 500),
                      WithRest(Number("none", 3)), Empty}}
  \cup {[Fix EXCEPT !.address = t] : t \in {Number("none", n) : n \in {0, 2, 3}} \cup Junk}
  \cup {[Fix EXCEPT !.columns = FALSE], [Fix EXCEPT !.type = "other"]}

MCAddress == 1..IcaoMax
MCMsgType == 1..8
=============================================================================
