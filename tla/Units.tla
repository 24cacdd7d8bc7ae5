-------------------------------- MODULE Units --------------------------------
(***************************************************************************)
(* adsb_units (units.hpp): from the units of SBS-1 to those of the FSS     *)
(* report.  The doubles' fractions are exact here: an input that may have  *)
(* decimals is given in thousandths, and a result before rounding is a     *)
(* numerator over a fixed denominator.                                     *)
(***************************************************************************)
EXTENDS Integers

CONSTANTS
  UInt16Max,  (* largest uint16_t                              *)
  Int16Max    (* largest int16_t; the smallest is -Int16Max - 1 *)

ASSUME UnitsAssumption == UInt16Max \in Nat \ {0} /\ Int16Max \in Nat \ {0}

Int16Min == -Int16Max - 1

(* std::clamp *)
Clamp(v, lo, hi) == IF v < lo THEN lo ELSE IF hi < v THEN hi ELSE v

(* Mutant: the fraction is dropped. *)
Truncated(n, d) == n \div d

(* n/d + 0.5, cut to an integer: the nearest one if n is not negative. *)
RoundHalfUp(n, d) == (2 * n + d) \div (2 * d)

(* The nearest integer of either sign: 0.5 is added or taken off by sign. *)
RoundBySign(n, d) == IF n >= 0 THEN RoundHalfUp(n, d) ELSE -RoundHalfUp(-n, d)

(* One knot is 1852/36 cm/s: 463/9000 per thousandth. *)
knots_to_cm_per_s(milli) == RoundHalfUp(Clamp(463 * milli, 0, 9000 * UInt16Max), 9000)

(* One foot per minute is 30.48/60 cm/s = 127/250. *)
ft_per_min_to_cm_per_s(v) ==
  RoundBySign(Clamp(127 * v, 250 * Int16Min, 250 * Int16Max), 250)

(* A thousandth of a degree is 1/10 centidegree. *)
deg_to_centideg(milli) == RoundHalfUp(Clamp(milli, 0, 10 * UInt16Max), 10)
=============================================================================
