------------------------- MODULE MCAircraftRegistry -------------------------
(* Instances of AircraftRegistry for TLC: more aircraft than the registry   *)
(* holds, for both ways out of it and for the fields of those that return.  *)
EXTENDS AircraftRegistry, TLC

CONSTANTS
  MaxTime,
  MaxHeard  (* usable fields on record of the aircraft tracked at a time *)

MCTime == 0..MaxTime
AircraftSymmetry == Permutations(Address)

(* State constraint: `heard` only grows while its aircraft stay tracked. *)
HeardBound == Cardinality(heard) <= MaxHeard
=============================================================================
