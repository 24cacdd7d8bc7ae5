----------------------------- MODULE AdsbMessage -----------------------------
(***************************************************************************)
(* What dump1090 hands to its callback: one decoded message of an aircraft *)
(* (class ADSBData as processMessage() fills it, dump1090.cpp).  Which of  *)
(* the fields a message carries is told here, not their values.            *)
(***************************************************************************)
EXTENDS Integers

CONSTANTS
  Address,  (* ICAO addresses                           *)
  MsgType   (* the SBS-1 transmission types received    *)

ASSUME MsgTypeAssumption == MsgType \subseteq 1..8

MotionField == {"altitude", "heading", "speed", "vertvel"}
IdentityField == {"callsign", "squawk"}
Field == MotionField \cup IdentityField

(* The fields processMessage() looks for in each transmission type. *)
Carries(type) ==
  CASE type = 1 -> {"callsign"}
    [] type = 3 -> {"altitude"}
    [] type = 4 -> {"speed", "heading", "vertvel"}
    [] type \in {5, 7} -> {"altitude"}
    [] type = 6 -> {"squawk", "altitude"}
    [] OTHER -> {}

(* The messages processMessage() passes to its callback.  A field that does *)
(* not parse is absent, except that MSG,1 always carries its callsign, raw: *)
(* `usable` says whether that is 1 to 8 characters without its padding.     *)
Message ==
  {m \in [icao : Address, type : MsgType, fields : SUBSET Field,
          usable : BOOLEAN, position : BOOLEAN] :
     /\ m.fields \subseteq Carries(m.type)
     /\ m.type = 1 => m.fields = Carries(1)
     /\ m.type # 1 => m.usable
     /\ m.position => m.type = 3}

(* The fields of a message that update_record() accepts. *)
Accepted(m) == IF m.usable THEN m.fields ELSE m.fields \ {"callsign"}
=============================================================================
