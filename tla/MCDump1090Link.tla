--------------------------- MODULE MCDump1090Link ---------------------------
(* Instances of Dump1090Link for TLC: a host with two addresses, and one    *)
(* descriptor more than the link ever needs at a time.                      *)
EXTENDS Dump1090Link

CONSTANTS c1, c2

MCCandidate == {c1, c2}
MCCandidates == <<c1, c2>>
=============================================================================
