------------------------- MODULE MCReportingWorker -------------------------
(* Instances of ReportingWorker for TLC: a safety instance with time enough *)
(* for saturation and for a drain deadline to pass during a backlog, and a  *)
(* smaller one for liveness.                                                *)
EXTENDS ReportingWorker, TLC

CONSTANTS MaxTime, MaxFix

MCTime == 0..MaxTime
MCFix == 1..MaxFix
TwoOffsets == {0, 3}
OneOffset == {0}

(* Aircraft are interchangeable. *)
AircraftSymmetry == Permutations(Address)
=============================================================================
