--------------------------- MODULE MCReportQueue ---------------------------
(* Instance of ReportQueue for TLC: one aircraft more than the queue holds, *)
(* and two fixes, so that coalescing and displacement can be told apart.    *)
EXTENDS ReportQueue

MCTime == {0}
MCFix == 1..2
=============================================================================
