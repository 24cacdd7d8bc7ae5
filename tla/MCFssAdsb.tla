------------------------------ MODULE MCFssAdsb ------------------------------
(* Instances of FssAdsb for TLC: more aircraft than the registry tracks.    *)
EXTENDS FssAdsb

CONSTANT MaxTime

MCTime == 0..MaxTime
=============================================================================
