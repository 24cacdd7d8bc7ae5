---------------------------- MODULE MCLineFraming ----------------------------
(* Instances of LineFraming for TLC: a buffer of two bytes, and a stream of *)
(* three buffers and more.                                                  *)
EXTENDS LineFraming

CONSTANT MaxTime

MCTime == 0..MaxTime
=============================================================================
