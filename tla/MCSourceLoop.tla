---------------------------- MODULE MCSourceLoop ----------------------------
(* Run over a fresh ring, over one the source continues, and over ones it   *)
(* rewinds into or leaves a gap after.                                      *)
EXTENDS SourceLoop

MCRings == {{}, {1}, {1, 2}, {2, 3}}
=============================================================================
