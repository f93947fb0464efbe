--------------------------- MODULE MCRetentionRing --------------------------
(* The retention ring over a directory that holds nothing, a short range or *)
(* a longer one than the retention allows (a run with a larger retention).  *)
EXTENDS RetentionRing

MCRanges == {{}, {2, 3}, {1, 2, 3}}
=============================================================================
