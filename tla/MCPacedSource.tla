---------------------------- MODULE MCPacedSource ---------------------------
(* A dump of a large record, a small one and an empty one.                  *)
EXTENDS PacedSource

MCRecords == <<3, 1, 0>>
=============================================================================
