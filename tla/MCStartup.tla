------------------------------ MODULE MCStartup -----------------------------
(* Starts and counts below, at and above the width; chunk sizes and client  *)
(* caps around their bounds.                                                *)
EXTENDS Startup

Options ==
    [source : {"captive", "file", "synthetic", "pipe"}, start : {0, 1, 2, 6, 7, 8, 9},
     count : {0, 1, 5, 6, 7, 8, 9}, window : {-1, 0, 2}, cadence : {-1, 0, 1}, chunk : {1, 2, 4, 5},
     size : {1}, named : {TRUE}, fileDir : {"dump"}, retention : {1}, workers : {0}]

Directories ==
    [source : {"file"}, start : {1}, count : {1}, window : {0}, cadence : {0}, chunk : {2},
     size : {1, 3}, named : BOOLEAN, fileDir : {"ring", "dump", "link"}, retention : {0, 1},
     workers : {-1, 0, 2, 3}]

MCCaps == {-32, -1, 0, 1, 2, 3, 4, 5, 28, 29, 30, 31}
MCFlags == Options \cup Directories
=============================================================================
