---------------------------- MODULE MCCoreStream ----------------------------
(* Rings and requests for the composed runs. *)
EXTENDS CoreStream

\* A fresh directory, one the source's first ledger continues, and one it
\* rewinds into.
MCRings == {{}, {1}, {3}}
RestartRings == {{}, {3}}
\* Rings of up to two ledgers the source rewinds into.
StaleRings == {{2, 3}, {3}}

\* Tip, history, the live edge and a ledger yet to come; bounded and not.
AllRequests == { <<0, 0>>, <<1, 0>>, <<2, 3>>, <<0, 2>> }
EdgeRequests == { <<0, 0>>, <<2, 0>>, <<2, 3>> }
=============================================================================
