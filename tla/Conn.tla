-------------------------------- MODULE Conn --------------------------------
(***************************************************************************)
(* One WebSocket connection per subscriber, as the server and the client   *)
(* use it (the library itself is external): messages arrive whole and in   *)
(* order, a write blocks while the socket buffer is full, and a connection *)
(* that is down may still yield what was sent before.                      *)
(***************************************************************************)
EXTENDS Wire

CONSTANTS
    Subs,       \* subscribers
    SocketBuf   \* messages in flight before a write blocks

ASSUME ConnAssumption == SocketBuf \in Nat \ {0}

VARIABLES
    net,   \* per subscriber, the messages written and not read
    conn   \* per subscriber: "none" before the dial, "open", "down"

connVars == <<net, conn>>

ConnInit ==
    /\ net = [s \in Subs |-> <<>>]
    /\ conn = [s \in Subs |-> "none"]

CanWrite(s) == conn[s] = "open" /\ Len(net[s]) < SocketBuf
Blocked(s) == conn[s] = "open" /\ Len(net[s]) = SocketBuf

Send(s, m) == net' = [net EXCEPT ![s] = Append(@, m)] /\ UNCHANGED conn
TakeDown(s) == conn' = [conn EXCEPT ![s] = "down"]

\* The network loses the connection.
Drop(s) ==
    /\ conn[s] = "open"
    /\ TakeDown(s)
    /\ UNCHANGED net
=============================================================================
