------------------------------- MODULE Daemon -------------------------------
(***************************************************************************)
(* runServices (cmd/corestreamd/main.go): the source loop, the HTTP server *)
(* and the goroutine that shuts it down, the channel their errors go       *)
(* through, and the process's end.  With them, the connections: Shutdown   *)
(* waits for plain requests and not for hijacked connections, whose serve  *)
(* loops hang on the signal's context and not on the inner one.            *)
(***************************************************************************)
EXTENDS Integers, Sequences

CONSTANT Conns   \* the connections clients may make

VARIABLES
    sig,       \* SIGINT or SIGTERM arrived: the outer context is cancelled
    cancelled, \* the inner context is cancelled
    run,       \* the goroutine of srv.Run
    serve,     \* the goroutine of httpSrv.Serve
    shut,      \* the goroutine of httpSrv.Shutdown
    failed,    \* the components that returned an error
    errs,      \* the channel errs: for each result whether it is an error
    conn,      \* each connection; "finishing": a subscriber when Run returned
    exit       \* how the process ended

vars == <<sig, cancelled, run, serve, shut, failed, errs, conn, exit>>

Init ==
    /\ sig = FALSE /\ cancelled = FALSE
    /\ run = "run" /\ serve = "run" /\ shut = "wait"
    /\ failed = {} /\ errs = <<>>
    /\ conn = [c \in Conns |-> "none"]
    /\ exit = "no"

Alive == exit = "no"

\* The signal cancels the outer context, and with it the inner one.
Signal ==
    /\ Alive /\ ~sig
    /\ sig' = TRUE /\ cancelled' = TRUE
    /\ UNCHANGED <<run, serve, shut, failed, errs, conn, exit>>

-----------------------------------------------------------------------------
\* A component's goroutine sends its result, and on its way out cancels.

\* The channel errs has room for both results.
HasRoom == Len(errs) < 2

\* Run returns: when the source ends or fails, or when it is cancelled.  The
\* subscribers of the moment are woken to be finished off.
RunEnds ==
    /\ Alive /\ run = "run"
    /\ \E bad \in BOOLEAN : failed' = IF bad THEN failed \cup {"run"} ELSE failed
    /\ run' = "send"
    /\ conn' = [c \in Conns |-> IF conn[c] = "serving" THEN "finishing" ELSE conn[c]]
    /\ UNCHANGED <<sig, cancelled, serve, shut, errs, exit>>

RunSends ==
    /\ Alive /\ run = "send" /\ HasRoom
    /\ errs' = Append(errs, "run" \in failed)
    /\ run' = "cancel"
    /\ UNCHANGED <<sig, cancelled, serve, shut, failed, conn, exit>>

\* Mutant: the source loop's end leaves the listener up.
RunLeaves ==
    /\ Alive /\ run = "cancel"
    /\ run' = "done"
    /\ UNCHANGED <<sig, cancelled, serve, shut, failed, errs, conn, exit>>

RunCancels ==
    /\ Alive /\ run = "cancel"
    /\ cancelled' = TRUE
    /\ run' = "done"
    /\ UNCHANGED <<sig, serve, shut, failed, errs, conn, exit>>

\* Serve returns ErrServerClosed, which is no failure, once Shutdown has begun;
\* before that it can only fail.
ServeEnds ==
    /\ Alive /\ serve = "run"
    /\ \/ shut # "wait" /\ UNCHANGED failed
       \/ shut = "wait" /\ failed' = failed \cup {"serve"}
    /\ serve' = "send"
    /\ UNCHANGED <<sig, cancelled, run, shut, errs, conn, exit>>

ServeSends ==
    /\ Alive /\ serve = "send" /\ HasRoom
    /\ errs' = Append(errs, "serve" \in failed)
    /\ serve' = "cancel"
    /\ UNCHANGED <<sig, cancelled, run, shut, failed, conn, exit>>

ServeCancels ==
    /\ Alive /\ serve = "cancel"
    /\ cancelled' = TRUE
    /\ serve' = "done"
    /\ UNCHANGED <<sig, run, shut, failed, errs, conn, exit>>

\* Shutdown closes the listener and waits for the requests under way, or for
\* its timeout.
ShutdownBegins ==
    /\ Alive /\ shut = "wait" /\ cancelled
    /\ shut' = "shutdown"
    /\ UNCHANGED <<sig, cancelled, run, serve, failed, errs, conn, exit>>

ShutdownReturns ==
    /\ Alive /\ shut = "shutdown"
    /\ shut' = "done"
    /\ UNCHANGED <<sig, cancelled, run, serve, failed, errs, conn, exit>>

-----------------------------------------------------------------------------
\* The connections.

Accept(c) ==
    /\ Alive /\ serve = "run" /\ shut = "wait"
    /\ conn[c] = "none"
    /\ conn' = [conn EXCEPT ![c] = "request"]
    /\ UNCHANGED <<sig, cancelled, run, serve, shut, failed, errs, exit>>

\* A request is answered, or it becomes a subscription.
Answer(c) ==
    /\ Alive /\ conn[c] = "request"
    /\ \E to \in {"none", "serving"} : conn' = [conn EXCEPT ![c] = to]
    /\ UNCHANGED <<sig, cancelled, run, serve, shut, failed, errs, exit>>

Subscribed(c) == conn[c] \in {"serving", "finishing"}

\* The serve loop sends what it owes, sees that the source ended and closes; a
\* signal ends it with the connection.
ServeCloses(c) ==
    /\ Alive /\ Subscribed(c)
    /\ \/ run # "run" /\ conn' = [conn EXCEPT ![c] = "closed"]
       \/ sig /\ conn' = [conn EXCEPT ![c] = "none"]
    /\ UNCHANGED <<sig, cancelled, run, serve, shut, failed, errs, exit>>

ClientLeaves(c) ==
    /\ Alive /\ Subscribed(c)
    /\ conn' = [conn EXCEPT ![c] = "none"]
    /\ UNCHANGED <<sig, cancelled, run, serve, shut, failed, errs, exit>>

-----------------------------------------------------------------------------
\* Mutant: the first result is the process's.
JoinedFirst == errs[1]

\* errors.Join over what the channel holds.
Joined == \E i \in 1..Len(errs) : errs[i]

\* wg.Wait returns once all three goroutines are through, and the process
\* exits: its connections end with it.
Exit ==
    /\ Alive /\ run = "done" /\ serve = "done" /\ shut = "done"
    /\ exit' = IF Joined THEN "fail" ELSE "ok"
    /\ UNCHANGED <<sig, cancelled, run, serve, shut, failed, errs, conn>>

Services ==
    \/ RunSends \/ RunCancels \/ (cancelled /\ RunEnds)
    \/ ServeSends \/ ServeCancels \/ (shut # "wait" /\ ServeEnds)
    \/ ShutdownBegins \/ ShutdownReturns \/ Exit

Next ==
    \/ Services \/ RunEnds \/ ServeEnds \/ Signal
    \/ \E c \in Conns : Accept(c) \/ Answer(c) \/ ServeCloses(c) \/ ClientLeaves(c)

Spec == Init /\ [][Next \/ (~Alive /\ UNCHANGED vars)]_vars

\* The scheduler runs the goroutines; a cancelled source loop returns, which
\* PipeSource's CancelEnds and ChunkPipeline's EverythingStops show of it.
FairSpec ==
    /\ Spec
    /\ WF_vars(cancelled /\ RunEnds) /\ WF_vars(RunSends) /\ WF_vars(RunCancels)
    /\ WF_vars(shut # "wait" /\ ServeEnds) /\ WF_vars(ServeSends) /\ WF_vars(ServeCancels)
    /\ WF_vars(ShutdownBegins) /\ WF_vars(ShutdownReturns) /\ WF_vars(Exit)

-----------------------------------------------------------------------------
\* The process fails exactly when a component did, whichever of them returned
\* first and whatever made the other return (main.go:380).
FailureIsReported == ~Alive => (exit = "fail") = (failed # {})

\* "the first one to return ends the process" (main.go:382): no half of the
\* daemon outlives the other, and a signal ends both.
DaemonEnds == (sig \/ run # "run" \/ serve # "run") ~> ~Alive

\* "When Run returns, every connected subscriber is finished off with a normal
\* close" (server.go:212): if the source loop returned by itself and nothing
\* failed, the process does not exit over a subscriber still to be closed.
SubscribersAreFinishedOff ==
    (exit = "ok" /\ ~sig) => \A c \in Conns : conn[c] # "finishing"
=============================================================================
