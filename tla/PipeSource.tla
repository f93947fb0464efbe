----------------------------- MODULE PipeSource -----------------------------
(***************************************************************************)
(* The pipe source (internal/server/pipesource.go): a shell command in a   *)
(* process group of its own writes framed ledgers into a pipe, and the     *)
(* iterator yields each frame with a body that streams from the pipe.      *)
(* With it: the source loop as the iterator's consumer, the kernel's pipe  *)
(* and signals, and os/exec's watch over the context.                      *)
(*                                                                         *)
(* The command is the environment.  Its processes write, close the pipe,   *)
(* exit or hang as they like; which of them left the group, which ignore   *)
(* SIGTERM and which one is the writer is chosen at the start.             *)
(***************************************************************************)
EXTENDS Integers, Sequences, FiniteSets

CONSTANTS
    Kids,        \* the processes that sh may have forked
    PipeCap,     \* the pipe's capacity, in units
    Sizes,       \* the sizes of the frames the command writes
    MaxFrames    \* bound: frames it writes

ASSUME PipeAssumption ==
    /\ PipeCap \in Nat \ {0}
    /\ Sizes \subseteq Nat \ {0}
    /\ MaxFrames \in Nat

VARIABLES
    ctx,        \* the context is cancelled
    deadline,   \* the read deadline is in the past
    proc,       \* each process: "run", or how it ended; "none" before Start
    escaped, stubborn, writer,   \* the command's shape
    fds,        \* the processes that hold the write end
    termed,     \* the processes SIGTERM was sent to
    wr,         \* the last unit the writer wrote
    pipe, br,   \* what the pipe and the bufio.Reader hold
    rOpen,      \* the read end is open
    pc,         \* where the iterator, and Run in it, is
    got,        \* marker units read
    body, ledgers,   \* the body being read, and the bodies read to their EOF
    runErr,     \* what Run concluded: "none" until it does
    waited,     \* cmd.Wait returned
    watch,      \* os/exec's watch over the context
    fault       \* the command failed by itself

cmdVars == <<proc, escaped, stubborn, writer, fds, termed, wr, fault>>
readVars == <<got, body, ledgers>>
vars == <<ctx, deadline, cmdVars, pipe, br, rOpen, pc, readVars, runErr, waited, watch>>

Procs == Kids \cup {"sh"}
Group == Procs \ escaped
Alive(p) == proc[p] = "run"

\* A frame is a marker of two units and size payload units, numbered from 3.
\* A bad marker lacks the last-fragment bit; a bad prefix has no sequence.
AtBoundary == wr.pos = wr.size + 2

Init ==
    /\ ctx = FALSE /\ deadline = FALSE
    /\ proc = [p \in Procs |-> "none"]
    /\ escaped \in SUBSET Kids /\ stubborn \in SUBSET Procs /\ writer \in Procs
    /\ fds = Procs /\ termed = {}
    /\ wr = [frame |-> 0, pos |-> 2, size |-> 0, kind |-> "ok"]
    /\ pipe = <<>> /\ br = <<>> /\ rOpen = TRUE
    /\ pc = "start"
    /\ got = 0 /\ body = <<>> /\ ledgers = <<>>
    /\ runErr = "none" /\ waited = FALSE /\ watch = "idle" /\ fault = FALSE

-----------------------------------------------------------------------------
\* The command and the kernel.

Started == pc \notin {"start", "returned"}

Die(ps, status) ==
    /\ proc' = [p \in Procs |-> IF p \in ps /\ Alive(p) THEN status ELSE proc[p]]
    /\ fds' = fds \ ps

PipeHasRoom == Len(pipe) < PipeCap

\* The writer writes its next unit, into a pipe with room.  What it would
\* write after a bad marker is never read.
Write ==
    /\ Started /\ Alive(writer) /\ writer \in fds
    /\ rOpen
    /\ PipeHasRoom
    /\ ~(wr.kind = "badmarker" /\ wr.pos = 2)
    /\ IF AtBoundary
       THEN /\ wr.frame < MaxFrames
            /\ \E size \in Sizes, kind \in {"ok", "badmarker", "badseq"} :
                 wr' = [frame |-> wr.frame + 1, pos |-> 1, size |-> size, kind |-> kind]
       ELSE wr' = [wr EXCEPT !.pos = @ + 1]
    /\ pipe' = Append(pipe, wr')
    /\ fault' = (fault \/ wr'.kind # "ok")
    /\ UNCHANGED <<ctx, deadline, proc, escaped, stubborn, writer, fds, termed,
                   br, rOpen, pc, readVars, runErr, waited, watch>>

\* A process stops on its own: it exits, well or badly, closes the pipe and
\* goes on, or dies of writing into a pipe nobody reads.
Leave(p) ==
    /\ Started /\ Alive(p)
    /\ \/ \E status \in {"ok", "err"} :
            /\ Die({p}, status)
            /\ fault' = (fault \/ (p = "sh" /\ status = "err") \/ (p = writer /\ ~AtBoundary))
       \/ /\ p \in fds
          /\ fds' = fds \ {p}
          /\ fault' = (fault \/ (p = writer /\ ~AtBoundary))
          /\ UNCHANGED proc
       \/ p = writer /\ p \in fds /\ ~rOpen /\ Die({p}, "err") /\ UNCHANGED fault
    /\ UNCHANGED <<ctx, deadline, escaped, stubborn, writer, termed, wr, pipe, br, rOpen, pc,
                   readVars, runErr, waited, watch>>

\* SIGTERM ends a process that does not ignore it.
Terminate(p) ==
    /\ Started /\ Alive(p) /\ p \in termed \ stubborn
    /\ Die({p}, "err")
    /\ UNCHANGED <<ctx, deadline, escaped, stubborn, writer, termed, wr, fault, pipe, br, rOpen,
                   pc, readVars, runErr, waited, watch>>

-----------------------------------------------------------------------------
\* The context: cancelled once, by anyone; its AfterFunc sets the deadline;
\* os/exec signals the group, and after WaitDelay kills the direct child.

CancelCtx ==
    /\ ~ctx /\ pc # "returned"
    /\ ctx' = TRUE
    /\ UNCHANGED <<deadline, cmdVars, pipe, br, rOpen, pc, readVars, runErr, waited, watch>>

\* Mutant: nothing unblocks the read.
UnblockNever == FALSE /\ UNCHANGED vars

Unblock ==
    /\ ctx /\ ~deadline
    /\ Started
    /\ deadline' = TRUE
    /\ UNCHANGED <<ctx, cmdVars, pipe, br, rOpen, pc, readVars, runErr, waited, watch>>

WatchCancel ==
    /\ watch = "idle"
    /\ ctx
    /\ Started /\ ~waited
    /\ termed' = termed \cup {p \in Group : Alive(p)}
    /\ watch' = "timer"
    /\ UNCHANGED <<ctx, deadline, proc, escaped, stubborn, writer, fds, wr, fault, pipe, br, rOpen,
                   pc, readVars, runErr, waited>>

WatchKill ==
    /\ watch = "timer"
    /\ ~waited
    /\ Die({"sh"}, "err")
    /\ watch' = "over"
    /\ UNCHANGED <<ctx, deadline, escaped, stubborn, writer, termed, wr, fault, pipe, br, rOpen,
                   pc, readVars, runErr, waited>>

-----------------------------------------------------------------------------
\* The iterator, with the source loop that reads the bodies.

\* A failed os.Pipe or Start yields an error and starts nothing.
Start ==
    /\ pc = "start"
    /\ \/ /\ proc' = [p \in Procs |-> "run"]
          /\ pc' = "marker"
          /\ UNCHANGED <<runErr, fault>>
       \/ /\ pc' = "returned"
          /\ runErr' = "fail" /\ fault' = TRUE
          /\ UNCHANGED proc
    /\ UNCHANGED <<ctx, deadline, escaped, stubborn, writer, fds, termed, wr, pipe, br, rOpen,
                   readVars, waited, watch>>

\* A read of the pipe fills the bufio.Reader once that is empty: with what
\* there is, or it fails, with the deadline first.
Reading == pc \in {"marker", "prefix", "body"}
NeedsPipe == Reading /\ br = <<>> /\ ~(pc = "body" /\ Len(body) = body[1].size)
ReadFails == NeedsPipe /\ (deadline \/ (pipe = <<>> /\ fds = {}))

Fill ==
    /\ NeedsPipe
    /\ ~deadline /\ pipe # <<>>
    /\ \E n \in 1..Len(pipe) :
         /\ br' = SubSeq(pipe, 1, n)
         /\ pipe' = SubSeq(pipe, n + 1, Len(pipe))
    /\ UNCHANGED <<ctx, deadline, cmdVars, rOpen, pc, readVars, runErr, waited, watch>>

\* The iterator yields an error, and Run returns it; or it just returns.
Yield(err) == runErr' = err /\ pc' = "defer"
Quit == pc' = "defer" /\ UNCHANGED runErr

\* ReadFrameLength: the marker's two units.
ReadMarker ==
    /\ pc = "marker" /\ br # <<>>
    /\ br' = Tail(br)
    /\ IF got = 0 THEN got' = 1 /\ UNCHANGED <<pc, runErr>>
       ELSE IF Head(br).kind = "badmarker" THEN Yield("fail") /\ UNCHANGED got
       ELSE pc' = "prefix" /\ got' = 0 /\ UNCHANGED runErr
    /\ UNCHANGED <<ctx, deadline, cmdVars, pipe, rOpen, body, ledgers, waited, watch>>

\* Its EOF is the end of the range only before the first unit.
MarkerFails ==
    /\ pc = "marker" /\ ReadFails
    /\ IF got = 0 /\ ~deadline THEN pc' = "eof" /\ UNCHANGED runErr
       ELSE IF ctx THEN Quit
       ELSE Yield("fail")
    /\ UNCHANGED <<ctx, deadline, cmdVars, pipe, br, rOpen, readVars, waited, watch>>

\* The prefix (here the first unit) names the ledger, and it is yielded.
ReadPrefix ==
    /\ pc = "prefix" /\ br # <<>>
    /\ br' = Tail(br)
    /\ IF Head(br).kind = "badseq" THEN Yield("fail") /\ UNCHANGED body
       ELSE pc' = "body" /\ body' = <<Head(br)>> /\ UNCHANGED runErr
    /\ UNCHANGED <<ctx, deadline, cmdVars, pipe, rOpen, got, ledgers, waited, watch>>

PrefixFails ==
    /\ pc = "prefix" /\ ReadFails
    /\ IF ctx THEN Quit ELSE Yield("fail")
    /\ UNCHANGED <<ctx, deadline, cmdVars, pipe, br, rOpen, readVars, waited, watch>>

\* The body: Run reads the prefix, then frameTail, until its EOF.
ReadBody ==
    /\ pc = "body" /\ br # <<>>
    /\ Len(body) < body[1].size
    /\ body' = Append(body, Head(br))
    /\ br' = Tail(br)
    /\ UNCHANGED <<ctx, deadline, cmdVars, pipe, rOpen, pc, got, ledgers, runErr, waited, watch>>

BodyEnds ==
    /\ pc = "body"
    /\ Len(body) = body[1].size
    /\ ledgers' = Append(ledgers, body)
    /\ pc' = "marker"
    /\ UNCHANGED <<ctx, deadline, cmdVars, pipe, br, rOpen, got, body, runErr, waited, watch>>

\* Mutant: an EOF inside the frame is passed on as it is.
BodyEndsShort ==
    /\ pc = "body" /\ ReadFails
    /\ IF ctx THEN Yield("cancel") /\ UNCHANGED ledgers
              ELSE ledgers' = Append(ledgers, body) /\ pc' = "marker" /\ UNCHANGED runErr
    /\ UNCHANGED <<ctx, deadline, cmdVars, pipe, br, rOpen, got, body, waited, watch>>

\* Mutant: the deadline's error is passed on as it is.
BodyTimesOut ==
    /\ pc = "body" /\ ReadFails
    /\ Yield("fail")
    /\ UNCHANGED <<ctx, deadline, cmdVars, pipe, br, rOpen, readVars, waited, watch>>

\* frameTail: an error is the cancellation's once the context is cancelled,
\* and an EOF inside the frame is a failure.
BodyFails ==
    /\ pc = "body" /\ ReadFails
    /\ Yield(IF ctx THEN "cancel" ELSE "fail")
    /\ UNCHANGED <<ctx, deadline, cmdVars, pipe, br, rOpen, readVars, waited, watch>>

\* Run gives up on the ledger for a reason of its own (SourceLoop).
ConsumerStops ==
    /\ pc = "body"
    /\ Yield("stop")
    /\ UNCHANGED <<ctx, deadline, cmdVars, pipe, br, rOpen, readVars, waited, watch>>

\* Mutant: the pipe's end is the range's end, however the command exited.
EofUnwaited ==
    /\ pc = "eof"
    /\ Quit
    /\ UNCHANGED <<ctx, deadline, cmdVars, pipe, br, rOpen, readVars, waited, watch>>

\* At the pipe's end the command's exit status decides.
Eof ==
    /\ pc = "eof"
    /\ ~Alive("sh")
    /\ waited' = TRUE
    /\ IF proc["sh"] = "err" /\ ~ctx THEN Yield("fail") ELSE Quit
    /\ UNCHANGED <<ctx, deadline, cmdVars, pipe, br, rOpen, readVars, watch>>

-----------------------------------------------------------------------------
\* The deferred calls.

\* The read end is closed; an early stop signals the group itself.
CloseRead ==
    /\ pc = "defer"
    /\ rOpen' = FALSE
    /\ termed' = IF ctx THEN termed ELSE termed \cup {p \in Group : Alive(p)}
    /\ pc' = "reap"
    /\ UNCHANGED <<ctx, deadline, proc, escaped, stubborn, writer, fds, wr, fault, pipe, br,
                   readVars, runErr, waited, watch>>

\* cmd.Wait, if it has not been called, waits for the direct child.
Reap ==
    /\ pc = "reap"
    /\ waited \/ ~Alive("sh")
    /\ waited' = TRUE
    /\ pc' = "sweep"
    /\ UNCHANGED <<ctx, deadline, cmdVars, pipe, br, rOpen, readVars, runErr, watch>>

\* Mutant: the group is not swept.
SweepNothing ==
    /\ pc = "sweep"
    /\ runErr' = IF runErr = "none" THEN (IF ctx THEN "cancel" ELSE "clean") ELSE runErr
    /\ pc' = "returned"
    /\ UNCHANGED <<ctx, deadline, cmdVars, pipe, br, rOpen, readVars, waited, watch>>

\* What is left of the group is killed.  The iterator returns, and Run, if it
\* has not failed, tells a cancellation from the range's end by the context.
Sweep ==
    /\ pc = "sweep"
    /\ Die(Group, "err")
    /\ runErr' = IF runErr = "none" THEN (IF ctx THEN "cancel" ELSE "clean") ELSE runErr
    /\ pc' = "returned"
    /\ UNCHANGED <<ctx, deadline, escaped, stubborn, writer, termed, wr, fault, pipe, br, rOpen,
                   readVars, waited, watch>>

-----------------------------------------------------------------------------
Iterator ==
    \/ Start \/ Fill \/ ReadMarker \/ MarkerFails \/ ReadPrefix \/ PrefixFails
    \/ ReadBody \/ BodyEnds \/ BodyFails \/ Eof
    \/ CloseRead \/ Reap \/ Sweep

Command == Write \/ \E p \in Procs : Leave(p)

Next ==
    \/ Iterator \/ ConsumerStops
    \/ Command \/ \E p \in Procs : Terminate(p)
    \/ CancelCtx \/ Unblock \/ WatchCancel \/ WatchKill

Spec == Init /\ [][Next \/ (pc = "returned" /\ UNCHANGED vars)]_vars

\* The scheduler runs the iterator, the AfterFunc and os/exec's watch with its
\* timer; the kernel delivers signals.  Nothing is assumed of the command.
FairSpec ==
    /\ Spec
    /\ WF_vars(Iterator) /\ WF_vars(Unblock) /\ WF_vars(WatchCancel) /\ WF_vars(WatchKill)
    /\ \A p \in Procs : WF_vars(Terminate(p))

-----------------------------------------------------------------------------
\* A body that ends is a whole frame, and the frames come in order: a command
\* that dies in the middle never reads as a shorter ledger (pipesource.go:203).
NoShortLedger ==
    \A i \in 1..Len(ledgers) :
        /\ Len(ledgers[i]) = ledgers[i][1].size
        /\ \A k \in 1..Len(ledgers[i]) : ledgers[i][k].frame = i /\ ledgers[i][k].pos = k + 2

\* Run reports a source failure only for a failure of the command.  A shutdown
\* kills the command, cuts frames and times reads out, at any moment, and none
\* of it may look like one (pipesource.go:221, server.go:345).
CancelIsNotFailure == runErr = "fail" => fault

\* Run reports a complete range only when the command exited well, and every
\* frame it wrote was read (pipesource.go:167).
FailureIsNotClean ==
    runErr = "clean" => /\ proc["sh"] = "ok"
                        /\ AtBoundary
                        /\ Len(ledgers) = wr.frame

\* However the iterator ends, no process of the command's group outlives it
\* (pipesource.go:149), and the child that led it has been reaped.
GroupIsSwept == pc = "returned" => \A p \in Group : ~Alive(p)

\* A cancelled context ends the source (pipesource.go:105), with a grandchild
\* outside the group still holding the pipe, and with a child that ignores
\* SIGTERM.
CancelEnds == ctx ~> pc = "returned"

\* "bound the wait so a process ignoring SIGTERM cannot stall the daemon"
\* (pipesource.go:91): an early stop, with the context live, ends the source.
StopEnds == (runErr = "stop") ~> pc = "returned"
=============================================================================
