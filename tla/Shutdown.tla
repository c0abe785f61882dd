------------------------------ MODULE Shutdown ------------------------------
(***************************************************************************)
(* Graceful shutdown: src/shutdown.mts, with what it relies on of Node's   *)
(* HTTP server (close, closeAllConnections, destroySoon, the order of the  *)
(* events of a pipelined connection) and of the process (signals, an event *)
(* loop that ends when nothing referenced is left).                        *)
(*                                                                         *)
(* Timers are not clocked: a timer that is armed may fire at any moment.   *)
(***************************************************************************)
EXTENDS Optional, Naturals, Sequences

CONSTANTS
    Conn,         \* connections; each is accepted at most once
    MaxRequests,  \* MaxRequests[c]: requests on c (bounds the model)
    Cleanups      \* what the cleanup passed in may do: see CleanupKind

CleanupKind == {"settles", "throws", "hangs_referenced", "hangs"}

\* How the process may end.
Ending == [by : {"signal", "exit", "empty_loop"}, code : {0, 1}]

ASSUME ShutdownAssumption ==
    /\ MaxRequests \in [Conn -> Nat]
    /\ Cleanups \subseteq CleanupKind
    /\ None \notin Nat \cup Ending

VARIABLES
    running,      \* whether the listener really runs, so that close can succeed
    cleanupKind,  \* how the cleanup behaves
    handlers,     \* whether the signal listeners are installed
    shuttingDown, finished,
    deadline,     \* "unset", "armed", "cleared" or "fired"
    closing,      \* server.close's callback: "no", "pending" or "called"
    cleanup,      \* "idle", "running", "done", "failed" or "timed_out"
    code,         \* the exit code decided so far
    ended,        \* how the process ended, None while it lives
    socket,       \* socket[c]: "new", "open", or who closed it
    head,         \* head[c]: "unread" (nothing was sent), "arriving" or "none"
    reqs,         \* reqs[c]: the requests read from c, in order
    connections   \* connections[c]: the index of the request c is busy with, 0 for none

process == <<running, cleanupKind, handlers, shuttingDown, finished, deadline, closing, cleanup, code, ended>>
wire == <<socket, head, reqs, connections>>
vars == <<process, wire>>

\* answer: "pending", "ended" (end() was called) or "written" (`finish` fired);
\* body: "arriving", "complete" (parsed) or "ended" (`end` fired);
\* onEnd: done waits for the body's `end`.
RequestState == [answer : {"pending", "ended", "written"},
                 body : {"arriving", "complete", "ended"},
                 onEnd : BOOLEAN]

Closers == {"caller", "node", "drain", "deadline"}
Open(c) == socket[c] = "open"
Living == ended = None

----------------------------------------------------------------------------
(* Traffic.                                                                *)

BodiesIn(c) == \A i \in 1..Len(reqs[c]) : reqs[c][i].body # "arriving"

\* track
Connect(c) ==
    /\ Living /\ running /\ ~ shuttingDown
    /\ socket[c] = "new"
    /\ socket' = [socket EXCEPT ![c] = "open"]
    /\ UNCHANGED <<process, head, reqs, connections>>

HeadStarts(c) ==
    /\ Living /\ Open(c)
    /\ head[c] # "arriving"
    /\ BodiesIn(c)
    /\ Len(reqs[c]) < MaxRequests[c]
    /\ head' = [head EXCEPT ![c] = "arriving"]
    /\ UNCHANGED <<process, socket, reqs, connections>>

\* onRequest: the connection is busy with the latest request.
RequestStarts(c) ==
    /\ Living /\ Open(c)
    /\ head[c] = "arriving"
    /\ \E body \in {"arriving", "complete"} :
          reqs' = [reqs EXCEPT ![c] = Append(@, [answer |-> "pending", body |-> body, onEnd |-> FALSE])]
    /\ head' = [head EXCEPT ![c] = "none"]
    /\ connections' = [connections EXCEPT ![c] = Len(reqs[c]) + 1]
    /\ UNCHANGED <<process, socket>>

BodyCompletes(c, i) ==
    /\ Living /\ Open(c)
    /\ reqs[c][i].body = "arriving"
    /\ reqs' = [reqs EXCEPT ![c][i].body = "complete"]
    /\ UNCHANGED <<process, socket, head, connections>>

\* The handler ends its answer; a pipelined one may end before an earlier one.
AnswerEnds(c, i) ==
    /\ Living /\ Open(c)
    /\ reqs[c][i].answer = "pending"
    /\ reqs' = [reqs EXCEPT ![c][i].answer = "ended"]
    /\ UNCHANGED <<process, socket, head, connections>>

\* Plausible bug: any answer's end closes a connection that is draining.
DoneAny(c, i) ==
    /\ connections' = [connections EXCEPT ![c] = IF @ = i THEN 0 ELSE @]
    /\ socket' = [socket EXCEPT ![c] = IF shuttingDown THEN "drain" ELSE @]

\* done: the latest request is done with; during the drain its connection closes.
Done(c, i) ==
    /\ connections' = [connections EXCEPT ![c] = IF @ = i THEN 0 ELSE @]
    /\ socket' = [socket EXCEPT ![c] = IF connections[c] = i /\ shuttingDown THEN "drain" ELSE @]

\* `finish`: every byte is written, answers going out in order.
AnswerWritten(c, i) ==
    /\ Living /\ Open(c)
    /\ reqs[c][i].answer = "ended"
    /\ \A j \in 1..(i - 1) : reqs[c][j].answer = "written"
    /\ reqs' = [reqs EXCEPT ![c][i].answer = "written",
                            ![c][i].onEnd = reqs[c][i].body = "arriving"]
    /\ IF reqs[c][i].body = "arriving" THEN UNCHANGED <<socket, connections>> ELSE Done(c, i)
    /\ UNCHANGED <<process, head>>

\* `end` on the body; the next request may have been parsed before it fires.
BodyEnds(c, i) ==
    /\ Living /\ Open(c)
    /\ reqs[c][i].body = "complete"
    /\ reqs' = [reqs EXCEPT ![c][i].body = "ended"]
    /\ IF reqs[c][i].onEnd THEN Done(c, i) ELSE UNCHANGED <<socket, connections>>
    /\ UNCHANGED <<process, head>>

CallerCloses(c) ==
    /\ Living /\ Open(c)
    /\ socket' = [socket EXCEPT ![c] = "caller"]
    /\ UNCHANGED <<process, head, reqs, connections>>

----------------------------------------------------------------------------
(* The shutdown.                                                           *)

Unwritten(c) == {i \in 1..Len(reqs[c]) : reqs[c][i].answer # "written"}

\* What Node's close takes for idle: no head and no body arriving, and no
\* answer in progress; one that has ended, though not written out, is idle.
NodeIdle(c) ==
    /\ head[c] = "none"
    /\ BodiesIn(c)
    /\ \A i \in Unwritten(c) :
          (\A j \in Unwritten(c) : i <= j) => reqs[c][i].answer = "ended"

\* Plausible bug: a connection that has sent nothing is left to close().
ReleasedByCloseOnly(c) ==
    CASE Open(c) /\ NodeIdle(c) -> "node"
      [] OTHER -> socket[c]

\* server.close() releases the idle, then the handler those that sent nothing.
Released(c) ==
    CASE Open(c) /\ NodeIdle(c) -> "node"
      [] Open(c) /\ head[c] = "unread" -> "drain"
      [] OTHER -> socket[c]

\* The handler of SIGTERM and SIGINT, first signal.
Handler ==
    /\ Living /\ handlers /\ ~ shuttingDown
    /\ shuttingDown' = TRUE
    /\ handlers' = FALSE
    /\ deadline' = "armed"
    /\ closing' = "pending"
    /\ socket' = [c \in Conn |-> Released(c)]
    /\ UNCHANGED <<running, cleanupKind, finished, cleanup, code, ended, head, reqs, connections>>

\* A signal that finds no listener: the process's default action.
SignalDefault ==
    /\ Living /\ ~ handlers
    /\ ended' = [by |-> "signal", code |-> 1]
    /\ UNCHANGED <<running, cleanupKind, handlers, shuttingDown, finished, deadline, closing, cleanup, code, wire>>

\* finish: the first caller decides; runCleanup starts.
Finish(c) ==
    IF finished
    THEN UNCHANGED <<finished, cleanup, code>>
    ELSE /\ finished' = TRUE
         /\ cleanup' = "running"
         /\ code' = c

\* Plausible bug: the error close reports is not looked at.
CloseCallbackIgnoresError ==
    /\ Living /\ closing = "pending"
    /\ \A c \in Conn : ~ Open(c)
    /\ closing' = "called"
    /\ deadline' = IF deadline = "armed" THEN "cleared" ELSE deadline
    /\ Finish(0)
    /\ UNCHANGED <<running, cleanupKind, handlers, shuttingDown, ended, wire>>

\* close's callback, once no connection is left: an error when the listener
\* was not running.
CloseCallback ==
    /\ Living /\ closing = "pending"
    /\ \A c \in Conn : ~ Open(c)
    /\ closing' = "called"
    /\ deadline' = IF deadline = "armed" THEN "cleared" ELSE deadline
    /\ Finish(IF running THEN 0 ELSE 1)
    /\ UNCHANGED <<running, cleanupKind, handlers, shuttingDown, ended, wire>>

\* Plausible bug: the deadline gives up without cutting what is left.
DeadlineLeavesConnections ==
    /\ Living /\ deadline = "armed"
    /\ deadline' = "fired"
    /\ Finish(1)
    /\ UNCHANGED <<running, cleanupKind, handlers, shuttingDown, closing, ended, wire>>

\* The deadline: closeAllConnections, then finish(1).
Deadline ==
    /\ Living /\ deadline = "armed"
    /\ deadline' = "fired"
    /\ socket' = [c \in Conn |-> IF Open(c) THEN "deadline" ELSE socket[c]]
    /\ Finish(1)
    /\ UNCHANGED <<running, cleanupKind, handlers, shuttingDown, closing, ended, head, reqs, connections>>

CleanupSettles ==
    /\ Living /\ cleanup = "running"
    /\ \/ cleanupKind = "settles" /\ cleanup' = "done" /\ UNCHANGED code
       \/ cleanupKind = "throws" /\ cleanup' = "failed" /\ code' = 1
    /\ UNCHANGED <<running, cleanupKind, handlers, shuttingDown, finished, deadline, closing, ended, wire>>

\* Plausible bug: there is no bound on the cleanup.
CleanupNeverTimesOut == FALSE /\ UNCHANGED vars

CleanupTimesOut ==
    /\ Living /\ cleanup = "running"
    /\ cleanup' = "timed_out"
    /\ code' = 1
    /\ UNCHANGED <<running, cleanupKind, handlers, shuttingDown, finished, deadline, closing, ended, wire>>

\* exit, deferred by one turn of the loop.
Exit ==
    /\ Living /\ cleanup \in {"done", "failed", "timed_out"}
    /\ ended' = [by |-> "exit", code |-> code]
    /\ UNCHANGED <<running, cleanupKind, handlers, shuttingDown, finished, deadline, closing, cleanup, code, wire>>

\* The timers are unref'd: a cleanup that hangs on nothing referenced leaves
\* the loop empty, and the process ends by itself with status 0.
LoopEmpties ==
    /\ Living /\ cleanup = "running" /\ cleanupKind = "hangs"
    /\ \A c \in Conn : ~ Open(c)
    /\ ended' = [by |-> "empty_loop", code |-> 0]
    /\ UNCHANGED <<running, cleanupKind, handlers, shuttingDown, finished, deadline, closing, cleanup, code, wire>>

----------------------------------------------------------------------------
Init ==
    /\ running \in BOOLEAN
    /\ cleanupKind \in Cleanups
    /\ handlers = TRUE
    /\ shuttingDown = FALSE
    /\ finished = FALSE
    /\ deadline = "unset"
    /\ closing = "no"
    /\ cleanup = "idle"
    /\ code = None
    /\ ended = None
    /\ socket = [c \in Conn |-> "new"]
    /\ head = [c \in Conn |-> "unread"]
    /\ reqs = [c \in Conn |-> <<>>]
    /\ connections = [c \in Conn |-> 0]

Traffic(c) ==
    \/ Connect(c)
    \/ HeadStarts(c)
    \/ RequestStarts(c)
    \/ CallerCloses(c)
    \/ \E i \in 1..Len(reqs[c]) :
          BodyCompletes(c, i) \/ AnswerEnds(c, i) \/ AnswerWritten(c, i) \/ BodyEnds(c, i)

\* The steps the event loop takes by itself once shutting down.
LoopTurn ==
    \/ CloseCallback
    \/ Deadline
    \/ CleanupSettles
    \/ CleanupTimesOut
    \/ Exit
    \/ LoopEmpties

Next ==
    \/ \E c \in Conn : Traffic(c)
    \/ Handler
    \/ SignalDefault
    \/ LoopTurn

\* Timers fire and callbacks run; callers and upstreams promise nothing.
Fairness ==
    /\ WF_vars(CloseCallback)
    /\ WF_vars(Deadline)
    /\ WF_vars(CleanupTimesOut)
    /\ WF_vars(Exit)

Spec == Init /\ [][Next]_vars /\ Fairness

----------------------------------------------------------------------------
(* Properties.                                                             *)

Answered(c, i) == reqs[c][i].answer = "written" /\ reqs[c][i].body # "arriving"

\* Guarantee 2: a connection the drain closes by itself has had every request
\* read from it answered to the last byte, pipelined ones included, and their
\* bodies read, however ends, finishes and the signal interleave.
DrainCutsNoAnswer ==
    \A c \in Conn : socket[c] = "drain" => \A i \in 1..Len(reqs[c]) : Answered(c, i)

\* Guarantee 2: no connection is forgotten.  One that is still open during the
\* drain is waiting for something: a head, a body or an answer still under way.
\* Otherwise a quiet proxy would be held for the whole deadline.
NoneForgotten ==
    \A c \in Conn : shuttingDown /\ Open(c) =>
        \/ head[c] = "arriving"
        \/ \E i \in 1..Len(reqs[c]) :
              reqs[c][i].answer # "written" \/ (reqs[c][i].onEnd /\ reqs[c][i].body # "ended")

\* Guarantees 4, 5, 6: exit is called with 0 only when the listener came down,
\* no connection was cut by the deadline and the cleanup completed.
ExitZeroIsClean ==
    ended = [by |-> "exit", code |-> 0] =>
        /\ running
        /\ cleanup = "done"
        /\ \A c \in Conn : ~ Open(c) /\ socket[c] # "deadline"

\* Guarantee 5: the cleanup runs once, after draining: it never starts over,
\* and never while a connection is still open, whichever of deadline and close
\* comes first.
CleanupOnceAfterDrain ==
    [][cleanup' = "running" /\ cleanup # cleanup' =>
          cleanup = "idle" /\ \A c \in Conn : socket'[c] # "open"]_vars

\* Guarantees 3, 4, 5: once it shuts down the process ends, whatever callers,
\* upstreams and the cleanup do.
Ends == shuttingDown ~> (ended # None)

\* Guarantee 1: "a second signal is ignored".
SecondSignalIgnored == shuttingDown => ended = None \/ ended.by # "signal"

\* Guarantee 5: the cleanup is "reflected in the exit code": a process that
\* ends by itself after shutting down ends with 0 only if the cleanup completed.
CleanupReflected ==
    ended # None /\ shuttingDown /\ ended.code = 0 => cleanup = "done"
=============================================================================
