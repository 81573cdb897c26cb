--------------------------- MODULE ServeLifecycle ---------------------------
(***************************************************************************)
(* The life of a `serve` process: Start binds the listeners and spawns one *)
(* serve loop per listener, a closer and a forwarder of their errors; the  *)
(* main goroutine then waits in RunSignalHandler, shuts down on SIGTERM or *)
(* when a loop has died, and returns the exit code.                        *)
(*                                                                         *)
(* Goroutines talk through errCh (buffered, closed after the last loop),   *)
(* serveErr (one slot), the cancelled context and sigCh, to which the Go   *)
(* runtime sends without blocking: a signal that finds it full is lost.    *)
(*                                                                         *)
(* fasthttp is external: Serve returns an error by itself or nil once its  *)
(* listener is closed; ShutdownWithContext closes the listener, then waits *)
(* for the open connections or its context.                                *)
(***************************************************************************)
EXTENDS Integers, Sequences, FiniteSets

CONSTANTS
    Https,      \* whether TLS is configured
    ErrCap,     \* capacity of errCh
    SigCap,     \* capacity of sigCh
    MaxHUPs,    \* bound: SIGHUPs sent to the process
    MaxTERMs,   \* bound: SIGTERMs and SIGINTs sent
    MaxConns    \* bound: open connections of a server

Servers == IF Https THEN {"http", "https"} ELSE {"http"}

ASSUME BoundAssumption ==
    /\ Https \in BOOLEAN
    /\ ErrCap \in Nat \ {0} /\ SigCap \in Nat \ {0}
    /\ MaxHUPs \in Nat /\ MaxTERMs \in Nat /\ MaxConns \in Nat

VARIABLES
    main,       \* where the main goroutine is
    code,       \* "success" (0), "failure" (1), "killed" by a signal, "none" yet
    listening,  \* bound listeners
    loop,       \* serve loop of each server
    errCh,      \* errors in errCh
    errClosed,
    fwd,        \* the goroutine that forwards errCh to serveErr
    serveErr,   \* errors in serveErr
    ctxDone,    \* ctx is cancelled
    stopping,
    shut,       \* ShutdownWithContext of each server
    timedOut,   \* the deadline of the running Shutdown has passed
    sigCh,      \* signals in sigCh
    sent,       \* signals sent, by kind
    open,       \* open connections of each server
    termed      \* ghost: the signal handler took a SIGTERM or SIGINT

vars == <<main, code, listening, loop, errCh, errClosed, fwd, serveErr, ctxDone,
          stopping, shut, timedOut, sigCh, sent, open, termed>>

chans == <<errCh, errClosed, fwd, serveErr, ctxDone>>
signals == <<sigCh, sent>>

Signals == {"HUP", "TERM"}

Init ==
    /\ main = IF Https THEN "loadkeys" ELSE "listenhttp"
    /\ code = "none"
    /\ listening = {}
    /\ loop = [s \in Servers |-> "off"]
    /\ errCh = 0 /\ errClosed = FALSE
    /\ fwd = "off"
    /\ serveErr = 0
    /\ ctxDone = FALSE
    /\ stopping = FALSE
    /\ shut = [s \in Servers |-> "no"]
    /\ timedOut = FALSE
    /\ sigCh = <<>>
    /\ sent = [k \in Signals |-> 0]
    /\ open = [s \in Servers |-> 0]
    /\ termed = FALSE

\* Once main has returned, every goroutine is gone.
Alive == main # "exited"

Exit(c) == main' = "exited" /\ code' = c

-----------------------------------------------------------------------------
(* Start.                                                                  *)

\* Start: the key pair is loaded before any socket is opened.
LoadKeyPair ==
    /\ main = "loadkeys"
    /\ \/ main' = "listenhttp" /\ UNCHANGED code
       \/ Exit("failure")
    /\ UNCHANGED <<listening, loop, chans, stopping, shut, timedOut, signals, open, termed>>

ListenHTTP ==
    /\ main = "listenhttp"
    /\ \/ /\ listening' = {"http"}
          /\ main' = IF Https THEN "listenhttps" ELSE "spawn"
          /\ UNCHANGED code
       \/ Exit("failure") /\ UNCHANGED listening
    /\ UNCHANGED <<loop, chans, stopping, shut, timedOut, signals, open, termed>>

\* Mutant of ListenHTTPS: the HTTP listener is left open on failure.
ListenHTTPSLeaks ==
    /\ main = "listenhttps"
    /\ \/ /\ listening' = listening \cup {"https"}
          /\ main' = "spawn"
          /\ UNCHANGED code
       \/ Exit("failure") /\ UNCHANGED listening
    /\ UNCHANGED <<loop, chans, stopping, shut, timedOut, signals, open, termed>>

\* The HTTP listener is closed again when the HTTPS one cannot be bound.
ListenHTTPS ==
    /\ main = "listenhttps"
    /\ \/ /\ listening' = listening \cup {"https"}
          /\ main' = "spawn"
          /\ UNCHANGED code
       \/ Exit("failure") /\ listening' = {}
    /\ UNCHANGED <<loop, chans, stopping, shut, timedOut, signals, open, termed>>

\* Start publishes errCh, spawns the loops and returns; serve spawns the
\* forwarder and calls RunSignalHandler.
Spawn ==
    /\ main = "spawn"
    /\ loop' = [s \in Servers |-> "accept"]
    /\ fwd' = "recv"
    /\ main' = "notify"
    /\ UNCHANGED <<code, listening, errCh, errClosed, serveErr, ctxDone, stopping,
                   shut, timedOut, signals, open, termed>>

-----------------------------------------------------------------------------
(* A serve loop.                                                           *)

\* Serve fails by itself.
ServeFails(s) ==
    /\ Alive
    /\ loop[s] = "accept"
    /\ s \in listening
    /\ loop' = [loop EXCEPT ![s] = "failed"]
    /\ UNCHANGED <<main, code, listening, chans, stopping, shut, timedOut, signals,
                   open, termed>>

\* Serve returns nil after its listener was closed.
ServeReturns(s) ==
    /\ Alive
    /\ loop[s] = "accept"
    /\ s \notin listening
    /\ loop' = [loop EXCEPT ![s] = "done"]
    /\ UNCHANGED <<main, code, listening, chans, stopping, shut, timedOut, signals,
                   open, termed>>

\* The loop tests stopping, and only afterwards sends.
CheckStopping(s) ==
    /\ Alive
    /\ loop[s] = "failed"
    /\ loop' = [loop EXCEPT ![s] = IF stopping THEN "done" ELSE "send"]
    /\ UNCHANGED <<main, code, listening, chans, stopping, shut, timedOut, signals,
                   open, termed>>

SendError(s) ==
    /\ Alive
    /\ loop[s] = "send"
    /\ errCh < ErrCap
    /\ errCh' = errCh + 1
    /\ loop' = [loop EXCEPT ![s] = "done"]
    /\ UNCHANGED <<main, code, listening, errClosed, fwd, serveErr, ctxDone, stopping,
                   shut, timedOut, signals, open, termed>>

\* Mutant of CloseErrCh: it does not wait for the serve loops.
CloseErrChEarly ==
    /\ Alive
    /\ ~errClosed
    /\ \E s \in Servers : loop[s] = "done"
    /\ errClosed' = TRUE
    /\ UNCHANGED <<main, code, listening, loop, errCh, fwd, serveErr, ctxDone, stopping,
                   shut, timedOut, signals, open, termed>>

\* The closer: wg.Wait(), then close(errCh).
CloseErrCh ==
    /\ Alive
    /\ ~errClosed
    /\ \A s \in Servers : loop[s] = "done"
    /\ errClosed' = TRUE
    /\ UNCHANGED <<main, code, listening, loop, errCh, fwd, serveErr, ctxDone, stopping,
                   shut, timedOut, signals, open, termed>>

-----------------------------------------------------------------------------
(* The forwarder: range over errCh, offer to serveErr, then cancel ctx.    *)

ForwardReceive ==
    /\ Alive
    /\ fwd = "recv"
    /\ \/ errCh > 0 /\ errCh' = errCh - 1 /\ fwd' = "offer"
       \/ errCh = 0 /\ errClosed /\ fwd' = "done" /\ UNCHANGED errCh
    /\ UNCHANGED <<main, code, listening, loop, errClosed, serveErr, ctxDone, stopping,
                   shut, timedOut, signals, open, termed>>

\* Mutants of ForwardOffer: serveErr takes every error; it takes none, as it
\* would without a buffer.
ForwardOfferAll ==
    /\ Alive
    /\ fwd = "offer"
    /\ serveErr' = serveErr + 1
    /\ fwd' = "cancel"
    /\ UNCHANGED <<main, code, listening, loop, errCh, errClosed, ctxDone, stopping,
                   shut, timedOut, signals, open, termed>>

ForwardOfferNone ==
    /\ Alive
    /\ fwd = "offer"
    /\ fwd' = "cancel"
    /\ UNCHANGED <<main, code, listening, loop, errCh, errClosed, serveErr, ctxDone,
                   stopping, shut, timedOut, signals, open, termed>>

\* serveErr keeps the first error; later ones are dropped.
ForwardOffer ==
    /\ Alive
    /\ fwd = "offer"
    /\ serveErr' = 1
    /\ fwd' = "cancel"
    /\ UNCHANGED <<main, code, listening, loop, errCh, errClosed, ctxDone, stopping,
                   shut, timedOut, signals, open, termed>>

\* Mutant of ForwardCancel: the context is not cancelled.
ForwardKeepsCtx ==
    /\ Alive
    /\ fwd = "cancel"
    /\ fwd' = "recv"
    /\ UNCHANGED <<main, code, listening, loop, errCh, errClosed, serveErr, ctxDone,
                   stopping, shut, timedOut, signals, open, termed>>

ForwardCancel ==
    /\ Alive
    /\ fwd = "cancel"
    /\ ctxDone' = TRUE
    /\ fwd' = "recv"
    /\ UNCHANGED <<main, code, listening, loop, errCh, errClosed, serveErr, stopping,
                   shut, timedOut, signals, open, termed>>

-----------------------------------------------------------------------------
(* RunSignalHandler and serve's final select, in the main goroutine.       *)

Notify ==
    /\ main = "notify"
    /\ main' = "select"
    /\ UNCHANGED <<code, listening, loop, chans, stopping, shut, timedOut, signals,
                   open, termed>>

\* The select: ctx.Done ends the wait, a signal is handled.
SelectCtx ==
    /\ main = "select"
    /\ ctxDone
    /\ main' = "decide"
    /\ UNCHANGED <<code, listening, loop, chans, stopping, shut, timedOut, signals,
                   open, termed>>

\* Shutdown sets stopping, then shuts both servers down concurrently.
BeginShutdown ==
    /\ stopping' = TRUE
    /\ shut' = [s \in Servers |-> "asked"]
    /\ timedOut' = FALSE

\* Mutant of SelectSignal: RunSignalHandler returns without srv.Shutdown.
SelectSignalAbrupt ==
    /\ main = "select"
    /\ sigCh # <<>>
    /\ sigCh' = Tail(sigCh)
    /\ IF Head(sigCh) = "HUP"
       THEN main' = "hup" /\ UNCHANGED termed
       ELSE main' = "decide" /\ termed' = TRUE
    /\ UNCHANGED <<code, listening, loop, chans, stopping, shut, timedOut, sent, open>>

SelectSignal ==
    /\ main = "select"
    /\ sigCh # <<>>
    /\ sigCh' = Tail(sigCh)
    /\ IF Head(sigCh) = "HUP"
       THEN main' = "hup" /\ UNCHANGED <<stopping, shut, timedOut, termed>>
       ELSE main' = "shutdown" /\ BeginShutdown /\ termed' = TRUE
    /\ UNCHANGED <<code, listening, loop, chans, sent, open>>

\* handleHUP returns (what it does to the caches is in FileServing).
HandleHUP ==
    /\ main = "hup"
    /\ main' = "select"
    /\ UNCHANGED <<code, listening, loop, chans, stopping, shut, timedOut, signals,
                   open, termed>>

\* srv.Shutdown returns when both servers' shutdowns have.
ShutdownReturns ==
    /\ main \in {"shutdown", "failstop"}
    /\ \A s \in Servers : shut[s] = "returned"
    /\ IF main = "shutdown" THEN main' = "decide" /\ UNCHANGED code ELSE Exit("failure")
    /\ UNCHANGED <<listening, loop, chans, stopping, shut, timedOut, signals, open, termed>>

\* serve: a serve error shuts down and exits 1, otherwise exit 0.
Decide ==
    /\ main = "decide"
    /\ IF serveErr > 0
       THEN /\ serveErr' = serveErr - 1
            /\ main' = "failstop"
            /\ BeginShutdown
            /\ UNCHANGED code
       ELSE /\ Exit("success")
            /\ UNCHANGED <<serveErr, stopping, shut, timedOut>>
    /\ UNCHANGED <<listening, loop, errCh, errClosed, fwd, ctxDone, signals, open, termed>>

-----------------------------------------------------------------------------
(* fasthttp's ShutdownWithContext and its connections.                     *)

CloseListener(s) ==
    /\ Alive
    /\ shut[s] = "asked"
    /\ listening' = listening \ {s}
    /\ shut' = [shut EXCEPT ![s] = "draining"]
    /\ UNCHANGED <<main, code, loop, chans, stopping, timedOut, signals, open, termed>>

\* Mutant of ShutdownCtxDone: Shutdown is given no deadline.
NoDeadline == FALSE

\* handleShutdown's context derives from ctx, serve's last one does not.
ShutdownCtxDone == timedOut \/ (main = "shutdown" /\ ctxDone)

Drain(s) ==
    /\ Alive
    /\ shut[s] = "draining"
    /\ open[s] = 0 \/ ShutdownCtxDone
    /\ shut' = [shut EXCEPT ![s] = "returned"]
    /\ UNCHANGED <<main, code, listening, loop, chans, stopping, timedOut, signals,
                   open, termed>>

Deadline ==
    /\ main \in {"shutdown", "failstop"}
    /\ ~timedOut
    /\ timedOut' = TRUE
    /\ UNCHANGED <<main, code, listening, loop, chans, stopping, shut, signals, open, termed>>

OpenConn(s) ==
    /\ Alive
    /\ loop[s] = "accept" /\ s \in listening
    /\ open[s] < MaxConns
    /\ open' = [open EXCEPT ![s] = @ + 1]
    /\ UNCHANGED <<main, code, listening, loop, chans, stopping, shut, timedOut, signals,
                   termed>>

CloseConn(s) ==
    /\ Alive
    /\ open[s] > 0
    /\ open' = [open EXCEPT ![s] = @ - 1]
    /\ UNCHANGED <<main, code, listening, loop, chans, stopping, shut, timedOut, signals,
                   termed>>

-----------------------------------------------------------------------------
\* A signal arrives: before signal.Notify it ends the process, afterwards the
\* runtime puts it in sigCh if there is room.
Limit(k) == IF k = "HUP" THEN MaxHUPs ELSE MaxTERMs

Signal(k) ==
    /\ Alive
    /\ sent[k] < Limit(k)
    /\ sent' = [sent EXCEPT ![k] = @ + 1]
    /\ IF main \in {"loadkeys", "listenhttp", "listenhttps", "spawn", "notify"}
       THEN Exit("killed") /\ UNCHANGED sigCh
       ELSE /\ sigCh' = IF Len(sigCh) < SigCap THEN Append(sigCh, k) ELSE sigCh
            /\ UNCHANGED <<main, code>>
    /\ UNCHANGED <<listening, loop, chans, stopping, shut, timedOut, open, termed>>

-----------------------------------------------------------------------------
Main ==
    \/ LoadKeyPair \/ ListenHTTP \/ ListenHTTPS \/ Spawn \/ Notify
    \/ SelectCtx \/ SelectSignal \/ HandleHUP \/ ShutdownReturns \/ Decide

Loop(s) == ServeReturns(s) \/ CheckStopping(s) \/ SendError(s)

Forwarder == ForwardReceive \/ ForwardOffer \/ ForwardCancel

Shutdowns(s) == CloseListener(s) \/ Drain(s)

Next ==
    \/ Main
    \/ Forwarder
    \/ CloseErrCh
    \/ Deadline
    \/ \E s \in Servers : Loop(s) \/ Shutdowns(s)
    \/ \E s \in Servers : ServeFails(s) \/ OpenConn(s) \/ CloseConn(s)
    \/ \E k \in Signals : Signal(k)

Spec == Init /\ [][Next]_vars

\* Goroutines that can run do, and deadlines pass; nothing is assumed of
\* signals, failures and clients.
Fairness ==
    /\ WF_vars(Main) /\ WF_vars(Forwarder)
    /\ WF_vars(CloseErrCh) /\ WF_vars(Deadline)
    /\ \A s \in Servers : WF_vars(Loop(s)) /\ WF_vars(Shutdowns(s))

FairSpec == Spec /\ Fairness

-----------------------------------------------------------------------------
\* Every variable has its type.
TypeOK ==
    /\ main \in {"loadkeys", "listenhttp", "listenhttps", "spawn", "notify", "select",
                 "hup", "shutdown", "decide", "failstop", "exited"}
    /\ code \in {"success", "failure", "killed", "none"}
    /\ listening \in SUBSET Servers
    /\ loop \in [Servers -> {"off", "accept", "failed", "send", "done"}]
    /\ errCh \in 0 .. ErrCap
    /\ errClosed \in BOOLEAN
    /\ fwd \in {"off", "recv", "offer", "cancel", "done"}
    /\ serveErr \in 0 .. 1
    /\ ctxDone \in BOOLEAN /\ stopping \in BOOLEAN /\ timedOut \in BOOLEAN
    /\ shut \in [Servers -> {"no", "asked", "draining", "returned"}]
    /\ sigCh \in Seq(Signals) /\ Len(sigCh) <= SigCap
    /\ sent \in [Signals -> Nat]
    /\ open \in [Servers -> 0 .. MaxConns]
    /\ termed \in BOOLEAN

\* Start's errors: when the process ends without having served, every socket
\* that Start opened has been closed.
FailedStartServesNothing ==
    main = "exited" /\ code = "failure" /\ (\A s \in Servers : loop[s] = "off")
        => listening = {}

\* No serve loop sends on errCh after it is closed, and none ever waits for
\* room in it, so that a dead loop always gets to report.
ReportNeverBlocks ==
    \A s \in Servers : loop[s] = "send" => ~errClosed /\ errCh < ErrCap

\* Success means that somebody asked the process to stop: when the wait ends
\* because a serve loop died, the exit code is not 0.
ExitZeroOnlyWhenAsked == main = "exited" /\ code = "success" => termed

\* A successful exit leaves no connection behind before its deadline.
ExitZeroIsGraceful ==
    main = "exited" /\ code = "success" /\ ~timedOut => \A s \in Servers : open[s] = 0

\* The process never idles after a serve loop has died.
DeadLoopEndsProcess ==
    (\E s \in Servers : loop[s] = "failed") ~> main = "exited"

\* SIGTERM and SIGINT end the process: the signal handler "blocks until
\* SIGTERM or SIGINT is received, then gracefully shuts down".
TermEndsProcess == sent["TERM"] > 0 ~> main = "exited"

\* They do when no SIGHUP was sent before: nothing then keeps them out of
\* sigCh, and neither open connections nor a dying serve loop hold the
\* shutdown up.
LoneTermEndsProcess ==
    sent["TERM"] > 0 /\ sent["HUP"] = 0 ~> main = "exited"

=============================================================================
