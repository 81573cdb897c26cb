------------------------ MODULE ServeLifecycleProofs ------------------------
(***************************************************************************)
(* Proofs about ServeLifecycle, with and without TLS, for any capacity of  *)
(* the signal channel and any number of signals and connections.           *)
(***************************************************************************)
EXTENDS ServeLifecycle, FiniteSetTheorems, TLAPS

Starting == {"loadkeys", "listenhttp", "listenhttps", "spawn"}

\* Before Start has spawned the serve loops there are none, no shutdown has
\* been asked for before a signal or a serve error, and code is set by Exit.
StartInv ==
    /\ main \in Starting => \A s \in Servers : loop[s] = "off"
    /\ main \notin Starting \cup {"exited"} => \A s \in Servers : loop[s] # "off"
    /\ main \in {"loadkeys", "listenhttp"} => listening = {}
    /\ main \in Starting \cup {"notify", "select", "hup"} =>
          \A s \in Servers : shut[s] = "no"
    /\ main = "listenhttps" => Https
    /\ main # "exited" => code = "none"

\* Every error in errCh, or taken out of it, was sent by a loop that is done.
Done == {s \in Servers : loop[s] = "done"}
ChannelInv ==
    /\ errClosed => Done = Servers
    /\ errCh <= Cardinality(Done)

\* ctx is cancelled only after an error was offered to serveErr, and until
\* serve takes the error out again it is still there.
ReportInv ==
    main \notin {"failstop", "exited"} =>
        /\ fwd = "cancel" \/ ctxDone => serveErr = 1
        /\ main = "shutdown" => termed
        /\ main = "decide" =>
              \/ serveErr = 1
              \/ termed /\ \A s \in Servers : shut[s] = "returned"

\* A server that drains takes no connection any more, and one that has
\* drained has none left unless its context ended.
DrainInv ==
    \A s \in Servers :
        /\ shut[s] \in {"draining", "returned"} => s \notin listening
        /\ shut[s] = "returned" => open[s] = 0 \/ timedOut \/ ctxDone

Inv ==
    /\ TypeOK
    /\ StartInv
    /\ ChannelInv
    /\ ReportInv
    /\ DrainInv
    /\ FailedStartServesNothing
    /\ ExitZeroOnlyWhenAsked
    /\ ExitZeroIsGraceful

-----------------------------------------------------------------------------
(* Types.                                                                  *)

LEMMA ServersFinite ==
    Servers # {} /\ Servers \subseteq {"http", "https"} /\ IsFiniteSet(Servers)
<1>1. IsFiniteSet({"http"} \cup {"https"})
  BY FS_Singleton, FS_AddElement
<1>2. {"http"} \cup {"https"} = {"http", "https"}
  OBVIOUS
<1> QED
  BY <1>1, <1>2, FS_Singleton DEF Servers

LEMMA TypeInit == Init => TypeOK
<1> SUFFICES ASSUME Init PROVE TypeOK
  OBVIOUS
<1>1. sigCh = <<>> /\ sigCh \in Seq(Signals)
  BY DEF Init
<1>2. Len(<<>>) = 0
  OBVIOUS
<1>3. Len(sigCh) <= SigCap
  BY <1>1, <1>2, BoundAssumption
<1>4. /\ loop \in [Servers -> {"off", "accept", "failed", "send", "done"}]
      /\ shut \in [Servers -> {"no", "asked", "draining", "returned"}]
      /\ sent \in [Signals -> Nat] /\ open \in [Servers -> 0 .. MaxConns]
  BY BoundAssumption DEF Init
<1>5. errCh \in 0 .. ErrCap /\ serveErr \in 0 .. 1 /\ listening \in SUBSET Servers
  BY BoundAssumption DEF Init
<1> QED
  BY <1>1, <1>3, <1>4, <1>5 DEF Init, TypeOK

LEMMA TypeStep == ASSUME TypeOK, StartInv, [Next]_vars PROVE TypeOK'
<1> USE DEF TypeOK, chans, signals
<1>1. CASE LoadKeyPair
  BY <1>1 DEF LoadKeyPair, Exit
<1>2. CASE ListenHTTP
  BY <1>2 DEF ListenHTTP, Exit, Servers
<1>3. CASE ListenHTTPS
  BY <1>3 DEF ListenHTTPS, Exit, Servers, StartInv
<1>4. CASE Spawn
  BY <1>4 DEF Spawn
<1>5. CASE CloseErrCh
  BY <1>5 DEF CloseErrCh
<1>6. CASE ForwardReceive
  BY <1>6, BoundAssumption DEF ForwardReceive
<1>7. CASE ForwardOffer
  BY <1>7 DEF ForwardOffer
<1>8. CASE ForwardCancel
  BY <1>8 DEF ForwardCancel
<1>9. CASE Notify
  BY <1>9 DEF Notify
<1>10. CASE SelectCtx
  BY <1>10 DEF SelectCtx
<1>11. CASE SelectSignal
  <2>1. sigCh' \in Seq(Signals) /\ Len(sigCh') <= SigCap
    BY <1>11, BoundAssumption DEF SelectSignal
  <2> QED
    BY <1>11, <2>1 DEF SelectSignal, BeginShutdown
<1>12. CASE HandleHUP
  BY <1>12 DEF HandleHUP
<1>13. CASE ShutdownReturns
  BY <1>13 DEF ShutdownReturns, Exit
<1>14. CASE Decide
  <2>1. CASE serveErr > 0
    <3>1. serveErr' \in 0 .. 1 /\ shut' \in [Servers -> {"no", "asked", "draining", "returned"}]
      BY <1>14, <2>1 DEF Decide, BeginShutdown
    <3> QED
      BY <1>14, <2>1, <3>1 DEF Decide, BeginShutdown
  <2>2. CASE ~(serveErr > 0)
    BY <1>14, <2>2 DEF Decide, Exit
  <2> QED
    BY <2>1, <2>2
<1>15. CASE Deadline
  BY <1>15 DEF Deadline
<1>16. ASSUME NEW s \in Servers, ServeFails(s) PROVE TypeOK'
  BY <1>16 DEF ServeFails
<1>17. ASSUME NEW s \in Servers, ServeReturns(s) PROVE TypeOK'
  BY <1>17 DEF ServeReturns
<1>18. ASSUME NEW s \in Servers, CheckStopping(s) PROVE TypeOK'
  BY <1>18 DEF CheckStopping
<1>19. ASSUME NEW s \in Servers, SendError(s) PROVE TypeOK'
  BY <1>19, BoundAssumption DEF SendError
<1>20. ASSUME NEW s \in Servers, CloseListener(s) PROVE TypeOK'
  BY <1>20 DEF CloseListener
<1>21. ASSUME NEW s \in Servers, Drain(s) PROVE TypeOK'
  BY <1>21 DEF Drain
<1>22. ASSUME NEW s \in Servers, OpenConn(s) PROVE TypeOK'
  BY <1>22, BoundAssumption DEF OpenConn
<1>23. ASSUME NEW s \in Servers, CloseConn(s) PROVE TypeOK'
  BY <1>23, BoundAssumption DEF CloseConn
<1>24. ASSUME NEW k \in Signals, Signal(k) PROVE TypeOK'
  <2>1. sigCh' \in Seq(Signals) /\ Len(sigCh') <= SigCap
    <3>1. \/ sigCh' = sigCh
          \/ Len(sigCh) < SigCap /\ sigCh' = Append(sigCh, k)
      BY <1>24 DEF Signal
    <3>2. Append(sigCh, k) \in Seq(Signals) /\ Len(Append(sigCh, k)) = Len(sigCh) + 1
      OBVIOUS
    <3>3. Len(sigCh) \in Nat
      OBVIOUS
    <3>4. CASE sigCh' = sigCh
      BY <3>4
    <3>5. CASE Len(sigCh) < SigCap /\ sigCh' = Append(sigCh, k)
      <4>1. Len(sigCh) + 1 <= SigCap
        BY <3>3, <3>5, BoundAssumption
      <4> QED
        BY <3>2, <3>5, <4>1
    <3> QED
      BY <3>1, <3>4, <3>5
  <2> QED
    BY <1>24, <2>1 DEF Signal, Exit
<1>25. CASE UNCHANGED vars
  BY <1>25 DEF vars
<1> QED
  BY <1>1, <1>2, <1>3, <1>4, <1>5, <1>6, <1>7, <1>8, <1>9, <1>10,
     <1>11, <1>12, <1>13, <1>14, <1>15, <1>16, <1>17, <1>18, <1>19,
     <1>20, <1>21, <1>22, <1>23, <1>24, <1>25
     DEF Next, Main, Loop, Forwarder, Shutdowns

-----------------------------------------------------------------------------
(* Each part of the invariant.                                             *)

LEMMA InitInv == Init => Inv
<1> SUFFICES ASSUME Init PROVE Inv
  OBVIOUS
<1>1. Done = {}
  BY DEF Init, Done
<1>2. ChannelInv
  BY <1>1, FS_EmptySet, ServersFinite DEF ChannelInv, Init
<1> QED
  BY <1>2, TypeInit
     DEF Init, Inv, StartInv, ReportInv, DrainInv, Starting, FailedStartServesNothing,
         ExitZeroOnlyWhenAsked, ExitZeroIsGraceful

\* Only serve's own steps and Start's change main before the loops run.
LEMMA StartStep == ASSUME TypeOK, StartInv, [Next]_vars PROVE StartInv'
<1> USE DEF TypeOK, StartInv, Starting, chans, signals
<1>1. CASE LoadKeyPair
  BY <1>1, BoundAssumption DEF LoadKeyPair, Exit
<1>2. CASE ListenHTTP
  BY <1>2, BoundAssumption DEF ListenHTTP, Exit
<1>3. CASE ListenHTTPS
  BY <1>3 DEF ListenHTTPS, Exit
<1>4. CASE Spawn
  BY <1>4 DEF Spawn
<1>5. CASE CloseErrCh
  BY <1>5 DEF CloseErrCh
<1>6. CASE ForwardReceive
  BY <1>6 DEF ForwardReceive
<1>7. CASE ForwardOffer
  BY <1>7 DEF ForwardOffer
<1>8. CASE ForwardCancel
  BY <1>8 DEF ForwardCancel
<1>9. CASE Notify
  BY <1>9 DEF Notify
<1>10. CASE SelectCtx
  BY <1>10 DEF SelectCtx
<1>11. CASE SelectSignal
  BY <1>11 DEF SelectSignal, BeginShutdown
<1>12. CASE HandleHUP
  BY <1>12 DEF HandleHUP
<1>13. CASE ShutdownReturns
  BY <1>13 DEF ShutdownReturns, Exit
<1>14. CASE Decide
  BY <1>14 DEF Decide, Exit, BeginShutdown
<1>15. CASE Deadline
  BY <1>15 DEF Deadline
<1>16. ASSUME NEW s \in Servers, ServeFails(s) PROVE StartInv'
  BY <1>16 DEF ServeFails, Alive
<1>17. ASSUME NEW s \in Servers, ServeReturns(s) PROVE StartInv'
  BY <1>17 DEF ServeReturns, Alive
<1>18. ASSUME NEW s \in Servers, CheckStopping(s) PROVE StartInv'
  BY <1>18 DEF CheckStopping, Alive
<1>19. ASSUME NEW s \in Servers, SendError(s) PROVE StartInv'
  BY <1>19 DEF SendError, Alive
<1>20. ASSUME NEW s \in Servers, CloseListener(s) PROVE StartInv'
  BY <1>20 DEF CloseListener, Alive
<1>21. ASSUME NEW s \in Servers, Drain(s) PROVE StartInv'
  BY <1>21 DEF Drain, Alive
<1>22. ASSUME NEW s \in Servers, OpenConn(s) PROVE StartInv'
  BY <1>22 DEF OpenConn
<1>23. ASSUME NEW s \in Servers, CloseConn(s) PROVE StartInv'
  BY <1>23 DEF CloseConn
<1>24. ASSUME NEW k \in Signals, Signal(k) PROVE StartInv'
  BY <1>24 DEF Signal, Exit
<1>25. CASE UNCHANGED vars
  BY <1>25 DEF vars
<1> QED
  BY <1>1, <1>2, <1>3, <1>4, <1>5, <1>6, <1>7, <1>8, <1>9, <1>10,
     <1>11, <1>12, <1>13, <1>14, <1>15, <1>16, <1>17, <1>18, <1>19,
     <1>20, <1>21, <1>22, <1>23, <1>24, <1>25
     DEF Next, Main, Loop, Forwarder, Shutdowns

\* A loop that is done stays so; one that sends an error is done with it.
LEMMA ChannelStep ==
    ASSUME TypeOK, StartInv, ChannelInv, [Next]_vars, TypeOK'
    PROVE  ChannelInv'
<1> USE DEF chans, signals
<1>1. IsFiniteSet(Done) /\ Cardinality(Done) \in Nat
  BY ServersFinite, FS_Subset, FS_CardinalityType DEF Done
<1>2. ASSUME NEW s \in Servers, loop[s] # "done",
             loop' = [loop EXCEPT ![s] = "done"]
      PROVE  /\ Done' = Done \cup {s}
             /\ Cardinality(Done') = Cardinality(Done) + 1
  <2>1. Done' = Done \cup {s} /\ s \notin Done
    BY <1>2 DEF Done, TypeOK
  <2> QED
    BY <1>1, <2>1, FS_AddElement
<1>3. ASSUME Done' = Done, errCh' <= errCh, errClosed' => errClosed \/ Done = Servers
      PROVE  ChannelInv'
  BY <1>1, <1>3 DEF ChannelInv, TypeOK
<1>4. ASSUME NEW s \in Servers, ServeReturns(s) \/ CheckStopping(s) \/ SendError(s)
      PROVE  ChannelInv'
  <2>1. ASSUME loop' = [loop EXCEPT ![s] = "done"], loop[s] # "done",
               errCh' <= errCh + 1, errClosed' = errClosed
        PROVE  ChannelInv'
    <3>1. /\ Done' = Done \cup {s} /\ Cardinality(Done') = Cardinality(Done) + 1
      BY <1>2, <2>1
    <3>2. ~errClosed'
      BY <2>1 DEF ChannelInv, Done
    <3> QED
      BY <1>1, <2>1, <3>1, <3>2 DEF ChannelInv, TypeOK
  <2>2. CASE CheckStopping(s) /\ ~stopping
    <3>1. Done' = Done
      BY <2>2 DEF CheckStopping, Done, TypeOK
    <3> QED
      BY <1>3, <2>2, <3>1 DEF CheckStopping, TypeOK
  <2>3. CASE ServeReturns(s) \/ (CheckStopping(s) /\ stopping)
    BY <2>1, <2>3 DEF ServeReturns, CheckStopping, TypeOK
  <2>4. CASE SendError(s)
    BY <2>1, <2>4 DEF SendError, TypeOK
  <2> QED
    BY <1>4, <2>2, <2>3, <2>4
<1>5. ASSUME NEW s \in Servers, ServeFails(s) PROVE ChannelInv'
  <2>1. Done' = Done
    BY <1>5 DEF ServeFails, Done, TypeOK
  <2> QED
    BY <1>3, <1>5, <2>1 DEF ServeFails, TypeOK
<1>6. CASE Spawn
  <2>1. Done = {} /\ Done' = {}
    BY <1>6 DEF Spawn, Done, StartInv, Starting
  <2> QED
    BY <1>3, <1>6, <2>1 DEF Spawn, TypeOK
<1>7. ASSUME loop' = loop, errCh' <= errCh, errClosed' => errClosed \/ Done = Servers
      PROVE  ChannelInv'
  BY <1>3, <1>7 DEF Done
<1>8. CASE CloseErrCh
  BY <1>7, <1>8 DEF CloseErrCh, Done, TypeOK
<1>9. CASE Forwarder
  BY <1>7, <1>9 DEF Forwarder, ForwardReceive, ForwardOffer, ForwardCancel, TypeOK
<1>10. CASE LoadKeyPair \/ ListenHTTP \/ ListenHTTPS \/ Notify
  BY <1>7, <1>10 DEF LoadKeyPair, ListenHTTP, ListenHTTPS, Notify, TypeOK
<1>11. CASE SelectCtx \/ SelectSignal \/ HandleHUP \/ ShutdownReturns \/ Decide \/ Deadline
  BY <1>7, <1>11 DEF SelectCtx, SelectSignal, HandleHUP, ShutdownReturns, Decide,
                     Deadline, TypeOK
<1>12. ASSUME NEW s \in Servers, Shutdowns(s) \/ OpenConn(s) \/ CloseConn(s)
       PROVE  ChannelInv'
  BY <1>7, <1>12 DEF Shutdowns, CloseListener, Drain, OpenConn, CloseConn, TypeOK
<1>13. ASSUME NEW k \in Signals, Signal(k) PROVE ChannelInv'
  BY <1>7, <1>13 DEF Signal, TypeOK
<1>14. CASE UNCHANGED vars
  BY <1>7, <1>14 DEF vars, TypeOK
<1> QED
  BY <1>4, <1>5, <1>6, <1>8, <1>9, <1>10, <1>11, <1>12, <1>13, <1>14
     DEF Next, Main, Loop

\* An error reaches serveErr before ctx is cancelled for it.
LEMMA ReportStep ==
    ASSUME TypeOK, StartInv, ReportInv, [Next]_vars, TypeOK'
    PROVE  ReportInv'
<1> USE DEF ReportInv, chans, signals
<1>1. CASE LoadKeyPair
  BY <1>1 DEF LoadKeyPair, Exit
<1>2. CASE ListenHTTP
  BY <1>2 DEF ListenHTTP, Exit
<1>3. CASE ListenHTTPS
  BY <1>3 DEF ListenHTTPS, Exit
<1>4. CASE Spawn
  BY <1>4 DEF Spawn
<1>5. CASE CloseErrCh
  BY <1>5 DEF CloseErrCh
<1>6. CASE ForwardReceive
  BY <1>6 DEF ForwardReceive
<1>7. CASE ForwardOffer
  BY <1>7 DEF ForwardOffer, TypeOK
<1>8. CASE ForwardCancel
  BY <1>8 DEF ForwardCancel, TypeOK
<1>9. CASE Notify
  BY <1>9 DEF Notify
<1>10. CASE SelectCtx
  BY <1>10 DEF SelectCtx
<1>11. CASE SelectSignal
  BY <1>11 DEF SelectSignal, BeginShutdown
<1>12. CASE HandleHUP
  BY <1>12 DEF HandleHUP
<1>13. CASE ShutdownReturns
  BY <1>13 DEF ShutdownReturns, Exit
<1>14. CASE Decide
  BY <1>14 DEF Decide, Exit
<1>15. CASE Deadline
  BY <1>15 DEF Deadline
<1>16. ASSUME NEW s \in Servers, ServeFails(s) PROVE ReportInv'
  BY <1>16 DEF ServeFails
<1>17. ASSUME NEW s \in Servers, ServeReturns(s) PROVE ReportInv'
  BY <1>17 DEF ServeReturns
<1>18. ASSUME NEW s \in Servers, CheckStopping(s) PROVE ReportInv'
  BY <1>18 DEF CheckStopping
<1>19. ASSUME NEW s \in Servers, SendError(s) PROVE ReportInv'
  BY <1>19 DEF SendError
<1>20. ASSUME NEW s \in Servers, CloseListener(s) PROVE ReportInv'
  BY <1>20 DEF CloseListener, TypeOK
<1>21. ASSUME NEW s \in Servers, Drain(s) PROVE ReportInv'
  BY <1>21 DEF Drain, TypeOK
<1>22. ASSUME NEW s \in Servers, OpenConn(s) PROVE ReportInv'
  BY <1>22 DEF OpenConn
<1>23. ASSUME NEW s \in Servers, CloseConn(s) PROVE ReportInv'
  BY <1>23 DEF CloseConn
<1>24. ASSUME NEW k \in Signals, Signal(k) PROVE ReportInv'
  BY <1>24 DEF Signal, Exit
<1>25. CASE UNCHANGED vars
  BY <1>25 DEF vars
<1> QED
  BY <1>1, <1>2, <1>3, <1>4, <1>5, <1>6, <1>7, <1>8, <1>9, <1>10,
     <1>11, <1>12, <1>13, <1>14, <1>15, <1>16, <1>17, <1>18, <1>19,
     <1>20, <1>21, <1>22, <1>23, <1>24, <1>25
     DEF Next, Main, Loop, Forwarder, Shutdowns

\* Once its listener is closed a server's connections only become fewer.
LEMMA DrainStep ==
    ASSUME TypeOK, StartInv, DrainInv, [Next]_vars, TypeOK'
    PROVE  DrainInv'
<1> USE DEF DrainInv, TypeOK, chans, signals
<1>1. CASE LoadKeyPair
  BY <1>1 DEF LoadKeyPair, Exit, StartInv, Starting
<1>2. CASE ListenHTTP
  BY <1>2 DEF ListenHTTP, Exit, StartInv, Starting
<1>3. CASE ListenHTTPS
  BY <1>3 DEF ListenHTTPS, Exit, StartInv, Starting
<1>4. CASE Spawn
  BY <1>4 DEF Spawn
<1>5. CASE CloseErrCh
  BY <1>5 DEF CloseErrCh
<1>6. CASE ForwardReceive
  BY <1>6 DEF ForwardReceive
<1>7. CASE ForwardOffer
  BY <1>7 DEF ForwardOffer
<1>8. CASE ForwardCancel
  BY <1>8 DEF ForwardCancel
<1>9. CASE Notify
  BY <1>9 DEF Notify
<1>10. CASE SelectCtx
  BY <1>10 DEF SelectCtx
<1>11. CASE SelectSignal
  BY <1>11 DEF SelectSignal, BeginShutdown
<1>12. CASE HandleHUP
  BY <1>12 DEF HandleHUP
<1>13. CASE ShutdownReturns
  BY <1>13 DEF ShutdownReturns, Exit
<1>14. CASE Decide
  BY <1>14 DEF Decide, Exit, BeginShutdown
<1>15. CASE Deadline
  BY <1>15 DEF Deadline
<1>16. ASSUME NEW s \in Servers, ServeFails(s) PROVE DrainInv'
  BY <1>16 DEF ServeFails
<1>17. ASSUME NEW s \in Servers, ServeReturns(s) PROVE DrainInv'
  BY <1>17 DEF ServeReturns
<1>18. ASSUME NEW s \in Servers, CheckStopping(s) PROVE DrainInv'
  BY <1>18 DEF CheckStopping
<1>19. ASSUME NEW s \in Servers, SendError(s) PROVE DrainInv'
  BY <1>19 DEF SendError
<1>20. ASSUME NEW s \in Servers, CloseListener(s) PROVE DrainInv'
  BY <1>20 DEF CloseListener
<1>21. ASSUME NEW s \in Servers, Drain(s) PROVE DrainInv'
  BY <1>21 DEF Drain, ShutdownCtxDone
<1>22. ASSUME NEW s \in Servers, OpenConn(s) PROVE DrainInv'
  BY <1>22 DEF OpenConn
<1>23. ASSUME NEW s \in Servers, CloseConn(s) PROVE DrainInv'
  BY <1>23, BoundAssumption DEF CloseConn
<1>24. ASSUME NEW k \in Signals, Signal(k) PROVE DrainInv'
  BY <1>24 DEF Signal, Exit
<1>25. CASE UNCHANGED vars
  BY <1>25 DEF vars
<1> QED
  BY <1>1, <1>2, <1>3, <1>4, <1>5, <1>6, <1>7, <1>8, <1>9, <1>10,
     <1>11, <1>12, <1>13, <1>14, <1>15, <1>16, <1>17, <1>18, <1>19,
     <1>20, <1>21, <1>22, <1>23, <1>24, <1>25
     DEF Next, Main, Loop, Forwarder, Shutdowns

\* A start that fails has closed what it opened.
LEMMA FailedStartStep ==
    ASSUME TypeOK, StartInv, FailedStartServesNothing, [Next]_vars, TypeOK'
    PROVE  FailedStartServesNothing'
<1> USE DEF FailedStartServesNothing, chans, signals, Alive
<1>1. CASE LoadKeyPair
  BY <1>1 DEF LoadKeyPair, Exit, StartInv
<1>2. CASE ListenHTTP
  BY <1>2 DEF ListenHTTP, Exit, StartInv
<1>3. CASE ListenHTTPS
  BY <1>3 DEF ListenHTTPS, Exit
<1>4. CASE Spawn
  BY <1>4, ServersFinite DEF Spawn
<1>5. CASE CloseErrCh
  BY <1>5 DEF CloseErrCh
<1>6. CASE ForwardReceive
  BY <1>6 DEF ForwardReceive
<1>7. CASE ForwardOffer
  BY <1>7 DEF ForwardOffer
<1>8. CASE ForwardCancel
  BY <1>8 DEF ForwardCancel
<1>9. CASE Notify
  BY <1>9 DEF Notify
<1>10. CASE SelectCtx
  BY <1>10 DEF SelectCtx
<1>11. CASE SelectSignal
  BY <1>11 DEF SelectSignal
<1>12. CASE HandleHUP
  BY <1>12 DEF HandleHUP
<1>13. CASE ShutdownReturns
  BY <1>13, ServersFinite DEF ShutdownReturns, Exit, StartInv, Starting
<1>14. CASE Decide
  BY <1>14 DEF Decide, Exit
<1>15. CASE Deadline
  BY <1>15 DEF Deadline
<1>16. ASSUME NEW s \in Servers, ServeFails(s) PROVE FailedStartServesNothing'
  BY <1>16, ServersFinite DEF ServeFails
<1>17. ASSUME NEW s \in Servers, ServeReturns(s) PROVE FailedStartServesNothing'
  BY <1>17, ServersFinite DEF ServeReturns
<1>18. ASSUME NEW s \in Servers, CheckStopping(s) PROVE FailedStartServesNothing'
  BY <1>18, ServersFinite DEF CheckStopping
<1>19. ASSUME NEW s \in Servers, SendError(s) PROVE FailedStartServesNothing'
  BY <1>19, ServersFinite DEF SendError
<1>20. ASSUME NEW s \in Servers, CloseListener(s) PROVE FailedStartServesNothing'
  BY <1>20 DEF CloseListener, TypeOK
<1>21. ASSUME NEW s \in Servers, Drain(s) PROVE FailedStartServesNothing'
  BY <1>21 DEF Drain
<1>22. ASSUME NEW s \in Servers, OpenConn(s) PROVE FailedStartServesNothing'
  BY <1>22 DEF OpenConn
<1>23. ASSUME NEW s \in Servers, CloseConn(s) PROVE FailedStartServesNothing'
  BY <1>23 DEF CloseConn
<1>24. ASSUME NEW k \in Signals, Signal(k) PROVE FailedStartServesNothing'
  BY <1>24 DEF Signal, Exit
<1>25. CASE UNCHANGED vars
  BY <1>25 DEF vars
<1> QED
  BY <1>1, <1>2, <1>3, <1>4, <1>5, <1>6, <1>7, <1>8, <1>9, <1>10,
     <1>11, <1>12, <1>13, <1>14, <1>15, <1>16, <1>17, <1>18, <1>19,
     <1>20, <1>21, <1>22, <1>23, <1>24, <1>25
     DEF Next, Main, Loop, Forwarder, Shutdowns

\* serve returns without an error only from a shutdown that was asked for,
\* after both servers have drained.
LEMMA ExitStep ==
    ASSUME TypeOK, StartInv, ReportInv, DrainInv, ExitZeroOnlyWhenAsked,
           ExitZeroIsGraceful, [Next]_vars, TypeOK'
    PROVE  (ExitZeroOnlyWhenAsked /\ ExitZeroIsGraceful)'
<1> DEFINE Good == ExitZeroOnlyWhenAsked /\ ExitZeroIsGraceful
<1> USE DEF ExitZeroOnlyWhenAsked, ExitZeroIsGraceful, StartInv, chans, signals, Alive
<1>1. CASE LoadKeyPair
  BY <1>1 DEF LoadKeyPair, Exit
<1>2. CASE ListenHTTP
  BY <1>2 DEF ListenHTTP, Exit
<1>3. CASE ListenHTTPS
  BY <1>3 DEF ListenHTTPS, Exit
<1>4. CASE Spawn
  BY <1>4 DEF Spawn
<1>5. CASE CloseErrCh
  BY <1>5 DEF CloseErrCh
<1>6. CASE ForwardReceive
  BY <1>6 DEF ForwardReceive
<1>7. CASE ForwardOffer
  BY <1>7 DEF ForwardOffer
<1>8. CASE ForwardCancel
  BY <1>8 DEF ForwardCancel
<1>9. CASE Notify
  BY <1>9 DEF Notify
<1>10. CASE SelectCtx
  BY <1>10 DEF SelectCtx
<1>11. CASE SelectSignal
  BY <1>11 DEF SelectSignal
<1>12. CASE HandleHUP
  BY <1>12 DEF HandleHUP
<1>13. CASE ShutdownReturns
  BY <1>13 DEF ShutdownReturns, Exit
<1>14. CASE Decide
  BY <1>14 DEF Decide, Exit, ReportInv, DrainInv, TypeOK
<1>15. CASE Deadline
  BY <1>15 DEF Deadline
<1>16. ASSUME NEW s \in Servers, ServeFails(s) PROVE Good'
  BY <1>16 DEF ServeFails
<1>17. ASSUME NEW s \in Servers, ServeReturns(s) PROVE Good'
  BY <1>17 DEF ServeReturns
<1>18. ASSUME NEW s \in Servers, CheckStopping(s) PROVE Good'
  BY <1>18 DEF CheckStopping
<1>19. ASSUME NEW s \in Servers, SendError(s) PROVE Good'
  BY <1>19 DEF SendError
<1>20. ASSUME NEW s \in Servers, CloseListener(s) PROVE Good'
  BY <1>20 DEF CloseListener
<1>21. ASSUME NEW s \in Servers, Drain(s) PROVE Good'
  BY <1>21 DEF Drain
<1>22. ASSUME NEW s \in Servers, OpenConn(s) PROVE Good'
  BY <1>22 DEF OpenConn
<1>23. ASSUME NEW s \in Servers, CloseConn(s) PROVE Good'
  BY <1>23 DEF CloseConn
<1>24. ASSUME NEW k \in Signals, Signal(k) PROVE Good'
  BY <1>24 DEF Signal, Exit
<1>25. CASE UNCHANGED vars
  BY <1>25 DEF vars
<1> QED
  BY <1>1, <1>2, <1>3, <1>4, <1>5, <1>6, <1>7, <1>8, <1>9, <1>10,
     <1>11, <1>12, <1>13, <1>14, <1>15, <1>16, <1>17, <1>18, <1>19,
     <1>20, <1>21, <1>22, <1>23, <1>24, <1>25
     DEF Next, Main, Loop, Forwarder, Shutdowns

-----------------------------------------------------------------------------
(* Theorems.                                                               *)

LEMMA InvStep == Inv /\ [Next]_vars => Inv'
<1> SUFFICES ASSUME Inv, [Next]_vars PROVE Inv'
  OBVIOUS
<1>1. TypeOK'
  BY TypeStep DEF Inv
<1>2. StartInv' /\ ChannelInv' /\ ReportInv' /\ DrainInv'
  BY <1>1, StartStep, ChannelStep, ReportStep, DrainStep DEF Inv
<1>3. FailedStartServesNothing' /\ ExitZeroOnlyWhenAsked' /\ ExitZeroIsGraceful'
  BY <1>1, FailedStartStep, ExitStep DEF Inv
<1> QED
  BY <1>1, <1>2, <1>3 DEF Inv

\* The inductive invariant holds throughout the life of the process.
THEOREM Invariance == Spec => []Inv
  BY InitInv, InvStep, PTL DEF Spec

\* Every variable keeps its type: in particular neither errCh nor serveErr
\* ever holds more than it has room for.
THEOREM TypeCorrect == Spec => []TypeOK
<1>1. Inv => TypeOK
  BY DEF Inv
<1> QED
  BY <1>1, Invariance, PTL

\* When Start fails, no socket that it opened is left behind.
THEOREM FailedStartClean == Spec => []FailedStartServesNothing
<1>1. Inv => FailedStartServesNothing
  BY DEF Inv
<1> QED
  BY <1>1, Invariance, PTL

\* With room in errCh for one error per server, as server.go makes it, a dead
\* serve loop never waits to report and never sends on a closed channel.
THEOREM ReportsNeverBlock ==
    ASSUME ErrCap >= Cardinality(Servers)
    PROVE  Spec => []ReportNeverBlocks
<1>1. Inv => ReportNeverBlocks
  <2> SUFFICES ASSUME Inv, NEW s \in Servers, loop[s] = "send"
               PROVE  ~errClosed /\ errCh < ErrCap
    BY DEF ReportNeverBlocks
  <2>1. s \in Servers \ Done /\ Done \subseteq Servers
    BY DEF Done
  <2>2. Cardinality(Done) < Cardinality(Servers)
    <3>1. IsFiniteSet(Done) /\ Done # Servers
      BY <2>1, ServersFinite, FS_Subset
    <3> HIDE DEF Servers, Done
    <3>2. /\ Cardinality(Done) <= Cardinality(Servers)
          /\ Cardinality(Done) # Cardinality(Servers)
      BY <2>1, <3>1, ServersFinite, FS_Subset
    <3>3. Cardinality(Done) \in Nat /\ Cardinality(Servers) \in Nat
      BY <3>1, ServersFinite, FS_CardinalityType
    <3> QED
      BY <3>2, <3>3
  <2>3. Cardinality(Done) \in Nat /\ Cardinality(Servers) \in Nat
    BY <2>1, ServersFinite, FS_Subset, FS_CardinalityType
  <2>4. errCh \in Int /\ errCh <= Cardinality(Done)
    BY BoundAssumption DEF Inv, TypeOK, ChannelInv
  <2>5. ~errClosed
    BY <2>1 DEF Inv, ChannelInv
  <2> HIDE DEF Servers, Done
  <2> QED
    BY <2>2, <2>3, <2>4, <2>5, BoundAssumption
<1> QED
  BY <1>1, Invariance, PTL

\* Exit code 0 means that a SIGTERM or SIGINT was handled: a serve loop that
\* dies never ends in success by itself.
THEOREM SuccessWasAsked == Spec => []ExitZeroOnlyWhenAsked
<1>1. Inv => ExitZeroOnlyWhenAsked
  BY DEF Inv
<1> QED
  BY <1>1, Invariance, PTL

\* A process that ends successfully before its deadline has drained every
\* connection of both servers.
THEOREM SuccessIsGraceful == Spec => []ExitZeroIsGraceful
<1>1. Inv => ExitZeroIsGraceful
  BY DEF Inv
<1> QED
  BY <1>1, Invariance, PTL

=============================================================================
