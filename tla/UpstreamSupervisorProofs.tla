---------------------- MODULE UpstreamSupervisorProofs ----------------------
(***************************************************************************)
(* What is proved of the reconnect supervisor, for every set of nicks and  *)
(* sockets, every line the server may send, every capacity of the line     *)
(* channel, with and without SASL and the watchdog.                        *)
(***************************************************************************)
EXTENDS UpstreamSupervisor, TLAPS

USE NickAssumption, ConnAssumption, LinesAssumption, FlagAssumption

-----------------------------------------------------------------------------
(* Types.                                                                  *)

MachineTyped ==
    machine \in UpstreamStates /\ outage \in BOOLEAN /\ runCancelled \in BOOLEAN

(* What the classifier returns is a state.                                 *)
LEMMA ClassifyTyped == \A line \in ClassifiedLines : Classify(line) \in UpstreamStates
BY DEF ClassifiedLines, Classify, UpstreamStates, Recoverable, Terminal, Parkable

(* A transition to a state leaves the machine and its subscribers typed.   *)
LEMMA PublishTyped ==
    ASSUME NEW s \in UpstreamStates, Publish(s), outage \in BOOLEAN
    PROVE  MachineTyped'
<1>1. machine' \in UpstreamStates
  BY DEF Publish
<1>2. outage' \in BOOLEAN
  BY Zenon DEF Publish, IsOutageState
<1>3. runCancelled' \in BOOLEAN
  BY Zenon DEF Publish
<1> QED
  BY <1>1, <1>2, <1>3 DEF MachineTyped

(* The variables keep their types through every step.                      *)
LEMMA TypeStep == TypeOK /\ [Next]_vars => TypeOK'
<1> SUFFICES ASSUME TypeOK, [Next]_vars PROVE TypeOK'
  OBVIOUS
<1> USE DEF TypeOK, At, GoTo, rest, linkVars, machineVars, nickVars,
            userVars, sessionVars, runVars, SupervisorPlaces, ControlPlaces,
            WatchdogPlaces, UpstreamStates, Recoverable, Terminal, Parkable,
            ctlRest, wdRest
<1>1. CASE BringUpNext
  <2>1. CASE StartSuspended
    <3>1. Publish("disconnected_by_user")
      BY <2>1 DEF StartSuspended
    <3>2. MachineTyped'
      BY <3>1, PublishTyped, ClassifyTyped DEF ClassifiedLines
    <3> QED
      BY <2>1, <3>2 DEF MachineTyped, StartSuspended
  <2>2. CASE StartConnecting
    BY <2>2 DEF StartConnecting
  <2>3. CASE BringUpConnect
    <3>1. Publish("connecting")
      BY <2>3 DEF BringUpConnect
    <3>2. MachineTyped'
      BY <3>1, PublishTyped, ClassifyTyped DEF ClassifiedLines
    <3> QED
      BY <2>3, <3>2 DEF MachineTyped, BringUpConnect
  <2>4. CASE DialFails
    BY <2>4 DEF DialFails
  <2>5. CASE DialSucceeds
    BY <2>5 DEF DialSucceeds
  <2>6. CASE TlsHandshake
    BY <2>6 DEF TlsHandshake
  <2>7. CASE BringUpRegistering
    <3>1. Publish("registering")
      BY <2>7 DEF BringUpRegistering
    <3>2. MachineTyped'
      BY <3>1, PublishTyped, ClassifyTyped DEF ClassifiedLines
    <3> QED
      BY <2>7, <3>2 DEF MachineTyped, BringUpRegistering
  <2>8. CASE Register
    BY <2>8 DEF Register
  <2>9. CASE SaslSettled
    BY <2>9 DEF SaslSettled
  <2>10. CASE SaslRejected
    <3>1. Publish(Classify("904"))
      BY <2>10 DEF SaslRejected
    <3>2. MachineTyped'
      BY <3>1, PublishTyped, ClassifyTyped DEF ClassifiedLines
    <3> QED
      BY <2>10, <3>2 DEF MachineTyped, SaslRejected, Abandon
  <2>11. CASE SaslFails
    BY <2>11 DEF SaslFails, Abandon
  <2>12. CASE RegisterNick
    BY <2>12 DEF RegisterNick, EffectiveNick
  <2>13. CASE SendNick
    BY <2>13 DEF SendNick
  <2>14. CASE AwaitNickInUse
    <3>1. Publish(Classify("433"))
      BY <2>14 DEF AwaitNickInUse
    <3>2. MachineTyped'
      BY <3>1, PublishTyped, ClassifyTyped DEF ClassifiedLines
    <3> QED
      BY <2>14, <3>2 DEF MachineTyped, AwaitNickInUse
  <2>15. CASE FallbackNick
    BY <2>15 DEF FallbackNick
  <2>16. CASE FallbackExhausted
    <3>1. Publish("disconnected_nick_invalid")
      BY <2>16 DEF FallbackExhausted
    <3>2. MachineTyped'
      BY <3>1, PublishTyped, ClassifyTyped DEF ClassifiedLines
    <3> QED
      BY <2>16, <3>2 DEF MachineTyped, FallbackExhausted, Abandon
  <2>17. CASE AwaitRejected
    <3>1. PICK line \in ServerLines \cap {"432", "464", "465"} : Publish(Classify(line))
      BY <2>17 DEF AwaitRejected
    <3>2. MachineTyped'
      BY <3>1, PublishTyped, ClassifyTyped DEF ClassifiedLines
    <3> QED
      BY <2>17, <3>2 DEF MachineTyped, AwaitRejected, Abandon
  <2>18. CASE AwaitErrorLine
    <3>1. PICK line \in ServerLines \cap {"closing", "kline"} : Publish(Classify(line))
      BY <2>18 DEF AwaitErrorLine
    <3>2. MachineTyped'
      BY <3>1, PublishTyped, ClassifyTyped DEF ClassifiedLines
    <3> QED
      BY <2>18, <3>2 DEF MachineTyped, AwaitErrorLine
  <2>19. CASE HandshakeComplete
    BY <2>19 DEF HandshakeComplete
  <2>20. CASE JoinChannels
    BY <2>20 DEF JoinChannels
  <2>21. CASE BringUpFails
    BY <2>21 DEF BringUpFails, Abandon
  <2>22. CASE WriteToNilClient
    BY <2>22 DEF WriteToNilClient
  <2>23. CASE BringUpRegistered
    <3>1. Publish("registered")
      BY <2>23 DEF BringUpRegistered
    <3>2. MachineTyped'
      BY <3>1, PublishTyped, ClassifyTyped DEF ClassifiedLines
    <3> QED
      BY <2>23, <3>2 DEF MachineTyped, BringUpRegistered
  <2>24. CASE ConsumePreferredNick
    BY <2>24 DEF ConsumePreferredNick
  <2>25. CASE ClassifyFallback
    BY <2>25 DEF ClassifyFallback
  <2>26. CASE ClassifyPublish
    <3>1. \E s \in UpstreamStates : Publish(s)
      BY <2>26 DEF ClassifyPublish
    <3>2. MachineTyped'
      BY <3>1, PublishTyped
    <3> QED
      BY <2>26, <3>2 DEF MachineTyped, ClassifyPublish
  <2>27. CASE BringUpFailed
    BY <2>27 DEF BringUpFailed
  <2> QED
    BY <1>1, <2>1, <2>2, <2>3, <2>4, <2>5, <2>6, <2>7, <2>8, <2>9, <2>10,
       <2>11, <2>12, <2>13, <2>14, <2>15, <2>16, <2>17, <2>18, <2>19, <2>20,
       <2>21, <2>22, <2>23, <2>24, <2>25, <2>26, <2>27 DEF BringUpNext
<1>2. CASE RunNext
  <2>1. CASE RunStart
    BY <2>1 DEF RunStart
  <2>2. CASE LoopPark
    BY <2>2 DEF LoopPark
  <2>3. CASE LoopSession
    <3>1. gdone' \in BOOLEAN
      BY <2>3, Zenon DEF LoopSession
    <3> QED
      BY <2>3, <3>1 DEF LoopSession
  <2>4. CASE SessionOver
    BY <2>4 DEF SessionOver
  <2>5. CASE SessionShutdown
    BY <2>5 DEF SessionShutdown
  <2>6. CASE SessionClassify
    <3>1. (\E s \in UpstreamStates : Publish(s)) \/ UNCHANGED machineVars
      BY <2>6 DEF SessionClassify
    <3>2. MachineTyped'
      BY <3>1, PublishTyped DEF MachineTyped
    <3> QED
      BY <2>6, <3>2 DEF MachineTyped, SessionClassify
  <2>7. CASE SessionDecide
    BY <2>7 DEF SessionDecide
  <2>8. CASE BackoffDone
    BY <2>8 DEF BackoffDone
  <2>9. CASE BackoffWoken
    <3>1. wakeup' \in BOOLEAN
      BY <2>9, Zenon DEF BackoffWoken
    <3> QED
      BY <2>9, <3>1 DEF BackoffWoken
  <2>10. CASE BackoffOver
    BY <2>10 DEF BackoffOver
  <2>11. CASE ParkReassert
    <3>1. (\E s \in UpstreamStates : Publish(s)) \/ UNCHANGED machineVars
      BY <2>11 DEF ParkReassert
    <3>2. MachineTyped'
      BY <3>1, PublishTyped DEF MachineTyped
    <3> QED
      BY <2>11, <3>2 DEF MachineTyped, ParkReassert
  <2>12. CASE ParkCapture
    BY <2>12 DEF ParkCapture
  <2>13. CASE ParkDrain
    <3>1. wakeup' \in BOOLEAN
      BY <2>13, Zenon DEF ParkDrain
    <3> QED
      BY <2>13, <3>1 DEF ParkDrain
  <2>14. CASE ParkWoken
    <3>1. wakeup' \in BOOLEAN
      BY <2>14, Zenon DEF ParkWoken
    <3> QED
      BY <2>14, <3>1 DEF ParkWoken
  <2>15. CASE ParkTick
    BY <2>15 DEF ParkTick
  <2>16. CASE ParkDone
    <3>1. Publish("stopped")
      BY <2>16 DEF ParkDone
    <3>2. MachineTyped'
      BY <3>1, PublishTyped, ClassifyTyped DEF ClassifiedLines
    <3> QED
      BY <2>16, <3>2 DEF MachineTyped, ParkDone
  <2>17. CASE PublishStopped
    <3>1. Publish("stopped")
      BY <2>17 DEF PublishStopped
    <3>2. MachineTyped'
      BY <3>1, PublishTyped, ClassifyTyped DEF ClassifiedLines
    <3> QED
      BY <2>17, <3>2 DEF MachineTyped, PublishStopped
  <2>18. CASE RunReturns
    <3>1. subscribed' \in BOOLEAN
      BY <2>18, Zenon DEF RunReturns
    <3> QED
      BY <2>18, <3>1 DEF RunReturns
  <2>19. CASE StopConnector
    <3>1. Publish("stopped")
      BY <2>19 DEF StopConnector
    <3>2. MachineTyped'
      BY <3>1, PublishTyped, ClassifyTyped DEF ClassifiedLines
    <3> QED
      BY <2>19, <3>2 DEF MachineTyped, StopConnector
  <2> QED
    BY <1>2, <2>1, <2>2, <2>3, <2>4, <2>5, <2>6, <2>7, <2>8, <2>9, <2>10,
       <2>11, <2>12, <2>13, <2>14, <2>15, <2>16, <2>17, <2>18, <2>19 DEF
       RunNext
<1>3. CASE SessionNext
  <2>1. CASE ServerSends
    BY <2>1 DEF ServerSends
  <2>2. CASE DispatchLine
    <3>1. Head(lines) \in ServerLines /\ lines' \in Seq(ServerLines) /\ Len(lines') <= LineCap
      BY <2>2 DEF DispatchLine
    <3>2. (\E s \in UpstreamStates : Publish(s)) \/ UNCHANGED machineVars
      BY <2>2, ClassifyTyped DEF DispatchLine
    <3>3. MachineTyped'
      BY <3>2, PublishTyped DEF MachineTyped
    <3> QED
      BY <2>2, <3>1, <3>3 DEF MachineTyped, DispatchLine
  <2>3. CASE ReaderEnds
    BY <2>3 DEF ReaderEnds
  <2>4. CASE PongTimeout
    <3>1. Publish("disconnected_transient")
      BY <2>4 DEF PongTimeout
    <3>2. MachineTyped'
      BY <3>1, PublishTyped, ClassifyTyped DEF ClassifiedLines
    <3> QED
      BY <2>4, <3>2 DEF MachineTyped, PongTimeout
  <2>5. CASE SessionCancelled
    BY <2>5 DEF SessionCancelled
  <2> QED
    BY <1>3, <2>1, <2>2, <2>3, <2>4, <2>5 DEF SessionNext
<1>4. CASE WatchdogNext
  <2>1. CASE WatchdogSubscribe
    BY <2>1 DEF WatchdogSubscribe
  <2>2. CASE WatchdogSeed
    BY <2>2 DEF WatchdogSeed
  <2>3. CASE WatchdogEnds
    <3>1. outage' \in BOOLEAN
      BY <2>3, Zenon DEF WatchdogEnds
    <3> QED
      BY <2>3, <3>1 DEF WatchdogEnds
  <2>4. CASE WatchdogTick
    BY <2>4 DEF WatchdogTick
  <2>5. CASE WatchdogPause
    <3>1. Publish("paused_idle")
      BY <2>5 DEF WatchdogPause
    <3>2. MachineTyped'
      BY <3>1, PublishTyped, ClassifyTyped DEF ClassifiedLines
    <3> QED
      BY <2>5, <3>2 DEF MachineTyped, WatchdogPause
  <2> QED
    BY <1>4, <2>1, <2>2, <2>3, <2>4, <2>5 DEF WatchdogNext
<1>5. CASE ControlNext
  <2>1. CASE SuspendIntent
    BY <2>1 DEF SuspendIntent
  <2>2. CASE SuspendPublish
    <3>1. Publish("disconnected_by_user")
      BY <2>2 DEF SuspendPublish
    <3>2. MachineTyped'
      BY <3>1, PublishTyped, ClassifyTyped DEF ClassifiedLines
    <3> QED
      BY <2>2, <3>2 DEF MachineTyped, SuspendPublish
  <2>3. CASE SuspendClose
    BY <2>3 DEF SuspendClose
  <2>4. CASE SuspendClear
    BY <2>4 DEF SuspendClear
  <2>5. CASE ResumeIntent
    <3>1. suspended' \in BOOLEAN
      BY <2>5, Zenon DEF ResumeIntent
    <3> QED
      BY <2>5, <3>1 DEF ResumeIntent
  <2>6. CASE SignalLifecycle
    BY <2>6 DEF SignalLifecycle
  <2>7. CASE ApplyNickWake
    <3>1. wakeup' \in BOOLEAN
      BY <2>7, Zenon DEF ApplyNickWake
    <3> QED
      BY <2>7, <3>1 DEF ApplyNickWake
  <2>8. ASSUME NEW n \in Nick, ApplyNick(n) PROVE TypeOK'
    BY <2>8 DEF ApplyNick
  <2>9. ASSUME NEW n \in Nick, QueueNick(n) PROVE TypeOK'
    BY <2>9 DEF QueueNick
  <2> QED
    BY <1>5, <2>1, <2>2, <2>3, <2>4, <2>5, <2>6, <2>7, <2>8, <2>9 DEF
       ControlNext
<1>6. CASE OperatorCancels
  BY <1>6 DEF OperatorCancels
<1>7. CASE FinalizerCloses
  BY <1>7 DEF FinalizerCloses
<1>8. CASE UNCHANGED vars
  BY <1>8 DEF vars
<1> QED
  BY <1>1, <1>2, <1>3, <1>4, <1>5, <1>6, <1>7, <1>8 DEF Next

(* The types are an invariant.                                             *)
THEOREM TypeCorrect == Spec => []TypeOK
<1>1. ASSUME Init PROVE TypeOK
  <2>1. /\ suspended \in BOOLEAN /\ wakeup \in BOOLEAN /\ outage \in BOOLEAN
        /\ gdone \in BOOLEAN /\ subscribed \in BOOLEAN
        /\ ctxCancelled \in BOOLEAN /\ runCancelled \in BOOLEAN
    BY <1>1, Zenon DEF Init
  <2> QED
    BY <1>1, <2>1 DEF Init, TypeOK, SupervisorPlaces, ControlPlaces,
                      WatchdogPlaces, UpstreamStates
<1> QED
  BY <1>1, TypeStep, PTL DEF Spec

-----------------------------------------------------------------------------
(* At most one stray attempt.                                              *)

(* A cycle about to begin under the user's intent is the first since.      *)
StrayInv == AtMostOneStrayAttempt /\ (At("connect") /\ suspended => stray = 0)

(* The count grows only where a cycle begins; whoever sends the supervisor
   there has just seen the intent withdrawn.                               *)
LEMMA StrayStep == TypeOK /\ StrayInv /\ [Next]_vars => StrayInv'
<1> SUFFICES ASSUME TypeOK, StrayInv, [Next]_vars PROVE StrayInv'
  OBVIOUS
<1> USE DEF TypeOK, StrayInv, AtMostOneStrayAttempt, At, GoTo, rest, userVars
<1>1. CASE BringUpNext
  <2>1. CASE BringUpConnect
    BY <2>1 DEF BringUpConnect
  <2>2. CASE StartConnecting
    BY <2>2 DEF StartConnecting
  <2>3. CASE StartSuspended \/ DialFails \/ DialSucceeds \/ TlsHandshake
             \/ BringUpRegistering \/ Register \/ SaslSettled \/ SaslRejected
             \/ SaslFails \/ RegisterNick \/ SendNick \/ AwaitNickInUse
             \/ FallbackNick \/ FallbackExhausted \/ AwaitRejected
             \/ AwaitErrorLine \/ HandshakeComplete \/ JoinChannels
             \/ BringUpFails \/ WriteToNilClient \/ BringUpRegistered
             \/ ConsumePreferredNick \/ ClassifyFallback \/ ClassifyPublish
             \/ BringUpFailed
    BY <2>3 DEF StartSuspended, DialFails, DialSucceeds, TlsHandshake,
       BringUpRegistering, Register, SaslSettled, SaslRejected, SaslFails,
       RegisterNick, SendNick, AwaitNickInUse, FallbackNick, FallbackExhausted,
       AwaitRejected, AwaitErrorLine, HandshakeComplete, JoinChannels,
       BringUpFails, WriteToNilClient, BringUpRegistered, ConsumePreferredNick,
       ClassifyFallback, ClassifyPublish, BringUpFailed
  <2> QED
    BY <1>1, <2>1, <2>2, <2>3 DEF BringUpNext
<1>2. CASE RunNext
  <2>1. CASE BackoffOver
    BY <2>1 DEF BackoffOver, ShouldPark
  <2>2. CASE ParkDrain \/ ParkWoken \/ ParkTick
    BY <2>2 DEF ParkDrain, ParkWoken, ParkTick, StillParked
  <2>3. CASE RunStart \/ LoopPark \/ LoopSession \/ SessionOver
             \/ SessionShutdown \/ SessionClassify \/ SessionDecide
             \/ BackoffDone \/ BackoffWoken \/ ParkReassert \/ ParkCapture
             \/ ParkDone \/ PublishStopped \/ RunReturns \/ StopConnector
    BY <2>3 DEF RunStart, LoopPark, LoopSession, SessionOver, SessionShutdown,
       SessionClassify, SessionDecide, BackoffDone, BackoffWoken, ParkReassert,
       ParkCapture, ParkDone, PublishStopped, RunReturns, StopConnector
  <2> QED
    BY <1>2, <2>1, <2>2, <2>3 DEF RunNext
<1>3. CASE SessionNext
  BY <1>3 DEF SessionNext, ServerSends, DispatchLine, ReaderEnds, PongTimeout,
     SessionCancelled
<1>4. CASE WatchdogNext
  BY <1>4 DEF WatchdogNext, WatchdogSubscribe, WatchdogSeed, WatchdogEnds,
     WatchdogTick, WatchdogPause, wdRest
<1>5. CASE ControlNext
  <2>1. CASE SuspendIntent \/ ResumeIntent
    BY <2>1 DEF SuspendIntent, ResumeIntent, ctlRest
  <2>2. CASE SuspendPublish \/ SuspendClose \/ SuspendClear \/ SignalLifecycle
             \/ ApplyNickWake \/ (\E n \in Nick : ApplyNick(n))
             \/ (\E n \in Nick : QueueNick(n))
    BY <2>2 DEF SuspendPublish, SuspendClose, SuspendClear, SignalLifecycle,
       ApplyNickWake, ApplyNick, QueueNick, ctlRest
  <2> QED
    BY <1>5, <2>1, <2>2 DEF ControlNext
<1>6. CASE OperatorCancels \/ FinalizerCloses \/ UNCHANGED vars
  BY <1>6 DEF OperatorCancels, FinalizerCloses, vars
<1> QED
  BY <1>1, <1>2, <1>3, <1>4, <1>5, <1>6 DEF Next

(* After Suspend has recorded its intent the supervisor begins at most one
   more connection attempt, whatever the interleaving.                     *)
THEOREM AtMostOneStrayAttemptHolds == Spec => []AtMostOneStrayAttempt
<1>1. Init => StrayInv
  BY DEF Init, StrayInv, AtMostOneStrayAttempt, At
<1>2. StrayInv => AtMostOneStrayAttempt
  BY DEF StrayInv
<1> QED
  BY <1>1, <1>2, StrayStep, TypeCorrect, PTL DEF Spec

-----------------------------------------------------------------------------
(* Settled between attempts.                                               *)

(* "In progress" is published only by bringUp, and only while it lasts.    *)
Building ==
    {"start", "connect", "dial", "tls", "registering", "register", "sasl",
     "nick", "sendnick", "await", "fallback", "join", "registered",
     "classify", "publish", "panicked"}
SettledInv == machine \in InProgress => pc \in Building

(* What everyone else publishes is a settled state.                        *)
LEMMA SettledStates ==
    /\ \A line \in ClassifiedLines : Classify(line) \in Classified
    /\ Classified \cap InProgress = {}
BY DEF ClassifiedLines, Classify, Classified, InProgress, Recoverable, Terminal,
       Parkable

(* bringUp leaves its places only with the machine registered, classified, or
   published; every other thread publishes settled states only.            *)
LEMMA SettledStep == TypeOK /\ SettledInv /\ [Next]_vars => SettledInv'
<1> SUFFICES ASSUME TypeOK, SettledInv, [Next]_vars PROVE SettledInv'
  OBVIOUS
<1> USE DEF TypeOK, SettledInv, Building, InProgress, Publish, At, GoTo, rest,
   linkVars, machineVars
<1>1. CASE BringUpNext
  <2>1. CASE ClassifyFallback \/ ClassifyPublish
    BY <2>1, SettledStates DEF ClassifyFallback, ClassifyPublish, Classified,
       Recoverable, Terminal, Parkable
  <2>2. CASE SaslRejected \/ AwaitNickInUse \/ AwaitRejected \/ AwaitErrorLine
             \/ FallbackExhausted
    BY <2>2, SettledStates DEF SaslRejected, AwaitNickInUse, AwaitRejected,
       AwaitErrorLine, FallbackExhausted, ClassifiedLines, Abandon
  <2>3. CASE SaslFails \/ BringUpFails
    BY <2>3 DEF SaslFails, BringUpFails, Abandon
  <2>4. CASE StartSuspended \/ BringUpConnect \/ BringUpRegistering
             \/ BringUpRegistered
    BY <2>4 DEF StartSuspended, BringUpConnect, BringUpRegistering,
       BringUpRegistered
  <2>5. CASE ConsumePreferredNick \/ BringUpFailed
    BY <2>5 DEF ConsumePreferredNick, BringUpFailed
  <2>6. CASE StartConnecting \/ DialFails \/ DialSucceeds \/ TlsHandshake
             \/ Register \/ SaslSettled \/ RegisterNick \/ SendNick
             \/ FallbackNick \/ HandshakeComplete \/ JoinChannels
             \/ WriteToNilClient
    BY <2>6 DEF StartConnecting, DialFails, DialSucceeds, TlsHandshake,
       Register, SaslSettled, RegisterNick, SendNick, FallbackNick,
       HandshakeComplete, JoinChannels, WriteToNilClient
  <2> QED
    BY <1>1, <2>1, <2>2, <2>3, <2>4, <2>5, <2>6 DEF BringUpNext
<1>2. CASE RunNext
  BY <1>2 DEF RunNext, RunStart, LoopPark, LoopSession, SessionOver,
     SessionShutdown, SessionClassify, SessionDecide, BackoffDone,
     BackoffWoken, BackoffOver, ParkReassert, ParkCapture, ParkDrain,
     ParkWoken, ParkTick, ParkDone, PublishStopped, RunReturns, StopConnector
<1>3. CASE SessionNext
  <2>1. CASE DispatchLine
    BY <2>1, SettledStates DEF DispatchLine
  <2>2. CASE ServerSends \/ ReaderEnds \/ PongTimeout \/ SessionCancelled
    BY <2>2 DEF ServerSends, ReaderEnds, PongTimeout, SessionCancelled
  <2> QED
    BY <1>3, <2>1, <2>2 DEF SessionNext
<1>4. CASE WatchdogNext
  BY <1>4 DEF WatchdogNext, WatchdogSubscribe, WatchdogSeed, WatchdogEnds,
     WatchdogTick, WatchdogPause, wdRest
<1>5. CASE ControlNext
  BY <1>5 DEF ControlNext, SuspendIntent, SuspendPublish, SuspendClose,
     SuspendClear, ResumeIntent, SignalLifecycle, ApplyNickWake, ApplyNick,
     QueueNick, ctlRest
<1>6. CASE OperatorCancels \/ FinalizerCloses \/ UNCHANGED vars
  BY <1>6 DEF OperatorCancels, FinalizerCloses, vars
<1> QED
  BY <1>1, <1>2, <1>3, <1>4, <1>5, <1>6 DEF Next

(* Between two attempts the machine never says one is in progress.         *)
THEOREM SettledBetweenAttemptsHolds == Spec => []SettledBetweenAttempts
<1>1. Init => SettledInv
  BY DEF Init, SettledInv, Building
<1>2. SettledInv => SettledBetweenAttempts
  BY DEF SettledInv, SettledBetweenAttempts, Building
<1> QED
  BY <1>1, <1>2, SettledStep, TypeCorrect, PTL DEF Spec

-----------------------------------------------------------------------------
(* Giving up only for cause.                                               *)

BringUpPlaces == (Building \ {"start", "panicked"}) \cup {"consume", "failed"}

(* Start has not handed over to Run.                                       *)
Starting == At("start") \/ At("run") \/ (whence = "start" /\ pc \in BringUpPlaces)

(* Run is entered with a machine that is not terminal, and its subscription
   then outlives every place of the loop: a terminal state cancels runCtx. *)
GiveUpInv ==
    /\ GivesUpForCause
    /\ At("stop") => ctxCancelled
    /\ Starting => wd = "off"
    /\ At("start") => whence = "start"
    /\ At("parked") => whence = "park"
    /\ At("run") \/ (At("consume") /\ whence = "start") => machine \notin Terminal
    /\ ~Starting /\ pc \notin {"returned", "exited", "panicked"} => subscribed
    /\ subscribed /\ machine \in Terminal => RunCtxDone

LEMMA GiveUpStep == TypeOK /\ GiveUpInv /\ [Next]_vars => GiveUpInv'
<1> SUFFICES ASSUME TypeOK, GiveUpInv, [Next]_vars PROVE GiveUpInv'
  OBVIOUS
<1> USE DEF TypeOK, GiveUpInv, GivesUpForCause, Starting, BringUpPlaces,
   Building, RunCtxDone, Publish, At, GoTo, rest, linkVars, machineVars,
   nickVars, userVars, sessionVars, runVars, Terminal
<1>1. CASE BringUpNext
  <2>1. CASE SaslRejected \/ AwaitNickInUse \/ AwaitRejected \/ AwaitErrorLine
             \/ FallbackExhausted \/ SaslFails \/ BringUpFails
    BY <2>1 DEF SaslRejected, AwaitNickInUse, AwaitRejected, AwaitErrorLine,
       FallbackExhausted, SaslFails, BringUpFails, Abandon
  <2>2. CASE BringUpFailed
    BY <2>2 DEF BringUpFailed, Recoverable, Parkable
  <2>3. CASE StartSuspended \/ BringUpRegistered
    BY <2>3 DEF StartSuspended, BringUpRegistered
  <2>4. CASE StartConnecting \/ BringUpConnect \/ DialFails \/ DialSucceeds
             \/ TlsHandshake \/ BringUpRegistering \/ Register \/ SaslSettled
             \/ RegisterNick \/ SendNick \/ FallbackNick \/ HandshakeComplete
             \/ JoinChannels \/ WriteToNilClient \/ ConsumePreferredNick
             \/ ClassifyFallback \/ ClassifyPublish
    BY <2>4 DEF StartConnecting, BringUpConnect, DialFails, DialSucceeds,
       TlsHandshake, BringUpRegistering, Register, SaslSettled, RegisterNick,
       SendNick, FallbackNick, HandshakeComplete, JoinChannels,
       WriteToNilClient, ConsumePreferredNick, ClassifyFallback,
       ClassifyPublish
  <2> QED
    BY <1>1, <2>1, <2>2, <2>3, <2>4 DEF BringUpNext
<1>2. CASE RunNext
  <2>1. CASE RunStart
    BY <2>1 DEF RunStart
  <2>2. CASE SessionDecide \/ BackoffDone
    BY <2>2 DEF SessionDecide, BackoffDone
  <2>3. CASE SessionClassify \/ ParkReassert
    BY <2>3 DEF SessionClassify, ParkReassert
  <2>4. CASE ParkDone \/ PublishStopped \/ StopConnector
    BY <2>4 DEF ParkDone, PublishStopped, StopConnector
  <2>5. CASE LoopPark \/ LoopSession \/ SessionOver \/ SessionShutdown
             \/ BackoffWoken \/ BackoffOver \/ ParkCapture \/ ParkDrain
             \/ ParkWoken \/ ParkTick \/ RunReturns
    BY <2>5 DEF LoopPark, LoopSession, SessionOver, SessionShutdown,
       BackoffWoken, BackoffOver, ParkCapture, ParkDrain, ParkWoken, ParkTick,
       RunReturns
  <2> QED
    BY <1>2, <2>1, <2>2, <2>3, <2>4, <2>5 DEF RunNext
<1>3. CASE SessionNext
  <2>1. CASE DispatchLine
    <3>1. CASE UNCHANGED machineVars
      BY <2>1, <3>1 DEF DispatchLine
    <3>2. ASSUME NEW state, Publish(state), pc' = pc PROVE GiveUpInv'
      BY <2>1, <3>2 DEF DispatchLine
    <3> QED
      BY <2>1, <3>1, <3>2 DEF DispatchLine
  <2>2. CASE PongTimeout
    BY <2>2 DEF PongTimeout
  <2>3. CASE ServerSends \/ ReaderEnds \/ SessionCancelled
    BY <2>3 DEF ServerSends, ReaderEnds, SessionCancelled
  <2> QED
    BY <1>3, <2>1, <2>2, <2>3 DEF SessionNext
<1>4. CASE WatchdogNext
  <2>1. CASE WatchdogPause
    BY <2>1 DEF WatchdogPause, wdRest
  <2>2. CASE WatchdogSubscribe \/ WatchdogSeed \/ WatchdogEnds \/ WatchdogTick
    BY <2>2 DEF WatchdogSubscribe, WatchdogSeed, WatchdogEnds, WatchdogTick,
       wdRest
  <2> QED
    BY <1>4, <2>1, <2>2 DEF WatchdogNext
<1>5. CASE ControlNext
  <2>1. CASE SuspendPublish
    BY <2>1 DEF SuspendPublish, ctlRest
  <2>2. CASE SuspendIntent \/ SuspendClose \/ SuspendClear \/ ResumeIntent
             \/ SignalLifecycle \/ ApplyNickWake
             \/ (\E n \in Nick : ApplyNick(n))
             \/ (\E n \in Nick : QueueNick(n))
    BY <2>2 DEF SuspendIntent, SuspendClose, SuspendClear, ResumeIntent,
       SignalLifecycle, ApplyNickWake, ApplyNick, QueueNick, ctlRest
  <2> QED
    BY <1>5, <2>1, <2>2 DEF ControlNext
<1>6. CASE OperatorCancels \/ FinalizerCloses \/ UNCHANGED vars
  BY <1>6 DEF OperatorCancels, FinalizerCloses, vars
<1> QED
  BY <1>1, <1>2, <1>3, <1>4, <1>5, <1>6 DEF Next

(* Run gives up only because the operator cancelled or because a terminal
   state was published under its eyes; never over a recoverable one.       *)
THEOREM GivesUpForCauseHolds == Spec => []GivesUpForCause
<1>1. Init => GiveUpInv
  BY DEF Init, GiveUpInv, GivesUpForCause, Starting, At
<1>2. GiveUpInv => GivesUpForCause
  BY DEF GiveUpInv
<1> QED
  BY <1>1, <1>2, GiveUpStep, TypeCorrect, PTL DEF Spec

-----------------------------------------------------------------------------
(* The session owns its link.                                              *)

(* A Suspend in progress keeps the intent raised, so no session begins
   between its Close and its setClient(nil); and a session that is running
   has the installed client, or a closed one.                              *)
LinkInv ==
    /\ ctl \in {"suspend_publish", "suspend_close", "suspend_clear"} => suspended
    /\ At("session") /\ conn \in open => client = conn /\ ctl # "suspend_clear"

LEMMA LinkStep == TypeOK /\ LinkInv /\ [Next]_vars => LinkInv'
<1> SUFFICES ASSUME TypeOK, LinkInv, [Next]_vars PROVE LinkInv'
  OBVIOUS
<1> USE DEF TypeOK, LinkInv, At, GoTo, rest, linkVars, userVars
<1>1. CASE BringUpNext
  <2>1. CASE SaslRejected \/ FallbackExhausted \/ AwaitRejected \/ SaslFails
             \/ BringUpFails
    BY <2>1 DEF SaslRejected, FallbackExhausted, AwaitRejected, SaslFails,
       BringUpFails, Abandon
  <2>2. CASE StartSuspended \/ StartConnecting \/ BringUpConnect \/ DialFails
             \/ DialSucceeds \/ TlsHandshake \/ BringUpRegistering \/ Register
             \/ SaslSettled \/ RegisterNick \/ SendNick \/ AwaitNickInUse
             \/ FallbackNick \/ AwaitErrorLine \/ HandshakeComplete
             \/ JoinChannels \/ WriteToNilClient \/ BringUpRegistered
             \/ ConsumePreferredNick \/ ClassifyFallback \/ ClassifyPublish
             \/ BringUpFailed
    BY <2>2 DEF StartSuspended, StartConnecting, BringUpConnect, DialFails,
       DialSucceeds, TlsHandshake, BringUpRegistering, Register, SaslSettled,
       RegisterNick, SendNick, AwaitNickInUse, FallbackNick, AwaitErrorLine,
       HandshakeComplete, JoinChannels, WriteToNilClient, BringUpRegistered,
       ConsumePreferredNick, ClassifyFallback, ClassifyPublish, BringUpFailed
  <2> QED
    BY <1>1, <2>1, <2>2 DEF BringUpNext
<1>2. CASE RunNext
  <2>1. CASE LoopSession
    BY <2>1 DEF LoopSession, ShouldPark
  <2>2. CASE RunStart \/ LoopPark \/ SessionOver \/ SessionShutdown
             \/ SessionClassify \/ SessionDecide \/ BackoffDone
             \/ BackoffWoken \/ BackoffOver \/ ParkReassert \/ ParkCapture
             \/ ParkDrain \/ ParkWoken \/ ParkTick \/ ParkDone
             \/ PublishStopped \/ RunReturns \/ StopConnector
    BY <2>2 DEF RunStart, LoopPark, SessionOver, SessionShutdown,
       SessionClassify, SessionDecide, BackoffDone, BackoffWoken, BackoffOver,
       ParkReassert, ParkCapture, ParkDrain, ParkWoken, ParkTick, ParkDone,
       PublishStopped, RunReturns, StopConnector
  <2> QED
    BY <1>2, <2>1, <2>2 DEF RunNext
<1>3. CASE SessionNext
  BY <1>3 DEF SessionNext, ServerSends, DispatchLine, ReaderEnds, PongTimeout,
     SessionCancelled
<1>4. CASE WatchdogNext
  BY <1>4 DEF WatchdogNext, WatchdogSubscribe, WatchdogSeed, WatchdogEnds,
     WatchdogTick, WatchdogPause, wdRest
<1>5. CASE ControlNext
  BY <1>5 DEF ControlNext, SuspendIntent, SuspendPublish, SuspendClose,
     SuspendClear, ResumeIntent, SignalLifecycle, ApplyNickWake, ApplyNick,
     QueueNick, ctlRest
<1>6. CASE OperatorCancels \/ FinalizerCloses \/ UNCHANGED vars
  BY <1>6 DEF OperatorCancels, FinalizerCloses, vars
<1> QED
  BY <1>1, <1>2, <1>3, <1>4, <1>5, <1>6 DEF Next

(* While a session's socket is open it is the installed client.            *)
THEOREM SessionOwnsLinkHolds == Spec => []SessionOwnsLink
<1>1. Init => LinkInv
  BY DEF Init, LinkInv, At
<1>2. LinkInv => SessionOwnsLink
  BY DEF LinkInv, SessionOwnsLink
<1> QED
  BY <1>1, <1>2, LinkStep, TypeCorrect, PTL DEF Spec

=============================================================================
