------------------------- MODULE UpstreamSupervisor -------------------------
(***************************************************************************)
(* The reconnect supervisor of one IRC connector                           *)
(* (src/internal/connector/irc/connector.go): Start and the bringUp cycle, *)
(* the Run loop with its park, session, classify and backoff branches, the *)
(* escalation watchdog, Stop, and the control operations Suspend, Resume   *)
(* and ApplyNick that other goroutines call at any moment.                 *)
(*                                                                         *)
(* Threads: the supervisor (Start, then Run), whose place is pc; the       *)
(* control caller, whose place is ctl; the watchdog goroutine, whose place *)
(* is wd; the session's reader, dispatcher and pong watchdog, which live   *)
(* while pc = "session"; the operator, who cancels the context; and the    *)
(* garbage collector, whose finalizer closes a socket nobody refers to.    *)
(*                                                                         *)
(* A step is what a thread does between two points where another thread's  *)
(* change can matter.  Time is not modelled: a timer that is running may   *)
(* fire.  Connections are identifiers; what the server says is a member of *)
(* ServerLines.  Delivery of a state change to its subscribers is one step *)
(* with the change.                                                        *)
(***************************************************************************)
EXTENDS UpstreamState, Integers, Sequences

CONSTANTS
    Nick,            \* the nicks the user may pick
    ConfiguredNick,  \* settings.Nick
    Conn,            \* identifiers of upstream sockets
    ServerLines,     \* the state-relevant lines the server may send
    LineCap,         \* capacity of the session's line channel (64 in the code)
    UseSASL,         \* settings.SASLEnabled()
    WatchdogOn,      \* UpstreamPauseAfter > 0
    NoNick, NoConn

ASSUME NickAssumption == ConfiguredNick \in Nick /\ NoNick \notin Nick
ASSUME ConnAssumption == NoConn \notin Conn
ASSUME LinesAssumption == /\ ServerLines \subseteq (ClassifiedLines \cup {"ctcp"})
                          /\ LineCap \in Nat \ {0}
ASSUME FlagAssumption == UseSASL \in BOOLEAN /\ WatchdogOn \in BOOLEAN

VARIABLES
    machine,       \* UpstreamStateMachine.state
    client,        \* Connector.client, the installed upstream client
    open,          \* sockets this process has not closed
    conn,          \* the supervisor's local cli (in bringUp and in runSession)
    desired,       \* desiredNick
    preferred,     \* preferredNick, the queued nick
    attempted,     \* the nick the current registration asked for
    parkNick,      \* desired as captured by runPark
    suspended,     \* the user's disconnect intent
    wakeup,        \* lifecycleCh holds a signal
    stray,         \* history: bringUp cycles begun since Suspend recorded its intent
    pc, whence,    \* the supervisor's place, and who called bringUp
    ctl,           \* the control caller's place
    wd, outage,    \* the watchdog's place, and whether its outage clock runs
    gdone, lines,  \* the session group's context is done; lines read, not dispatched
    subscribed,    \* Run's terminal subscription is in place
    ctxCancelled,  \* the operator cancelled the context
    runCancelled,  \* a terminal state cancelled runCtx
    result         \* what Start or Run returned

linkVars == <<client, open, conn>>
machineVars == <<machine, outage, runCancelled>>
nickVars == <<desired, preferred, attempted, parkNick>>
userVars == <<suspended, wakeup, stray, ctl>>
sessionVars == <<gdone, lines>>
runVars == <<subscribed, result>>
vars == <<linkVars, machineVars, nickVars, userVars, sessionVars, runVars,
          pc, whence, wd, ctxCancelled>>

(* Everything but the supervisor's place, the machine and the link.        *)
rest == <<nickVars, userVars, sessionVars, runVars, whence, wd, ctxCancelled>>

SupervisorPlaces ==
    {"start", "connect", "dial", "tls", "registering", "register", "sasl",
     "nick", "sendnick", "await", "fallback", "join", "registered", "consume",
     "classify", "publish", "failed", "run", "loop", "woken", "session",
     "session_end", "session_class", "backoff", "reassert", "capture", "drain",
     "parked", "stop", "await_nil", "exit_err", "returned", "exited", "panicked"}
ControlPlaces == {"idle", "suspend_publish", "suspend_close", "suspend_clear",
                  "signal", "apply_wake"}
WatchdogPlaces == {"off", "seed", "seedset", "watch", "decide", "done"}
Watching == {"seedset", "watch", "decide"}

TypeOK ==
    /\ machine \in UpstreamStates
    /\ client \in Conn \cup {NoConn} /\ open \subseteq Conn
    /\ conn \in Conn \cup {NoConn}
    /\ desired \in Nick \cup {NoNick} /\ preferred \in Nick \cup {NoNick}
    /\ attempted \in Nick \cup {NoNick} /\ parkNick \in Nick \cup {NoNick}
    /\ suspended \in BOOLEAN /\ wakeup \in BOOLEAN /\ stray \in Nat
    /\ pc \in SupervisorPlaces /\ whence \in {"start", "loop", "park"}
    /\ ctl \in ControlPlaces
    /\ wd \in WatchdogPlaces /\ outage \in BOOLEAN
    /\ gdone \in BOOLEAN /\ lines \in Seq(ServerLines) /\ Len(lines) <= LineCap
    /\ subscribed \in BOOLEAN /\ ctxCancelled \in BOOLEAN /\ runCancelled \in BOOLEAN
    /\ result \in {"none", "nil", "error"}

Init ==
    /\ machine = "idle" /\ outage = FALSE /\ runCancelled = FALSE
    /\ client = NoConn /\ open = {} /\ conn = NoConn
    /\ desired = NoNick /\ preferred = NoNick
    /\ attempted = NoNick /\ parkNick = NoNick
    /\ suspended \in BOOLEAN            \* SetInitialSuspended
    /\ wakeup = FALSE /\ stray = 0 /\ ctl = "idle"
    /\ gdone = FALSE /\ lines = <<>>
    /\ subscribed = FALSE /\ result = "none"
    /\ pc = "start" /\ whence = "start" /\ wd = "off" /\ ctxCancelled = FALSE

-----------------------------------------------------------------------------
(* UpstreamStateMachine.Transition, with its two subscribers: Run's cancels
   runCtx on a terminal state, the watchdog's starts or stops the clock.   *)
Publish(s) ==
    /\ machine' = s
    /\ runCancelled' = (runCancelled \/ (subscribed /\ s # machine /\ s \in Terminal))
    /\ outage' = IF s # machine /\ wd \in Watching THEN IsOutageState(s) ELSE outage

Classified == Recoverable \cup Terminal \cup Parkable

(* Mutant: Run's waits listen to ctx, not to runCtx.                       *)
RunCtxDoneByOperator == ctxCancelled

RunCtxDone == ctxCancelled \/ runCancelled

(* Mutant: the published state is taken for the user's intent.             *)
ShouldParkByState == machine \in Parkable

ShouldPark == suspended \/ machine = "disconnected_nick_invalid"

(* Mutant: the park predicate trusts the state.                            *)
StillParkedByState == machine \in Parkable

StillParked == \/ suspended
               \/ machine = "disconnected_nick_invalid" /\ desired = parkNick

EffectiveNick == IF preferred # NoNick THEN preferred ELSE ConfiguredNick

(* cli.Close(); c.setClient(nil): what bringUp does when a step fails.     *)
Abandon == /\ open' = open \ {conn}
           /\ client' = NoConn
           /\ conn' = NoConn

At(place) == pc = place
GoTo(place) == pc' = place

-----------------------------------------------------------------------------
(* Start and bringUp.                                                      *)

(* Start of a connector booted suspended: no connect, Run parks.           *)
StartSuspended ==
    /\ At("start") /\ suspended
    /\ Publish("disconnected_by_user")
    /\ GoTo("run")
    /\ UNCHANGED <<linkVars, rest>>

StartConnecting ==
    /\ At("start") /\ ~suspended
    /\ GoTo("connect") /\ whence' = "start"
    /\ UNCHANGED <<linkVars, machineVars, nickVars, userVars, sessionVars,
                   runVars, wd, ctxCancelled>>

BringUpConnect ==
    /\ At("connect")
    /\ Publish("connecting")
    /\ GoTo("dial")
    /\ stray' = IF suspended THEN stray + 1 ELSE stray
    /\ UNCHANGED <<linkVars, nickVars, suspended, wakeup, ctl, sessionVars,
                   runVars, whence, wd, ctxCancelled>>

(* The connect gate or the dial fails: the installed client is not touched. *)
DialFails ==
    /\ At("dial")
    /\ GoTo("classify")
    /\ UNCHANGED <<linkVars, machineVars, rest>>

DialSucceeds ==
    /\ At("dial") /\ ~RunCtxDone
    /\ \E c \in Conn \ (open \cup {client}) :
          /\ conn' = c
          /\ open' = open \cup {c}
    /\ GoTo("tls")
    /\ UNCHANGED <<client, machineVars, rest>>

TlsHandshake ==
    /\ At("tls") /\ ~RunCtxDone
    /\ client' = conn
    /\ GoTo("registering")
    /\ UNCHANGED <<open, conn, machineVars, rest>>

BringUpRegistering ==
    /\ At("registering")
    /\ Publish("registering")
    /\ GoTo("register")
    /\ UNCHANGED <<linkVars, rest>>

(* CAP REQ goes out; with SASL the exchange comes first, else PASS, USER.  *)
Register ==
    /\ At("register") /\ client \in open
    /\ GoTo(IF UseSASL THEN "sasl" ELSE "nick")
    /\ UNCHANGED <<linkVars, machineVars, rest>>

(* The server accepts the credentials, or does not support SASL.           *)
SaslSettled ==
    /\ At("sasl") /\ client \in open
    /\ GoTo("nick")
    /\ UNCHANGED <<linkVars, machineVars, rest>>

SaslRejected ==
    /\ At("sasl") /\ client \in open /\ "904" \in ServerLines
    /\ Publish(Classify("904"))
    /\ Abandon
    /\ GoTo("classify")
    /\ UNCHANGED rest

(* The exchange breaks off.  Its reads carry no deadline: without an answer
   they end only with the connection.                                      *)
SaslFails ==
    /\ At("sasl")
    /\ Abandon
    /\ GoTo("classify")
    /\ UNCHANGED <<machineVars, rest>>

(* register settles the nick of this registration, then sends it.          *)
RegisterNick ==
    /\ At("nick")
    /\ desired' = EffectiveNick /\ attempted' = EffectiveNick
    /\ GoTo("sendnick")
    /\ UNCHANGED <<linkVars, machineVars, preferred, parkNick, userVars,
                   sessionVars, runVars, whence, wd, ctxCancelled>>

SendNick ==
    /\ At("sendnick") /\ client \in open
    /\ GoTo("await")
    /\ UNCHANGED <<linkVars, machineVars, rest>>

(* 433: the nick is taken, and a "_" suffix is tried on the same link.  The
   count of the suffixes is abstracted: any 433 may find them exhausted.   *)
AwaitNickInUse ==
    /\ At("await") /\ client \in open /\ "433" \in ServerLines
    /\ Publish(Classify("433"))
    /\ GoTo("fallback")
    /\ UNCHANGED <<linkVars, rest>>

FallbackNick ==
    /\ At("fallback") /\ client \in open
    /\ GoTo("await")
    /\ UNCHANGED <<linkVars, machineVars, rest>>

FallbackExhausted ==
    /\ At("fallback")
    /\ Publish("disconnected_nick_invalid")
    /\ Abandon
    /\ GoTo("classify")
    /\ UNCHANGED rest

(* 432, 437, 464 or 465: classified, and registration is over.             *)
AwaitRejected ==
    /\ At("await") /\ client \in open
    /\ \E line \in ServerLines \cap {"432", "464", "465"} : Publish(Classify(line))
    /\ Abandon
    /\ GoTo("classify")
    /\ UNCHANGED rest

(* An ERROR line is classified but the wait for the handshake goes on.     *)
AwaitErrorLine ==
    /\ At("await") /\ client \in open
    /\ \E line \in ServerLines \cap {"closing", "kline"} : Publish(Classify(line))
    /\ UNCHANGED <<pc, linkVars, rest>>

HandshakeComplete ==
    /\ At("await") /\ client \in open
    /\ GoTo("join")
    /\ UNCHANGED <<linkVars, machineVars, rest>>

(* JOIN of the wanted channels and NickServ IDENTIFY, on the local client. *)
JoinChannels ==
    /\ At("join") /\ conn \in open
    /\ GoTo("registered")
    /\ UNCHANGED <<linkVars, machineVars, rest>>

(* A write or a read fails, the handshake deadline passes, the TLS
   handshake is refused, or a read finds no client.                        *)
BringUpFails ==
    /\ \/ At("tls") \/ At("await") \/ At("join")
       \/ pc \in {"register", "sendnick", "fallback"} /\ client # NoConn
    /\ Abandon
    /\ GoTo("classify")
    /\ UNCHANGED <<machineVars, rest>>

(* register and the 433 fallback write through c.client, which Suspend may
   have set to nil: WriteLine on a nil client panics.                      *)
WriteToNilClient ==
    /\ pc \in {"register", "sasl", "sendnick", "fallback"}
    /\ client = NoConn
    /\ GoTo("panicked")
    /\ UNCHANGED <<linkVars, machineVars, rest>>

BringUpRegistered ==
    /\ At("registered")
    /\ Publish("registered")
    /\ GoTo("consume")
    /\ UNCHANGED <<linkVars, rest>>

ConsumePreferredNick ==
    /\ At("consume")
    /\ preferred' = NoNick
    /\ conn' = NoConn
    /\ GoTo(IF whence = "start" THEN "run" ELSE "loop")
    /\ UNCHANGED <<client, open, machineVars, desired, attempted, parkNick,
                   userVars, sessionVars, runVars, whence, wd, ctxCancelled>>

(* Mutant: an unclassified failure is not given a state.                   *)
ClassifyFallbackSilent ==
    /\ At("classify")
    /\ GoTo("failed")
    /\ UNCHANGED <<linkVars, machineVars, rest>>

(* classifyFallback looks at the state first, and publishes later.         *)
ClassifyFallback ==
    /\ At("classify")
    /\ GoTo(IF machine \in Classified THEN "failed" ELSE "publish")
    /\ UNCHANGED <<linkVars, machineVars, rest>>

ClassifyPublish ==
    /\ At("publish")
    /\ Publish(IF RunCtxDone THEN "stopped" ELSE "disconnected_transient")
    /\ GoTo("failed")
    /\ UNCHANGED <<linkVars, rest>>

(* What the caller of a failed bringUp does: Start enters supervision or
   returns the error, runPark goes back to the loop, Run decides.          *)
BringUpFailed ==
    /\ At("failed")
    /\ \/ /\ whence = "start" /\ machine \in Recoverable \cup Parkable
          /\ GoTo("run") /\ UNCHANGED result
       \/ /\ whence = "start" /\ machine \notin Recoverable \cup Parkable
          /\ GoTo("exited") /\ result' = "error"
       \/ /\ whence = "park"
          /\ GoTo("loop") /\ UNCHANGED result
       \/ /\ whence = "loop"
          /\ GoTo(CASE machine \in Terminal -> "exit_err"
                    [] machine \notin Terminal /\ ctxCancelled -> "stop"
                    [] OTHER -> "loop")
          /\ UNCHANGED result
    /\ UNCHANGED <<linkVars, machineVars, nickVars, userVars, sessionVars,
                   subscribed, whence, wd, ctxCancelled>>

BringUpNext ==
    \/ StartSuspended \/ StartConnecting \/ BringUpConnect \/ DialFails
    \/ DialSucceeds \/ TlsHandshake \/ BringUpRegistering \/ Register
    \/ SaslSettled \/ SaslRejected \/ SaslFails \/ RegisterNick \/ SendNick
    \/ AwaitNickInUse \/ FallbackNick \/ FallbackExhausted \/ AwaitRejected
    \/ AwaitErrorLine \/ HandshakeComplete \/ JoinChannels \/ BringUpFails
    \/ WriteToNilClient \/ BringUpRegistered \/ ConsumePreferredNick
    \/ ClassifyFallback \/ ClassifyPublish \/ BringUpFailed

-----------------------------------------------------------------------------
(* Run: the loop and its branches.                                         *)

(* Run starts the watchdog and subscribes to terminal states.              *)
RunStart ==
    /\ At("run")
    /\ subscribed' = TRUE
    /\ wd' = IF WatchdogOn THEN "seed" ELSE "off"
    /\ GoTo("loop")
    /\ UNCHANGED <<linkVars, machineVars, nickVars, userVars, sessionVars,
                   result, whence, ctxCancelled>>

LoopPark ==
    /\ pc \in {"loop", "woken"} /\ ShouldPark
    /\ GoTo("reassert")
    /\ UNCHANGED <<linkVars, machineVars, rest>>

(* runSession works on the client installed at its start; with none it
   returns an error at once.                                               *)
LoopSession ==
    /\ pc \in {"loop", "woken"} /\ ~ShouldPark
    /\ conn' = client
    /\ gdone' = FALSE /\ lines' = <<>>
    /\ GoTo(IF client = NoConn THEN "session_end" ELSE "session")
    /\ UNCHANGED <<client, open, machineVars, nickVars, userVars, runVars,
                   whence, wd, ctxCancelled>>

(* Mutant: the reader does not wait for room.                              *)
ServerSendsOver ==
    /\ At("session") /\ ~gdone /\ conn \in open /\ Len(lines) < LineCap + 1
    /\ \E line \in ServerLines : lines' = Append(lines, line)
    /\ UNCHANGED <<pc, linkVars, machineVars, nickVars, userVars, gdone,
                   runVars, whence, wd, ctxCancelled>>

ServerSends ==
    /\ At("session") /\ ~gdone /\ conn \in open
    /\ Len(lines) < LineCap
    /\ \E line \in ServerLines : lines' = Append(lines, line)
    /\ UNCHANGED <<pc, linkVars, machineVars, nickVars, userVars, gdone,
                   runVars, whence, wd, ctxCancelled>>

(* dispatchLine: a nick numeric of a live session is not a disconnect; the
   reply to a CTCP request goes out through c.client.                      *)
DispatchLine ==
    /\ At("session") /\ lines # <<>>
    /\ lines' = Tail(lines)
    /\ \/ /\ Head(lines) \in ClassifiedLines \ {"433", "432"}
          /\ Publish(Classify(Head(lines)))
          /\ UNCHANGED pc
       \/ /\ Head(lines) \in {"433", "432"}
          /\ UNCHANGED <<machineVars, pc>>
       \/ /\ Head(lines) = "ctcp"
          /\ IF client = NoConn THEN GoTo("panicked") ELSE UNCHANGED pc
          /\ UNCHANGED machineVars
    /\ UNCHANGED <<linkVars, nickVars, userVars, gdone, runVars, whence, wd,
                   ctxCancelled>>

(* End of file, a read error, the idle timeout, or a failed PING write.    *)
ReaderEnds ==
    /\ At("session") /\ ~gdone
    /\ gdone' = TRUE
    /\ UNCHANGED <<pc, linkVars, machineVars, nickVars, userVars, lines, runVars,
                   whence, wd, ctxCancelled>>

(* The pong watchdog publishes the outage, then fails the session.         *)
PongTimeout ==
    /\ At("session")
    /\ Publish("disconnected_transient")
    /\ gdone' = TRUE
    /\ UNCHANGED <<pc, linkVars, nickVars, userVars, lines, runVars, whence, wd,
                   ctxCancelled>>

(* runCtx is done: the reader is unblocked.                                *)
SessionCancelled ==
    /\ At("session") /\ ~gdone /\ RunCtxDone
    /\ gdone' = TRUE
    /\ UNCHANGED <<pc, linkVars, machineVars, nickVars, userVars, lines, runVars,
                   whence, wd, ctxCancelled>>

(* The group is done; what dispatch has not taken from the channel is lost
   and the socket is left as it is.                                        *)
SessionOver ==
    /\ At("session") /\ gdone
    /\ lines' = <<>> /\ conn' = NoConn
    /\ GoTo("session_end")
    /\ UNCHANGED <<client, open, machineVars, nickVars, userVars, gdone, runVars,
                   whence, wd, ctxCancelled>>

SessionShutdown ==
    /\ At("session_end") /\ ctxCancelled
    /\ GoTo("stop")
    /\ UNCHANGED <<linkVars, machineVars, rest>>

(* The error of an unclassified session is published as transient; a session
   ended by runCtx may have no error.                                      *)
SessionClassify ==
    /\ At("session_end") /\ ~ctxCancelled
    /\ \/ machine \in Classified /\ UNCHANGED machineVars
       \/ machine \notin Classified /\ Publish("disconnected_transient")
       \/ machine \notin Classified /\ RunCtxDone /\ UNCHANGED machineVars
    /\ GoTo("session_class")
    /\ UNCHANGED <<linkVars, rest>>

(* Mutant: every classified end of a session is final.                     *)
SessionDecideFinal ==
    /\ At("session_class")
    /\ GoTo(CASE machine \notin Parkable /\ machine \in Classified -> "exit_err"
              [] machine \in Parkable \/ machine \notin Classified ->
                    IF ShouldPark THEN "loop" ELSE "backoff")
    /\ UNCHANGED <<linkVars, machineVars, rest>>

SessionDecide ==
    /\ At("session_class")
    /\ GoTo(CASE machine \in Terminal -> "exit_err"
              [] machine \notin Terminal /\ ShouldPark -> "loop"
              [] OTHER -> "backoff")
    /\ UNCHANGED <<linkVars, machineVars, rest>>

BackoffDone ==
    /\ At("backoff") /\ RunCtxDone
    /\ GoTo(IF ctxCancelled THEN "stop" ELSE "exit_err")
    /\ UNCHANGED <<linkVars, machineVars, rest>>

BackoffWoken ==
    /\ At("backoff") /\ wakeup
    /\ wakeup' = FALSE
    /\ GoTo("woken")
    /\ UNCHANGED <<linkVars, machineVars, nickVars, suspended, stray, ctl,
                   sessionVars, runVars, whence, wd, ctxCancelled>>

BackoffOver ==
    /\ At("backoff")
    /\ GoTo(IF ShouldPark THEN "loop" ELSE "connect")
    /\ whence' = "loop"
    /\ UNCHANGED <<linkVars, machineVars, nickVars, userVars, sessionVars,
                   runVars, wd, ctxCancelled>>

-----------------------------------------------------------------------------
(* runPark and park.                                                       *)

ParkReassert ==
    /\ At("reassert")
    /\ IF suspended THEN Publish("disconnected_by_user") ELSE UNCHANGED machineVars
    /\ GoTo("capture")
    /\ UNCHANGED <<linkVars, rest>>

ParkCapture ==
    /\ At("capture")
    /\ parkNick' = desired
    /\ GoTo("drain")
    /\ UNCHANGED <<linkVars, machineVars, desired, preferred, attempted, userVars,
                   sessionVars, runVars, whence, wd, ctxCancelled>>

ParkDrain ==
    /\ At("drain")
    /\ wakeup' = FALSE
    /\ GoTo(IF StillParked THEN "parked" ELSE "connect")
    /\ whence' = "park"
    /\ UNCHANGED <<linkVars, machineVars, nickVars, suspended, stray, ctl,
                   sessionVars, runVars, wd, ctxCancelled>>

ParkWoken ==
    /\ At("parked") /\ wakeup
    /\ wakeup' = FALSE
    /\ GoTo(IF StillParked THEN "parked" ELSE "connect")
    /\ UNCHANGED <<linkVars, machineVars, nickVars, suspended, stray, ctl,
                   sessionVars, runVars, whence, wd, ctxCancelled>>

(* The recheck ticker, when the predicate has changed.                     *)
ParkTick ==
    /\ At("parked") /\ ~StillParked
    /\ GoTo("connect")
    /\ UNCHANGED <<linkVars, machineVars, rest>>

ParkDone ==
    /\ At("parked") /\ RunCtxDone
    /\ Publish("stopped")
    /\ GoTo("await_nil")
    /\ UNCHANGED <<linkVars, rest>>

-----------------------------------------------------------------------------
(* The ends of Run, and Stop.                                              *)

PublishStopped ==
    /\ At("stop")
    /\ Publish("stopped")
    /\ GoTo("await_nil")
    /\ UNCHANGED <<linkVars, rest>>

(* Run returns once the watchdog goroutine is gone: nil after a shutdown, an
   error from exitTerminal.                                                *)
RunReturns ==
    /\ pc \in {"await_nil", "exit_err"} /\ wd \in {"off", "done"}
    /\ result' = IF At("exit_err") THEN "error" ELSE "nil"
    /\ subscribed' = FALSE
    /\ GoTo("returned")
    /\ UNCHANGED <<linkVars, machineVars, nickVars, userVars, sessionVars, whence,
                   wd, ctxCancelled>>

(* The agent stops its connectors once its group ends: at an error of Run, or
   at the end of the context.                                              *)
StopConnector ==
    /\ At("returned") /\ (result = "error" \/ ctxCancelled)
    /\ Publish("stopped")
    /\ open' = open \ {client} /\ client' = NoConn
    /\ GoTo("exited")
    /\ UNCHANGED <<conn, rest>>

RunNext ==
    \/ RunStart \/ LoopPark \/ LoopSession \/ SessionOver \/ SessionShutdown
    \/ SessionClassify \/ SessionDecide \/ BackoffDone \/ BackoffWoken
    \/ BackoffOver \/ ParkReassert \/ ParkCapture \/ ParkDrain \/ ParkWoken
    \/ ParkTick \/ ParkDone \/ PublishStopped \/ RunReturns \/ StopConnector

SessionNext == ServerSends \/ DispatchLine \/ ReaderEnds \/ PongTimeout
               \/ SessionCancelled

-----------------------------------------------------------------------------
(* The escalation watchdog.                                                *)

Alive == pc # "panicked"

wdRest == <<pc, linkVars, nickVars, userVars, sessionVars, runVars, whence,
            ctxCancelled>>

(* Mutant: the watchdog does not watch the context.                        *)
WatchdogDismissedByRun == pc \in {"exit_err", "returned", "exited"}

WatchdogDismissed == ctxCancelled \/ pc \in {"exit_err", "returned", "exited"}

(* It subscribes, then reads the state to seed the clock, ...              *)
WatchdogSubscribe ==
    /\ Alive /\ wd = "seed"
    /\ wd' = IF IsOutageState(machine) THEN "seedset" ELSE "watch"
    /\ UNCHANGED <<wdRest, machineVars>>

(* ... and only then starts the clock.                                     *)
WatchdogSeed ==
    /\ Alive /\ wd = "seedset"
    /\ outage' = TRUE /\ wd' = "watch"
    /\ UNCHANGED <<wdRest, machine, runCancelled>>

WatchdogEnds ==
    /\ Alive /\ wd = "watch"
    /\ WatchdogDismissed \/ machine \in Terminal
    /\ wd' = "done" /\ outage' = FALSE
    /\ UNCHANGED <<wdRest, machine, runCancelled>>

(* A tick finds the outage longer than UpstreamPauseAfter ...              *)
WatchdogTick ==
    /\ Alive /\ wd = "watch" /\ machine \notin Terminal /\ outage
    /\ wd' = "decide"
    /\ UNCHANGED <<wdRest, machineVars>>

(* ... and pauses the connector, whatever its state is by then.            *)
WatchdogPause ==
    /\ Alive /\ wd = "decide"
    /\ Publish("paused_idle") /\ wd' = "done"
    /\ UNCHANGED wdRest

WatchdogNext == WatchdogSubscribe \/ WatchdogSeed \/ WatchdogEnds
                \/ WatchdogTick \/ WatchdogPause

-----------------------------------------------------------------------------
(* The control operations, called one at a time.                           *)

ctlRest == <<pc, whence, wd, conn, parkNick, attempted, sessionVars, runVars,
             ctxCancelled>>

SuspendIntent ==
    /\ Alive /\ ctl = "idle" /\ ~suspended
    /\ suspended' = TRUE /\ stray' = 0 /\ ctl' = "suspend_publish"
    /\ UNCHANGED <<ctlRest, machineVars, client, open, desired, preferred, wakeup>>

SuspendPublish ==
    /\ Alive /\ ctl = "suspend_publish"
    /\ Publish("disconnected_by_user")
    /\ ctl' = "suspend_close"
    /\ UNCHANGED <<ctlRest, client, open, desired, preferred, suspended, wakeup, stray>>

(* Mutant: the client is cleared first, and Close finds none.              *)
SuspendCloseNothing ==
    /\ Alive /\ ctl = "suspend_close"
    /\ ctl' = IF client = NoConn THEN "signal" ELSE "suspend_clear"
    /\ UNCHANGED <<ctlRest, machineVars, client, open, desired, preferred,
                   suspended, wakeup, stray>>

SuspendClose ==
    /\ Alive /\ ctl = "suspend_close"
    /\ open' = open \ {client}
    /\ ctl' = IF client = NoConn THEN "signal" ELSE "suspend_clear"
    /\ UNCHANGED <<ctlRest, machineVars, client, desired, preferred, suspended,
                   wakeup, stray>>

SuspendClear ==
    /\ Alive /\ ctl = "suspend_clear"
    /\ client' = NoConn
    /\ ctl' = "signal"
    /\ UNCHANGED <<ctlRest, machineVars, open, desired, preferred, suspended,
                   wakeup, stray>>

ResumeIntent ==
    /\ Alive /\ ctl = "idle" /\ suspended
    /\ suspended' = FALSE /\ stray' = 0 /\ ctl' = "signal"
    /\ UNCHANGED <<ctlRest, machineVars, client, open, desired, preferred, wakeup>>

SignalLifecycle ==
    /\ Alive /\ ctl = "signal"
    /\ wakeup' = TRUE /\ ctl' = "idle"
    /\ UNCHANGED <<ctlRest, machineVars, client, open, desired, preferred,
                   suspended, stray>>

ApplyNick(n) ==
    /\ Alive /\ ctl = "idle" /\ n # desired
    /\ desired' = n /\ preferred' = n
    /\ ctl' = "apply_wake"
    /\ UNCHANGED <<ctlRest, machineVars, client, open, suspended, wakeup, stray>>

(* A parked supervisor is woken; a registered link is sent NICK.           *)
ApplyNickWake ==
    /\ Alive /\ ctl = "apply_wake"
    /\ wakeup' = (wakeup \/ machine = "disconnected_nick_invalid")
    /\ ctl' = "idle"
    /\ UNCHANGED <<ctlRest, machineVars, client, open, desired, preferred,
                   suspended, stray>>

(* A bouncer client's NICK while the link is down queues the nick for the
   next registration.                                                      *)
QueueNick(n) ==
    /\ Alive /\ machine # "registered"
    /\ preferred' = n
    /\ UNCHANGED <<ctlRest, ctl, machineVars, client, open, desired, suspended,
                   wakeup, stray>>

ControlNext ==
    \/ SuspendIntent \/ SuspendPublish \/ SuspendClose \/ SuspendClear
    \/ ResumeIntent \/ SignalLifecycle \/ ApplyNickWake
    \/ \E n \in Nick : ApplyNick(n) \/ QueueNick(n)

-----------------------------------------------------------------------------
(* The operator and the garbage collector.                                 *)

OperatorCancels ==
    /\ Alive /\ ~ctxCancelled
    /\ ctxCancelled' = TRUE
    /\ UNCHANGED <<pc, linkVars, machineVars, nickVars, userVars, sessionVars,
                   runVars, whence, wd>>

(* A socket nobody refers to is closed by its finalizer.                   *)
FinalizerCloses ==
    /\ Alive
    /\ \E c \in open \ {client, conn} : open' = open \ {c}
    /\ UNCHANGED <<pc, client, conn, machineVars, rest>>

Next == BringUpNext \/ RunNext \/ SessionNext \/ WatchdogNext \/ ControlNext
        \/ OperatorCancels \/ FinalizerCloses

(***************************************************************************)
(* Fairness.  The supervisor, the watchdog and a control call in progress  *)
(* go on.  Registration has its deadline, so a wait that may last is left; *)
(* a read of a closed socket fails, and so does every read of a session    *)
(* whose context is done.  Go's select picks at random, so a context that  *)
(* is done again and again is seen.  No fairness on the server, the user,  *)
(* the operator, or the SASL reads of a healthy socket.                    *)
(***************************************************************************)
Fairness ==
    /\ WF_vars(BringUpNext /\ pc # "sasl")
    /\ WF_vars(BringUpFails)
    /\ WF_vars(SaslFails /\ client \notin open)
    /\ WF_vars(RunNext)
    /\ SF_vars(BackoffDone) /\ SF_vars(ParkDone)
    /\ WF_vars(SessionCancelled) /\ WF_vars(ReaderEnds /\ conn \notin open)
    /\ WF_vars(DispatchLine /\ ~gdone)
    /\ WF_vars(WatchdogSubscribe \/ WatchdogSeed \/ WatchdogEnds \/ WatchdogPause)
    /\ WF_vars(ControlNext /\ ctl' # ctl /\ ctl # "idle")

Spec == Init /\ [][Next]_vars
FairSpec == Spec /\ Fairness

-----------------------------------------------------------------------------
(* Safety.                                                                 *)

(* Suspend does not stop a cycle that is about to begin, but the supervisor
   never begins a second one: each way back to bringUp looks at the intent
   (shouldPark at the top of the loop and after the backoff, the park
   predicate).                                                             *)
AtMostOneStrayAttempt == stray <= 1

(* Whatever Suspend and the watchdog publish meanwhile, bringUp never leaves
   the machine in a state that says "in progress": a session, a backoff, a
   park and the end of Run all find it classified or registered.           *)
InProgress == {"idle", "connecting", "registering"}
SettledBetweenAttempts ==
    pc \in {"run", "loop", "woken", "session", "session_class", "backoff",
            "parked", "returned"}
        => machine \notin InProgress

(* Run comes to an end only for a cause: the operator cancelled, or some
   thread published a terminal state while Run was watching.               *)
GivesUpForCause ==
    pc \in {"exit_err", "await_nil"} => RunCtxDone

(* The connection a session reads, as long as it is open, is the one that
   Send, the bouncer and Suspend reach through getClient.                  *)
SessionOwnsLink == At("session") /\ conn \in open => client = conn

-----------------------------------------------------------------------------
(* Liveness.                                                               *)

Ended == pc \in {"exited", "panicked"}

(* The user stops pressing buttons: no control call is made for ever.      *)
UserRests == <>[](ctl = "idle")

(* An operator shutdown ends the connector, watchdog goroutine included.   *)
ShutdownEnds == UserRests => (ctxCancelled ~> Ended)

(* Run is past its loop: it waits for the watchdog, or is over.  A Suspend may
   publish over the state the watchdog would have ended for.               *)
GivenUp == pc \in {"await_nil", "exit_err", "returned"} \/ Ended

(* Once the user suspends for good, the connector comes to rest in the park,
   or Run has given up.                                                    *)
SuspendSettles == <>[]suspended => <>[](At("parked") \/ GivenUp)

(* Once the user resumes for good, the machine leaves disconnected_by_user
   for good, or Run has given up.                                          *)
ResumeReconnects ==
    UserRests /\ <>[](~suspended)
        => <>[](machine # "disconnected_by_user" \/ GivenUp)

(* A terminal verdict makes Run give up: it is not retried for ever.       *)
VerdictEndsRun == UserRests => (runCancelled ~> GivenUp)

=============================================================================
