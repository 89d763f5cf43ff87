------------------------------- MODULE Bouncer -------------------------------
(***************************************************************************)
(* The bouncer (src/internal/connector/irc/bouncer.go): the user's own IRC *)
(* clients attach to it, are welcomed with the state of the upstream and a *)
(* replay of the message store, see every upstream line and every line the *)
(* other clients send, and are let go when the bouncer stops.              *)
(*                                                                         *)
(* Threads: the accept loop (or, in the pool, the router's ServeConn), one *)
(* handler for each connection, the upstream session (its dispatcher       *)
(* broadcasts lines, its supervisor publishes states), whoever suspends    *)
(* the connector, the agent that stores messages, and Stop.                *)
(*                                                                         *)
(* A fan-out takes the attached clients under the mutex and then writes to *)
(* one after another; each sender has at most one under way.  A line is    *)
(* its number in the order of the fan-outs; one channel is joined.         *)
(***************************************************************************)
EXTENDS Naturals, Sequences, FiniteSets

CONSTANTS
    Client,       \* names of connections, reused when nothing refers to one
    EchoClient,   \* those that ask for the capability echo-message
    Upstream,     \* the session: dispatcher and supervisor
    Control,      \* the thread of Suspend
    Bounds        \* bounds, one of which a behaviour keeps to: the clients that connect;
                  \* the plain ones, that send PASS, once, and messages, and stay up;
                  \* the lines fanned out; the outages; whether Suspend is called

ASSUME ClientAssumption == IsFiniteSet(Client) /\ EchoClient \subseteq Client
ASSUME SenderAssumption == Upstream \notin Client /\ Control \notin Client
                           /\ Upstream # Control
ASSUME BoundAssumption ==
    Bounds \subseteq [clients : SUBSET Client, plain : SUBSET Client, lines : Nat,
                      outages : Nat \ {0}, suspend : BOOLEAN]

Sender == Client \cup {Upstream, Control}
Machine == {"idle", "connecting", "registered", "disconnected"}
Handling == {"read", "surface", "tell", "replay", "send", "fan", "exit"}
Places == {"gone", "accepted", "added"} \cup Handling

VARIABLES
    bound,        \* the bounds of this behaviour; lasts
    listening,    \* Start rather than StartListenerless; lasts
    accepting,    \* the accept loop runs
    cancelled,    \* runCtx is done
    stop,         \* where Stop is
    closing,      \* the clients Stop has yet to close
    clients,      \* Bouncer.clients
    pc,           \* where each connection's handler is
    sock,         \* the bouncer's end of each connection is open
    peer,         \* the client at the other end: up, stalled, or gone for good
    auth,         \* BouncerClient.auth
    caps,         \* none, open (capStarted) or done
    deferred,     \* BouncerClient.welcomeDeferred
    seen,         \* the outage surfaceStateToClient has read, 0 if registered
    fan,          \* each sender's fan-out
    session,      \* where the upstream session is: away, dial, up
    machine,      \* the upstream state
    inbox,        \* lines on their way to the agent
    stored,       \* lines in the message store
    lines,        \* lines fanned out so far
    outage,       \* outages so far, the first one before the first connect
    got,          \* history: the lines each client was sent live
    replayed,     \* history: the lines each client was replayed, by its welcome
    gap,          \* history: lines each client had been passed over for, and that
                  \* were not stored yet, when it authenticated
    told,         \* history: the last outage each client was told of
    welcomed,     \* history: the client has had its welcome
    lost          \* history: a write to the client failed

serverVars == <<bound, listening, accepting, cancelled, stop, closing>>
connVars == <<sock, peer, auth, caps, deferred>>
upVars == <<session, machine, outage>>
storeVars == <<inbox, stored, lines>>
seenVars == <<seen, replayed, welcomed>>
heardVars == <<got, gap, told, lost>>
vars == <<serverVars, clients, pc, connVars, fan, upVars, storeVars, seenVars, heardVars>>

FanOuts == [job : {"none", "line", "announceDown", "announceUp", "down", "up"},
            n : Nat, todo : SUBSET Client]
NoFan == [job |-> "none", n |-> 0, todo |-> {}]
GoTo(c, place) == pc' = [pc EXCEPT ![c] = place]
Busy(s) == fan[s].job # "none"
Pending(c, n) == \E s \in Sender : fan[s].job = "line" /\ fan[s].n = n /\ c \in fan[s].todo
Reachable(c) == sock[c] /\ peer[c] = "up"
Broken(c) == ~sock[c] \/ peer[c] # "up"

(* The head of handleClient's loop.                                        *)
Again(c) == IF cancelled THEN "exit" ELSE "read"

Init ==
    /\ bound \in Bounds
    /\ listening \in BOOLEAN /\ accepting = listening /\ cancelled = FALSE
    /\ stop = "idle" /\ closing = {} /\ clients = {}
    /\ pc = [c \in Client |-> "gone"]
    /\ sock = [c \in Client |-> FALSE] /\ peer = [c \in Client |-> "up"]
    /\ auth = [c \in Client |-> FALSE] /\ caps = [c \in Client |-> "none"]
    /\ deferred = [c \in Client |-> FALSE]
    /\ seen = [c \in Client |-> 0] /\ fan = [s \in Sender |-> NoFan]
    /\ session = "away" /\ machine = "idle" /\ outage = 1
    /\ inbox = <<>> /\ stored = {} /\ lines = 0
    /\ got = [c \in Client |-> {}] /\ replayed = [c \in Client |-> {}]
    /\ gap = [c \in Client |-> {}]
    /\ told = [c \in Client |-> 0]
    /\ welcomed = [c \in Client |-> FALSE] /\ lost = [c \in Client |-> FALSE]

-----------------------------------------------------------------------------
(* A connection arrives.                                                   *)

(* Nothing in the process refers to a former connection of this name.      *)
Unused(c) == pc[c] = "gone" /\ c \notin closing /\ \A s \in Sender : c \notin fan[s].todo

Connect(c) ==
    /\ Unused(c) /\ c \in bound.clients
    /\ sock' = [sock EXCEPT ![c] = TRUE]
    /\ GoTo(c, "accepted")
    /\ UNCHANGED <<serverVars, clients, peer, auth, caps, deferred, fan, upVars, storeVars,
                   seenVars, heardVars>>

(* acceptLoop: one connection at a time, until the listener is closed.     *)
Accept(c) ==
    /\ accepting /\ stop # "waiting" /\ \A d \in Client : pc[d] # "accepted"
    /\ Connect(c)

(* ServeConn: only while runCtx is set.                                    *)
ServeConn(c) == ~listening /\ stop = "idle" /\ Connect(c)

(* The second critical section of both.                                    *)
Attach(c) ==
    /\ pc[c] = "accepted"
    /\ clients' = clients \cup {c}
    /\ GoTo(c, "added")
    /\ UNCHANGED <<serverVars, connVars, fan, upVars, storeVars, seenVars, heardVars>>

(* wg.Add, and the handler starts.                                         *)
StartHandler(c) ==
    /\ pc[c] = "added"
    /\ GoTo(c, Again(c))
    /\ UNCHANGED <<serverVars, clients, connVars, fan, upVars, storeVars, seenVars, heardVars>>

-----------------------------------------------------------------------------
(* The handler of a connection: handleClient and handleLine.               *)

(* A line arrives.                                                         *)
Line(c) == pc[c] = "read" /\ Reachable(c)
UnchangedByLine ==
    UNCHANGED <<serverVars, clients, sock, peer, fan, upVars, storeVars, seenVars, heardVars>>

(* PASS with the right password, at any time.                              *)
PassAccepted(c) ==
    /\ Line(c) /\ (c \in bound.plain => ~auth[c])
    /\ auth' = [auth EXCEPT ![c] = TRUE]
    /\ deferred' = [deferred EXCEPT ![c] = @ \/ caps[c] = "open"]
    /\ GoTo(c, IF caps[c] = "open" THEN Again(c) ELSE "surface")
    /\ gap' = [gap EXCEPT ![c] = IF auth[c] THEN @
                                 ELSE {n \in (1..lines) \ stored : ~Pending(c, n)}]
    /\ UNCHANGED <<serverVars, clients, sock, peer, caps, fan, upVars, storeVars, seenVars,
                   got, told, lost>>

(* A wrong password, or the address is locked out.                         *)
PassRefused(c) ==
    /\ Line(c) /\ c \notin bound.plain
    /\ sock' = [sock EXCEPT ![c] = FALSE]
    /\ GoTo(c, Again(c))
    /\ UNCHANGED <<serverVars, clients, peer, auth, caps, deferred, fan, upVars, storeVars,
                   seenVars, heardVars>>

(* CAP LS and CAP REQ.                                                     *)
CapStart(c) ==
    /\ Line(c) /\ c \notin bound.plain
    /\ caps' = [caps EXCEPT ![c] = "open"]
    /\ GoTo(c, Again(c))
    /\ UNCHANGED <<auth, deferred>>
    /\ UnchangedByLine

(* A mutant: a deferred welcome is the replay alone.                       *)
CapEndReplaysOnly(c) ==
    /\ Line(c) /\ caps[c] = "open"
    /\ caps' = [caps EXCEPT ![c] = "done"]
    /\ deferred' = [deferred EXCEPT ![c] = FALSE]
    /\ GoTo(c, IF deferred[c] THEN "replay" ELSE Again(c))
    /\ UNCHANGED auth
    /\ UnchangedByLine

(* CAP END flushes a deferred welcome.                                     *)
CapEnd(c) ==
    /\ Line(c) /\ caps[c] = "open"
    /\ caps' = [caps EXCEPT ![c] = "done"]
    /\ deferred' = [deferred EXCEPT ![c] = FALSE]
    /\ GoTo(c, IF deferred[c] THEN "surface" ELSE Again(c))
    /\ UNCHANGED auth
    /\ UnchangedByLine

(* PING, PONG, a line before PASS, a refused command: nothing of this model
   changes.                                                                *)
OtherLine(c) ==
    /\ Line(c) /\ c \notin bound.plain
    /\ GoTo(c, Again(c))
    /\ UNCHANGED <<auth, caps, deferred>>
    /\ UnchangedByLine

(* PRIVMSG or NOTICE passes the gate on the upstream state.                *)
Message(c) ==
    /\ Line(c) /\ auth[c] /\ machine = "registered"
    /\ GoTo(c, "send")
    /\ UNCHANGED <<auth, caps, deferred>>
    /\ UnchangedByLine

(* A mutant: the read has no deadline.                                     *)
ReadFailsWhenClosed(c) ==
    /\ pc[c] = "read" /\ ~sock[c]
    /\ GoTo(c, "exit")
    /\ UNCHANGED <<serverVars, clients, connVars, fan, upVars, storeVars, seenVars, heardVars>>

(* The read fails: closed at either end, or silence for longer than the ping
   interval and its grace.  Once runCtx is done no more PINGs are sent, and a
   client that is up may be silent.                                        *)
ReadFails(c) ==
    /\ pc[c] = "read"
    /\ Broken(c) \/ cancelled
    /\ GoTo(c, "exit")
    /\ UNCHANGED <<serverVars, clients, connVars, fan, upVars, storeVars, seenVars, heardVars>>

(* The deferred functions; what was kept of the connection goes with it.   *)
Exit(c) ==
    /\ pc[c] = "exit"
    /\ clients' = clients \ {c}
    /\ GoTo(c, "gone")
    /\ sock' = [sock EXCEPT ![c] = FALSE] /\ peer' = [peer EXCEPT ![c] = "up"]
    /\ auth' = [auth EXCEPT ![c] = FALSE] /\ caps' = [caps EXCEPT ![c] = "none"]
    /\ deferred' = [deferred EXCEPT ![c] = FALSE] /\ seen' = [seen EXCEPT ![c] = 0]
    /\ got' = [got EXCEPT ![c] = {}] /\ replayed' = [replayed EXCEPT ![c] = {}]
    /\ gap' = [gap EXCEPT ![c] = {}] /\ welcomed' = [welcomed EXCEPT ![c] = FALSE]
    /\ told' = [told EXCEPT ![c] = 0]
    /\ lost' = [lost EXCEPT ![c] = FALSE]
    /\ UNCHANGED <<serverVars, fan, upVars, storeVars>>

-----------------------------------------------------------------------------
(* sendWelcome.                                                            *)

(* surfaceStateToClient reads the state.                                   *)
Surface(c) ==
    /\ pc[c] = "surface"
    /\ seen' = [seen EXCEPT ![c] = IF machine = "registered" THEN 0 ELSE outage]
    /\ GoTo(c, "tell")
    /\ UNCHANGED <<serverVars, clients, connVars, fan, upVars, storeVars, replayed,
                   welcomed, heardVars>>

(* It writes the notice, if there is one, and ignores an error; replayState
   writes more.                                                            *)
Tell(c) ==
    /\ pc[c] = "tell"
    /\ \/ /\ Reachable(c)
          /\ told' = [told EXCEPT ![c] = IF seen[c] > @ THEN seen[c] ELSE @]
          /\ UNCHANGED lost
       \/ /\ Broken(c)
          /\ lost' = [lost EXCEPT ![c] = TRUE]
          /\ UNCHANGED told
    /\ seen' = [seen EXCEPT ![c] = 0]
    /\ GoTo(c, "replay")
    /\ UNCHANGED <<serverVars, clients, connVars, fan, upVars, storeVars, replayed, welcomed,
                   got, gap>>

(* replayChannelLogs: the store is read and written out.                   *)
Replay(c) ==
    /\ pc[c] = "replay"
    /\ replayed' = [replayed EXCEPT ![c] = @ \cup stored]
    /\ welcomed' = [welcomed EXCEPT ![c] = TRUE]
    /\ lost' = [lost EXCEPT ![c] = @ \/ (stored # {} /\ Broken(c))]
    /\ GoTo(c, Again(c))
    /\ UNCHANGED <<serverVars, clients, connVars, fan, upVars, storeVars, seen, got, gap,
                   told>>

-----------------------------------------------------------------------------
(* Fan-outs.                                                               *)

(* The clients a sender's own line is kept from: fanMessage.               *)
Excluded(s) == IF s \in Client /\ ~(s \in EchoClient /\ caps[s] # "none") THEN {s} ELSE {}

(* A mutant: a client gets no lines before it has had its welcome.         *)
StartLineForWelcomed(s) ==
    /\ lines < bound.lines /\ lines' = lines + 1
    /\ fan' = [fan EXCEPT ![s] = [job |-> "line", n |-> lines + 1,
                                  todo |-> {c \in clients \ Excluded(s) : welcomed[c]}]]
    /\ got' = [c \in Client |-> IF c \in Excluded(s) THEN got[c] \cup {lines + 1} ELSE got[c]]

(* The snapshot at the head of Broadcast and BroadcastAsSelf.  A client knows
   the line that is kept from it.                                          *)
StartLine(s) ==
    /\ lines < bound.lines /\ lines' = lines + 1
    /\ fan' = [fan EXCEPT ![s] = [job |-> "line", n |-> lines + 1,
                                  todo |-> clients \ Excluded(s)]]
    /\ got' = [c \in Client |-> IF c \in Excluded(s) THEN got[c] \cup {lines + 1} ELSE got[c]]

(* The client's line is written upstream, then fanned out to the others.   *)
SendUpstream(c) ==
    /\ pc[c] = "send"
    /\ StartLine(c)
    /\ GoTo(c, "fan")
    /\ UNCHANGED <<serverVars, clients, connVars, upVars, inbox, stored, seenVars, gap, told,
                   lost>>

(* The write upstream fails: rejectForDetached tells the client.           *)
SendFails(c) ==
    /\ pc[c] = "send"
    /\ GoTo(c, Again(c))
    /\ UNCHANGED <<serverVars, clients, connVars, fan, upVars, storeVars, seenVars, heardVars>>

(* dispatchLine: a channel message from upstream.                          *)
Dispatch ==
    /\ session = "up" /\ ~Busy(Upstream) /\ stop = "idle"
    /\ StartLine(Upstream)
    /\ UNCHANGED <<serverVars, clients, pc, connVars, upVars, inbox, stored, seenVars, gap,
                   told, lost>>

(* One client of a fan-out: passed over if it is not authenticated, else
   written to.                                                             *)
PassOver(s, c) ==
    /\ c \in fan[s].todo /\ ~auth[c]
    /\ fan' = [fan EXCEPT ![s].todo = @ \ {c}]
    /\ UNCHANGED <<serverVars, clients, pc, connVars, upVars, storeVars, seenVars, heardVars>>

Write(s, c) ==
    /\ c \in fan[s].todo /\ auth[c] /\ Reachable(c)
    /\ fan' = [fan EXCEPT ![s].todo = @ \ {c}]
    /\ got' = [got EXCEPT ![c] = IF fan[s].job = "line" THEN @ \cup {fan[s].n} ELSE @]
    /\ told' = [told EXCEPT ![c] = IF fan[s].job = "down" /\ fan[s].n > @ THEN fan[s].n ELSE @]
    /\ UNCHANGED <<serverVars, clients, pc, connVars, upVars, storeVars, seenVars, gap, lost>>

(* The write fails, at once or at its deadline: the client is taken out of
   the map, and neither closed nor told.                                   *)
WriteFails(s, c) ==
    /\ c \in fan[s].todo /\ auth[c] /\ Broken(c)
    /\ fan' = [fan EXCEPT ![s].todo = @ \ {c}]
    /\ clients' = clients \ {c}
    /\ lost' = [lost EXCEPT ![c] = TRUE]
    /\ UNCHANGED <<serverVars, pc, connVars, upVars, storeVars, seenVars, got, gap, told>>

(* After a line: an upstream one goes to the agent's inbox, a client's own is
   stored by the outbound observer.                                        *)
LineDone(s) ==
    /\ fan[s].job = "line" /\ fan[s].todo = {}
    /\ fan' = [fan EXCEPT ![s] = NoFan]
    /\ IF s = Upstream
       THEN inbox' = Append(inbox, fan[s].n) /\ UNCHANGED <<stored, pc>>
       ELSE stored' = stored \cup {fan[s].n} /\ GoTo(s, Again(s)) /\ UNCHANGED inbox
    /\ UNCHANGED <<serverVars, clients, connVars, upVars, lines, seenVars, heardVars>>

(* A mutant: the line is stored under the number that follows.             *)
StoreNext ==
    /\ inbox # <<>> /\ stop = "idle"
    /\ stored' = stored \cup {Head(inbox) + 1} /\ inbox' = Tail(inbox)
    /\ UNCHANGED <<serverVars, clients, pc, connVars, fan, upVars, lines, seenVars, heardVars>>

(* Agent.handle publishes the message, and its subscriber stores it.       *)
Store ==
    /\ inbox # <<>> /\ stop = "idle"
    /\ stored' = stored \cup {Head(inbox)} /\ inbox' = Tail(inbox)
    /\ UNCHANGED <<serverVars, clients, pc, connVars, fan, upVars, lines, seenVars, heardVars>>

(* onUpstreamStateChange takes its snapshot: broadcastChannelNotice.  The copy
   for the service buffer goes with the notice of the channel.             *)
StartNotice(s) ==
    /\ fan[s].job \in {"announceDown", "announceUp"}
    /\ fan' = [fan EXCEPT ![s] = [job |-> IF @.job = "announceUp" THEN "up" ELSE "down",
                                  n |-> @.n, todo |-> clients]]
    /\ UNCHANGED <<serverVars, clients, pc, connVars, upVars, storeVars, seenVars, heardVars>>

NoticeDone(s) ==
    /\ fan[s].job \in {"down", "up"} /\ fan[s].todo = {}
    /\ fan' = [fan EXCEPT ![s] = NoFan]
    /\ UNCHANGED <<serverVars, clients, pc, connVars, upVars, storeVars, seenVars, heardVars>>

-----------------------------------------------------------------------------
(* The upstream.                                                           *)

(* What onUpstreamStateChange makes of a change: nothing of one between states
   that are not registered, nor of one from connecting to registered.      *)
Announcement(from, to) ==
    IF from = "registered" /\ to # "registered" THEN "announceDown"
    ELSE IF from = "disconnected" /\ to = "registered" THEN "announceUp"
    ELSE "none"

(* Transition, on the thread s: the state changes, then the subscriber is
   called.                                                                 *)
Publish(s, to) ==
    /\ ~Busy(s)
    /\ machine' = to
    /\ outage' = IF machine = "registered" /\ to # "registered" THEN outage + 1 ELSE outage
    /\ outage' <= bound.outages
    /\ fan' = [fan EXCEPT ![s] = IF Announcement(machine, to) = "none" THEN NoFan
                     ELSE [job |-> Announcement(machine, to), n |-> outage', todo |-> {}]]
    /\ UNCHANGED <<serverVars, clients, pc, connVars, storeVars, seenVars, heardVars>>

(* The supervisor publishes what it does, whatever the state has become.   *)
Dial == session = "away" /\ stop = "idle" /\ session' = "dial" /\ Publish(Upstream, "connecting")
Registered == session = "dial" /\ session' = "up" /\ Publish(Upstream, "registered")
Lose == session # "away" /\ session' = "away" /\ Publish(Upstream, "disconnected")

(* Suspend publishes from its caller's thread.                             *)
Suspend ==
    /\ bound.suspend /\ machine # "disconnected"
    /\ UNCHANGED session
    /\ Publish(Control, "disconnected")

-----------------------------------------------------------------------------
(* The clients at the other end.                                           *)

PeerTurns(c, from, to) ==
    /\ pc[c] # "gone" /\ c \notin bound.plain /\ peer[c] \in from
    /\ peer' = [peer EXCEPT ![c] = to]
    /\ UNCHANGED <<serverVars, clients, pc, sock, auth, caps, deferred, fan, upVars, storeVars,
                   seenVars, heardVars>>

Stall(c) == PeerTurns(c, {"up"}, "stalled")
Recover(c) == PeerTurns(c, {"stalled"}, "up")
Vanish(c) == PeerTurns(c, {"up", "stalled"}, "gone")

-----------------------------------------------------------------------------
(* Stop.                                                                   *)

UnchangedByStop ==
    UNCHANGED <<bound, listening, pc, peer, auth, caps, deferred, fan, upVars, storeVars,
                seenVars, heardVars>>

(* The context Start was given ends: an operator's shutdown.               *)
ParentEnds ==
    /\ ~cancelled /\ cancelled' = TRUE
    /\ UNCHANGED <<accepting, stop, closing, clients, sock>>
    /\ UnchangedByStop

(* Stop is called when the session and the agent have ended: Agent.Run.     *)
StopBegins ==
    /\ session = "away" /\ ~Busy(Upstream)
    /\ stop = "idle" /\ stop' = "cancel"
    /\ closing' = clients /\ clients' = {}
    /\ UNCHANGED <<accepting, cancelled, sock>>
    /\ UnchangedByStop

StopCancels ==
    /\ stop = "cancel" /\ stop' = "close" /\ cancelled' = TRUE
    /\ UNCHANGED <<accepting, closing, clients, sock>>
    /\ UnchangedByStop

StopCloses(c) ==
    /\ stop = "close" /\ c \in closing
    /\ closing' = closing \ {c}
    /\ sock' = [sock EXCEPT ![c] = FALSE]
    /\ UNCHANGED <<accepting, cancelled, stop, clients>>
    /\ UnchangedByStop

(* The listener is closed, and Stop waits.                                 *)
StopListener ==
    /\ stop = "close" /\ closing = {} /\ stop' = "waiting"
    /\ UNCHANGED <<accepting, cancelled, closing, clients, sock>>
    /\ UnchangedByStop

(* Accept fails; a connection that was accepted is handed over first.      *)
AcceptLoopEnds ==
    /\ accepting /\ stop = "waiting" /\ \A c \in Client : pc[c] \notin {"accepted", "added"}
    /\ accepting' = FALSE
    /\ UNCHANGED <<cancelled, stop, closing, clients, sock>>
    /\ UnchangedByStop

(* wg.Wait: the accept loop and every handler that was counted.            *)
StopReturns ==
    /\ stop = "waiting" /\ ~accepting
    /\ \A c \in Client : pc[c] \notin Handling
    /\ stop' = "returned"
    /\ UNCHANGED <<accepting, cancelled, closing, clients, sock>>
    /\ UnchangedByStop

-----------------------------------------------------------------------------
Handler(c) ==
    \/ Attach(c) \/ StartHandler(c) \/ Surface(c) \/ Tell(c) \/ Replay(c)
    \/ SendUpstream(c) \/ SendFails(c) \/ Exit(c)

Reads(c) == PassAccepted(c) \/ PassRefused(c) \/ CapStart(c) \/ CapEnd(c) \/ OtherLine(c)
            \/ Message(c)

Fan(s) ==
    \/ \E c \in Client : PassOver(s, c) \/ Write(s, c) \/ WriteFails(s, c)
    \/ LineDone(s) \/ StartNotice(s) \/ NoticeDone(s)

Stopping == StopCancels \/ (\E c \in Client : StopCloses(c)) \/ StopListener \/ AcceptLoopEnds
            \/ StopReturns

Next ==
    \/ \E c \in Client :
        \/ Accept(c) \/ ServeConn(c) \/ Handler(c) \/ Reads(c) \/ ReadFails(c)
        \/ Stall(c) \/ Recover(c) \/ Vanish(c)
    \/ \E s \in Sender : Fan(s)
    \/ Dispatch \/ Store \/ Dial \/ Registered \/ Lose \/ Suspend
    \/ ParentEnds \/ StopBegins \/ Stopping

Spec == Init /\ [][Next]_vars

(* The program's threads go on; a read or a write that can only fail does so
   at its deadline; nothing is asked of clients or of the network.         *)
Fairness ==
    /\ \A c \in Client : WF_vars(Handler(c)) /\ WF_vars(ReadFails(c))
    /\ \A s \in Sender : WF_vars(Fan(s))
    /\ WF_vars(Store) /\ WF_vars(Stopping)

FairSpec == Spec /\ Fairness

-----------------------------------------------------------------------------
(* Type correctness.                                                       *)
TypeOK ==
    /\ bound \in Bounds /\ listening \in BOOLEAN /\ accepting \in BOOLEAN /\ cancelled \in BOOLEAN
    /\ stop \in {"idle", "cancel", "close", "waiting", "returned"}
    /\ closing \subseteq Client /\ clients \subseteq Client
    /\ pc \in [Client -> Places]
    /\ sock \in [Client -> BOOLEAN] /\ peer \in [Client -> {"up", "stalled", "gone"}]
    /\ auth \in [Client -> BOOLEAN] /\ caps \in [Client -> {"none", "open", "done"}]
    /\ deferred \in [Client -> BOOLEAN] /\ seen \in [Client -> Nat]
    /\ fan \in [Sender -> FanOuts]
    /\ session \in {"away", "dial", "up"} /\ machine \in Machine
    /\ inbox \in Seq(1..lines) /\ stored \subseteq 1..lines /\ lines \in Nat
    /\ outage \in Nat
    /\ got \in [Client -> SUBSET (1..lines)] /\ replayed \in [Client -> SUBSET (1..lines)]
    /\ gap \in [Client -> SUBSET (1..lines)]
    /\ told \in [Client -> Nat]
    /\ welcomed \in [Client -> BOOLEAN] /\ lost \in [Client -> BOOLEAN]

(* A welcomed client to which no write has failed has been sent live or
   replayed every line, but for those it was passed over for just before it
   authenticated and that were still on their way to the store: Broadcast,
   sendWelcome and the store agree although no lock is held over them.     *)
NothingMissed ==
    \A c \in Client : welcomed[c] /\ ~lost[c] /\ stop = "idle" =>
        \A n \in 1..lines : n \in got[c] \cup replayed[c] \cup gap[c] \/ Pending(c, n)

(* While the upstream is not registered, a welcomed client to which no write
   has failed has been told of this outage, by its welcome or by the notice,
   once the notices under way have reached it.                             *)
OutageIsAnnounced ==
    \A c \in Client :
        /\ welcomed[c] /\ ~lost[c] /\ stop = "idle" /\ machine # "registered"
        /\ \A s \in Sender : /\ fan[s].job # "announceDown"
                             /\ fan[s].job = "down" => c \notin fan[s].todo
        => told[c] = outage

(* With a listener of its own, Stop returns when no handler is left and none
   can start.                                                              *)
StopWaits == listening /\ stop = "returned" => \A c \in Client : pc[c] = "gone"

(* A client that has vanished without a word is let go.                    *)
DeadIsReaped == \A c \in Client : (pc[c] # "gone" /\ peer[c] = "gone") ~> pc[c] = "gone"

=============================================================================
