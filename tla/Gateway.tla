------------------------------ MODULE Gateway ------------------------------
(***************************************************************************)
(* The web gateway (src/internal/web/gateway.go): the browser sessions of  *)
(* one agent, what they are shown on attaching, the broadcasts that reach  *)
(* them, what they say, and the end of them all: a browser that leaves,    *)
(* the shutdown of an idle gateway, and Stop.                              *)
(*                                                                         *)
(* Threads: a handler per session (handleWS), whose place is place[c]; the *)
(* publishers of server notices and of the upstream link's state, and each *)
(* handler when it publishes what was said, all of which broadcast; the    *)
(* idle timer; the goroutine that shuts the server down.                   *)
(*                                                                         *)
(* A session is used for one connection.  What is published is a pair of   *)
(* its kind and its number.                                                *)
(***************************************************************************)
EXTENDS Naturals, Sequences

CONSTANTS
    Client,        \* browser sessions
    serverLogCap,  \* the ring of server notices
    Bounds         \* the instances: who attaches, and how often what happens

ASSUME ClientAssumption == Client \cap {"notice", "message", "state"} = {}
ASSUME CapAssumption == serverLogCap \in Nat \ {0}
ASSUME BoundsAssumption ==
    Bounds \subseteq [clients : SUBSET Client, notice : Nat, message : Nat,
                      changes : Nat, says : Nat, asks : Nat,
                      idle : BOOLEAN, stop : BOOLEAN]

Kind == {"notice", "message"}       \* server notices, and every other event
Publisher == Kind \cup {"state"}
Broadcaster == Publisher \cup Client
Link == {"registered", "down"}

VARIABLES
    bounds,     \* the instance: idle says whether a callback is configured
    place,      \* where the handler of each session is
    socket,     \* open, stalled (the browser does not read) or closed
    clients,    \* Gateway.clients
    empty,      \* the session was the last one when it was removed
    read,       \* the upstream state a handler has read to show it
    shown,      \* the upstream state the browser shows
    raced,      \* history: a change was delivered between those two
    replay,     \* what a handler has copied from the ring or the store
    skipped,    \* history: what was published and was not there to be copied
    got,        \* what a browser has
    reply,      \* what became of the last message a session said
    says,       \* messages said so far
    job,        \* a summary or a fetched page that a session asked for
    asks,       \* and how many were asked for
    published,  \* the number of publications of each kind
    serverLog, stored,    \* the ring, and the messages the store has
    link, changes,        \* the upstream state machine, and its changes
    subscribed, \* the gateway listens to the state machine
    phase, left, late,    \* a broadcast: its place, whom it has yet to reach,
                          \* and whether its deadline has passed
    timer,      \* the idle timer runs
    expired,    \* idle timers that ran out and have not looked yet
    idle,       \* OnIdleShutdown was called
    stop        \* running, stopping, closed

handlerVars == <<place, empty, read, replay, skipped>>
browserVars == <<shown, raced, got>>
sayVars == <<reply, says, job, asks>>
logVars == <<published, serverLog, stored>>
sourceVars == <<logVars, link, changes>>
Items(k) == {<<k, n>> : n \in 1..published[k]}

castVars == <<phase, left, late>>
idleVars == <<bounds, timer, expired, idle>>
vars == <<handlerVars, socket, clients, browserVars, sayVars, sourceVars,
          subscribed, castVars, idleVars, stop>>

HandlerPlaces == {"away", "verified", "registered", "attaching", "showing",
                  "copying", "replaying", "fetching", "streaming", "reading",
                  "forwarding", "echoing", "rejecting", "leaving", "removed",
                  "gone"}

TypeOK ==
    /\ bounds \in Bounds
    /\ place \in [Client -> HandlerPlaces]
    /\ socket \in [Client -> {"open", "stalled", "closed"}]
    /\ clients \subseteq Client
    /\ empty \in [Client -> BOOLEAN]
    /\ read \in [Client -> Link] /\ shown \in [Client -> Link \cup {"none"}]
    /\ raced \in [Client -> BOOLEAN]
    /\ published \in [Kind -> Nat] /\ stored \in 0..published["message"]
    /\ \A f \in {replay, got, skipped} :
          f \in [Client -> SUBSET (Items("notice") \cup Items("message"))]
    /\ reply \in [Client -> {"none", "due", "echo", "rejected"}]
    /\ job \in [Client -> {"none", "working", "answered", "lost"}]
    /\ says \in Nat /\ asks \in Nat
    /\ serverLog \in Seq(Items("notice")) /\ Len(serverLog) <= serverLogCap
    /\ link \in Link /\ changes \in Nat /\ subscribed \in BOOLEAN
    /\ phase \in [Broadcaster -> {"none", "copy", "send"}]
    /\ left \in [Broadcaster -> SUBSET Client]
    /\ late \in [Broadcaster -> BOOLEAN]
    /\ timer \in BOOLEAN /\ expired \in Nat /\ idle \in BOOLEAN
    /\ stop \in {"running", "stopping", "closed"}

(* New and Subscribe.                                                      *)
Init ==
    /\ bounds \in Bounds
    /\ place = [c \in Client |-> "away"] /\ socket = [c \in Client |-> "closed"]
    /\ clients = {} /\ empty = [c \in Client |-> FALSE]
    /\ read = [c \in Client |-> "down"] /\ shown = [c \in Client |-> "none"]
    /\ raced = [c \in Client |-> FALSE]
    /\ replay = [c \in Client |-> {}] /\ got = [c \in Client |-> {}]
    /\ skipped = [c \in Client |-> {}]
    /\ reply = [c \in Client |-> "none"] /\ says = 0
    /\ job = [c \in Client |-> "none"] /\ asks = 0
    /\ published = [k \in Kind |-> 0] /\ serverLog = <<>> /\ stored = 0
    /\ link \in Link /\ changes = 0 /\ subscribed = TRUE
    /\ phase = [b \in Broadcaster |-> "none"]
    /\ left = [b \in Broadcaster |-> {}] /\ late = [b \in Broadcaster |-> FALSE]
    /\ timer = FALSE /\ expired = 0 /\ idle = FALSE
    /\ stop = "running"

At(c, p) == place[c] = p
GoTo(c, p) == place' = [place EXCEPT ![c] = p]
othersVars == <<sayVars, sourceVars, subscribed, castVars, idleVars, stop>>

-----------------------------------------------------------------------------
(* Frames.                                                                 *)

(* sendTo of a handler, which has no deadline: it waits while the browser does
   not read.  A session whose write fails is removed, and nothing more.     *)
Delivers(c) == socket[c] = "open"
Strikes(c) == clients' = IF Delivers(c) THEN clients ELSE clients \ {c}
Writable(c) == socket[c] # "stalled"

-----------------------------------------------------------------------------
(* handleWS.                                                               *)

(* The token is verified, unless the address is locked out; the server must
   still accept connections.                                               *)
Verify(c) ==
    /\ At(c, "away") /\ stop = "running" /\ c \in bounds.clients
    /\ GoTo(c, "verified")
    /\ socket' = [socket EXCEPT ![c] = "open"]
    /\ UNCHANGED <<clients, empty, read, replay, skipped, browserVars, othersVars>>

Refuse(c) ==
    /\ \/ At(c, "away") /\ stop = "running" /\ c \in bounds.clients
       \/ At(c, "verified")                 \* the upgrade fails
    /\ GoTo(c, "gone")
    /\ socket' = [socket EXCEPT ![c] = "closed"]
    /\ UNCHANGED <<clients, empty, read, replay, skipped, browserVars, othersVars>>

(* The socket is upgraded and the session takes part in broadcasts, ...    *)
Register(c) ==
    /\ At(c, "verified")
    /\ GoTo(c, "registered")
    /\ clients' = clients \cup {c}
    /\ UNCHANGED <<socket, empty, read, replay, skipped, browserVars, othersVars>>

(* ... the idle timer is cancelled, ...                                    *)
CancelIdleTimer(c) ==
    /\ At(c, "registered")
    /\ GoTo(c, "attaching")
    /\ timer' = FALSE
    /\ UNCHANGED <<socket, clients, empty, read, replay, skipped, browserVars,
                   sayVars, sourceVars, subscribed, castVars, bounds, expired, idle, stop>>

(* ... the channels are sent and the upstream state is read, ...            *)
ReadState(c) ==
    /\ At(c, "attaching") /\ Writable(c)
    /\ Strikes(c)
    /\ read' = [read EXCEPT ![c] = link]
    /\ raced' = [raced EXCEPT ![c] = FALSE]
    /\ GoTo(c, "showing")
    /\ UNCHANGED <<socket, empty, replay, skipped, shown, got, othersVars>>

ShowNothing(c) ==
    /\ At(c, "showing")
    /\ GoTo(c, "copying")
    /\ UNCHANGED <<socket, clients, empty, read, replay, skipped, browserVars, othersVars>>

(* ... and sent, ...                                                       *)
ShowState(c) ==
    /\ At(c, "showing") /\ Writable(c)
    /\ Strikes(c)
    /\ shown' = IF Delivers(c) THEN [shown EXCEPT ![c] = read[c]] ELSE shown
    /\ GoTo(c, "copying")
    /\ UNCHANGED <<socket, empty, read, replay, skipped, raced, got, othersVars>>

(* ... the ring is copied, ...                                             *)
CopyLog(c) ==
    /\ At(c, "copying")
    /\ LET log == {serverLog[i] : i \in DOMAIN serverLog}
       IN /\ replay' = [replay EXCEPT ![c] = log]
          /\ skipped' = [skipped EXCEPT ![c] = Items("notice") \ log]
    /\ GoTo(c, "replaying")
    /\ UNCHANGED <<socket, clients, empty, read, browserVars, othersVars>>

(* ... and replayed; then the history of the channels is fetched ...        *)
FetchHistory(c) ==
    /\ At(c, "fetching")
    /\ LET history == {<<"message", n>> : n \in 1..stored}
       IN /\ replay' = [replay EXCEPT ![c] = history]
          /\ skipped' = [skipped EXCEPT ![c] = @ \cup (Items("message") \ history)]
    /\ GoTo(c, "streaming")
    /\ UNCHANGED <<socket, clients, empty, read, browserVars, othersVars>>

(* ... and sent, and the handler reads what the browser has to say.         *)
Replay(c) ==
    /\ At(c, "replaying") \/ At(c, "streaming")
    /\ Writable(c)
    /\ Strikes(c)
    /\ got' = IF Delivers(c) THEN [got EXCEPT ![c] = @ \cup replay[c]] ELSE got
    /\ replay' = [replay EXCEPT ![c] = {}]
    /\ GoTo(c, IF At(c, "replaying") THEN "fetching" ELSE "reading")
    /\ UNCHANGED <<socket, empty, read, skipped, shown, raced, othersVars>>

(* The read loop ends when the socket is closed.                           *)
ReadFails(c) ==
    /\ At(c, "reading") /\ socket[c] = "closed"
    /\ GoTo(c, "leaving")
    /\ UNCHANGED <<socket, clients, empty, read, replay, skipped, browserVars, othersVars>>

Remove(c) ==
    /\ At(c, "leaving")
    /\ clients' = clients \ {c}
    /\ empty' = [empty EXCEPT ![c] = clients \ {c} = {}]
    /\ GoTo(c, "removed")
    /\ UNCHANGED <<socket, read, replay, skipped, browserVars, othersVars>>

(* scheduleIdleShutdown, when the session was the last one: it replaces the
   timer that runs.                                                        *)
ScheduleIdleShutdown(c) ==
    /\ At(c, "removed")
    /\ timer' = (timer \/ (empty[c] /\ bounds.idle))
    /\ empty' = [empty EXCEPT ![c] = FALSE]
    /\ GoTo(c, "gone")
    /\ UNCHANGED <<socket, clients, read, replay, skipped, browserVars, sayVars,
                   sourceVars, subscribed, castVars, bounds, expired, idle, stop>>

-----------------------------------------------------------------------------
(* dispatchInbound: a message is said.                                     *)

sayRest == <<empty, read, replay, skipped, browserVars, sourceVars, subscribed,
             idleVars, stop>>

(* It is refused unless the link is registered, or when it is throttled; ...*)
Say(c) ==
    /\ At(c, "reading") /\ socket[c] # "closed" /\ says < bounds.says
    /\ says' = says + 1
    /\ reply' = [reply EXCEPT ![c] = "due"]
    /\ \/ link = "registered" /\ GoTo(c, "forwarding")
       \/ GoTo(c, "rejecting")
    /\ UNCHANGED <<socket, clients, job, asks, castVars, sayRest>>

(* ... it is sent upstream, or cannot be; what was sent is published, and the
   handler broadcasts it to every session, its own included.               *)
Forward(c) ==
    /\ At(c, "forwarding")
    /\ \/ /\ GoTo(c, "echoing")
          /\ phase' = [phase EXCEPT ![c] = "copy"]
       \/ GoTo(c, "rejecting") /\ UNCHANGED phase
    /\ UNCHANGED <<socket, clients, sayVars, left, late, sayRest>>

Reject(c) ==
    /\ At(c, "rejecting") /\ Writable(c)
    /\ Strikes(c)
    /\ reply' = IF Delivers(c) THEN [reply EXCEPT ![c] = "rejected"] ELSE reply
    /\ GoTo(c, "reading")
    /\ UNCHANGED <<socket, says, job, asks, castVars, sayRest>>

Echoed(c) ==
    /\ At(c, "echoing") /\ phase[c] = "none"
    /\ GoTo(c, "reading")
    /\ UNCHANGED <<socket, clients, sayVars, castVars, sayRest>>

(* A page of history is fetched and sent.                                  *)
History(c) ==
    /\ At(c, "reading") /\ socket[c] # "closed" /\ asks < bounds.asks
    /\ asks' = asks + 1
    /\ GoTo(c, "streaming")
    /\ replay' = [replay EXCEPT ![c] = {<<"message", n>> : n \in 1..stored}]
    /\ UNCHANGED <<socket, clients, empty, read, skipped, browserVars, reply, says,
                   job, sourceVars, subscribed, castVars, idleVars, stop>>

(* A summary of a channel or of a page is asked for: the browser is told that
   it is under way, or why not.                                            *)
Ask(c) ==
    /\ At(c, "reading") /\ socket[c] = "open" /\ asks < bounds.asks
    /\ asks' = asks + 1
    /\ job' \in {job, [job EXCEPT ![c] = "working"]}
    /\ UNCHANGED <<place, socket, clients, reply, says, castVars, sayRest>>

(* The goroutine that works on it outlives the handler.  It has a deadline of its
   own: a browser that does not read until then is disconnected.           *)
Answer(c) ==
    /\ job[c] = "working"
    /\ job' = [job EXCEPT ![c] = IF Delivers(c) THEN "answered" ELSE "lost"]
    /\ socket' = IF Delivers(c) THEN socket ELSE [socket EXCEPT ![c] = "closed"]
    /\ Strikes(c)
    /\ UNCHANGED <<place, reply, says, asks, castVars, sayRest>>

Handler(c) ==
    \/ Register(c) \/ CancelIdleTimer(c) \/ ReadState(c) \/ ShowState(c)
    \/ CopyLog(c) \/ FetchHistory(c) \/ Replay(c) \/ ReadFails(c) \/ Remove(c)
    \/ ScheduleIdleShutdown(c) \/ Forward(c) \/ Reject(c) \/ Echoed(c)

-----------------------------------------------------------------------------
(* Broadcasts.                                                             *)

castRest == <<handlerVars, sayVars, subscribed, idleVars, stop>>

PublishUntrimmed ==
    serverLog' = Append(serverLog, <<"notice", published["notice"] + 1>>)

(* onServerNotice: the ring comes first.                                   *)
PublishNotice ==
    LET log == Append(serverLog, <<"notice", published["notice"] + 1>>)
        over == IF Len(log) > serverLogCap THEN Len(log) - serverLogCap ELSE 0
    IN serverLog' = SubSeq(log, over + 1, Len(log))

(* The other events (onMessage, onUserJoin, ...) are broadcast as they come. *)
Publish(k) ==
    /\ phase[k] = "none" /\ published[k] < bounds[k]
    /\ published' = [published EXCEPT ![k] = @ + 1]
    /\ IF k = "notice" THEN PublishNotice ELSE UNCHANGED serverLog
    /\ phase' = [phase EXCEPT ![k] = "copy"]
    /\ UNCHANGED <<socket, clients, browserVars, stored, link, changes, left, late,
                   castRest>>

(* The message sink writes what was said, some time later.                 *)
Store ==
    /\ stored < published["message"]
    /\ stored' = stored + 1
    /\ UNCHANGED <<socket, clients, browserVars, published, serverLog, link, changes,
                   castVars, castRest>>

(* A transition of the state machine, whose subscriber broadcasts it.       *)
Transition ==
    /\ phase["state"] = "none" /\ changes < bounds.changes
    /\ changes' = changes + 1
    /\ link' \in Link \ {link}
    /\ phase' = IF subscribed THEN [phase EXCEPT !["state"] = "copy"] ELSE phase
    /\ UNCHANGED <<socket, clients, browserVars, logVars, left, late, castRest>>

(* broadcast copies the sessions and gives all of them one second.          *)
CopyClients(b) ==
    /\ phase[b] = "copy"
    /\ left' = [left EXCEPT ![b] = clients]
    /\ late' = [late EXCEPT ![b] = FALSE]
    /\ phase' = [phase EXCEPT ![b] = "send"]
    /\ UNCHANGED <<socket, clients, browserVars, sourceVars, castRest>>

LearnsWhenAttached(b, c) ==
    /\ got' = IF b \in Kind /\ At(c, "reading")
              THEN [got EXCEPT ![c] = @ \cup {<<b, published[b]>>}] ELSE got
    /\ shown' = IF b = "state" THEN [shown EXCEPT ![c] = link] ELSE shown
    /\ raced' = IF b = "state" THEN [raced EXCEPT ![c] = At(c, "showing")] ELSE raced
    /\ reply' = IF b = c THEN [reply EXCEPT ![c] = "echo"] ELSE reply

(* What the browser c learns from a broadcast of b.                        *)
Learns(b, c) ==
    /\ got' = IF b \in Kind THEN [got EXCEPT ![c] = @ \cup {<<b, published[b]>>}]
                             ELSE got
    /\ shown' = IF b = "state" THEN [shown EXCEPT ![c] = link] ELSE shown
    /\ raced' = IF b = "state" THEN [raced EXCEPT ![c] = At(c, "showing")] ELSE raced
    /\ reply' = IF b = c THEN [reply EXCEPT ![c] = "echo"] ELSE reply

(* The write succeeds; or the browser does not read, the second is over and the
   socket is closed; or the socket was closed; or the second was over before,
   and the socket may stay open.  A session whose write failed is removed.  *)
SendTo(b, c) ==
    /\ phase[b] = "send" /\ c \in left[b]
    /\ left' = [left EXCEPT ![b] = @ \ {c}]
    /\ \/ /\ socket[c] = "open" /\ ~late[b]
          /\ Learns(b, c)
          /\ UNCHANGED <<socket, clients, late>>
       \/ /\ socket[c] # "open" \/ late[b]
          /\ clients' = clients \ {c}
          /\ socket' \in {[socket EXCEPT ![c] = "closed"]}
                         \cup (IF late[b] THEN {socket} ELSE {})
          /\ late' = [late EXCEPT ![b] = @ \/ socket[c] = "stalled"]
          /\ UNCHANGED <<browserVars, reply>>
    /\ UNCHANGED <<phase, handlerVars, says, job, asks, sourceVars, subscribed, idleVars, stop>>

CastDone(b) ==
    /\ phase[b] = "send" /\ left[b] = {}
    /\ phase' = [phase EXCEPT ![b] = "none"]
    /\ late' = [late EXCEPT ![b] = FALSE]
    /\ UNCHANGED <<socket, clients, browserVars, sourceVars, left, castRest>>

Broadcast(b) == CopyClients(b) \/ (\E c \in Client : SendTo(b, c)) \/ CastDone(b)

-----------------------------------------------------------------------------
(* The idle timer and Stop.                                                *)

stopRest == <<handlerVars, browserVars, sayVars, sourceVars, castVars>>

TimerExpires ==
    /\ timer
    /\ timer' = FALSE
    /\ expired' = expired + 1
    /\ UNCHANGED <<socket, clients, stopRest, subscribed, bounds, idle, stop>>

LookForClients ==
    /\ expired > 0
    /\ expired' = expired - 1
    /\ idle' = (idle \/ clients = {})
    /\ UNCHANGED <<socket, clients, stopRest, subscribed, bounds, timer, stop>>

(* Stop: the timer and the subscription are cancelled, and the server's context. *)
Stop ==
    /\ stop = "running" /\ bounds.stop
    /\ stop' = "stopping"
    /\ timer' = FALSE /\ subscribed' = FALSE
    /\ UNCHANGED <<socket, clients, stopRest, bounds, expired, idle>>

ForgetAllClients ==
    /\ stop = "stopping"
    /\ stop' = "closed"
    /\ clients' = {}
    /\ UNCHANGED <<socket, stopRest, subscribed, idleVars>>

(* The server waits for the requests that were not upgraded yet, for two seconds
   at most; then closeAllClients closes the sessions it knows.             *)
CloseAllClients ==
    /\ stop = "stopping"
    /\ stop' = "closed"
    /\ socket' = [c \in Client |-> IF c \in clients THEN "closed" ELSE socket[c]]
    /\ clients' = {}
    /\ UNCHANGED <<stopRest, subscribed, idleVars>>

-----------------------------------------------------------------------------
(* The browsers.                                                           *)

Stall(c) ==
    /\ socket[c] = "open"
    /\ socket' = [socket EXCEPT ![c] = "stalled"]
    /\ UNCHANGED <<clients, handlerVars, browserVars, othersVars>>

HangUp(c) ==
    /\ socket[c] # "closed" /\ ~At(c, "verified")
    /\ socket' = [socket EXCEPT ![c] = "closed"]
    /\ UNCHANGED <<clients, handlerVars, browserVars, othersVars>>

Next ==
    \/ \E c \in Client : Verify(c) \/ Refuse(c) \/ Handler(c)
                         \/ Say(c) \/ History(c) \/ Ask(c) \/ Answer(c)
                         \/ Stall(c) \/ HangUp(c)
    \/ (\E k \in Kind : Publish(k)) \/ Store \/ Transition
    \/ \E b \in Broadcaster : Broadcast(b)
    \/ TimerExpires \/ LookForClients \/ Stop \/ CloseAllClients

(* The gateway's goroutines go on.  Nothing is assumed of the browsers, of the
   sources or of the operator; a browser that does not read holds its handler. *)
Fairness ==
    /\ \A c \in Client : WF_vars(Handler(c))
    /\ \A b \in Broadcaster : WF_vars(Broadcast(b))
    /\ WF_vars(TimerExpires) /\ WF_vars(LookForClients)
    /\ WF_vars(CloseAllClients)

Spec == Init /\ [][Next]_vars
FairSpec == Spec /\ Fairness

-----------------------------------------------------------------------------
(* Properties.                                                             *)

Attached(c) == place[c] \in {"reading", "forwarding", "echoing", "rejecting"}

Owed(b, c) == phase[b] = "copy" \/ (phase[b] = "send" /\ c \in left[b])

(* A session that has attached and takes part in broadcasts has everything that
   the ring and the store held when they were copied and everything published
   later, or is about to be sent it: there is no gap between the replay and the
   broadcasts but for what was still on its way to the store.               *)
NoGap ==
    \A c \in clients : Attached(c) =>
        \A k \in Kind : \A e \in Items(k) \ skipped[c] :
            e \in got[c] \/ (e = <<k, published[k]>> /\ Owed(k, c))

(* The state a session shows is the present one, or it is about to be sent it,
   unless it changed between the reading and the sending of the first one.  *)
StateIsShown ==
    \A c \in clients : Attached(c) /\ subscribed =>
        shown[c] = link \/ Owed("state", c) \/ raced[c]

(* A session the gateway knows when closeAllClients comes to it ends, whether its
   handler reads, writes to a browser that does not read, or still attaches. *)
KnownToTheEnd(c) == stop = "stopping" => c \in clients
StopEndsSessions ==
    \A c \in Client :
        [](stop = "stopping" /\ []KnownToTheEnd(c) => <>At(c, "gone"))

=============================================================================
