------------------------------ MODULE ChatAgent ------------------------------
(***************************************************************************)
(* An agent with one chat connector: Agent.Run with its drain loop         *)
(* (src/internal/agent/agent.go) and a connector that is the hosted web    *)
(* chat, Discord, Slack or Telegram (src/internal/connector).              *)
(*                                                                         *)
(* Threads: Agent.Run; the connector's Run; drain; a poster per browser    *)
(* session or per handler of the platform's library, whose place is        *)
(* place[p]; the detached goroutines that answer a free-text message of    *)
(* the web chat; whoever calls Suspend and Resume.  Slack's events come    *)
(* from one goroutine and Telegram's from Run itself: the poster Loop.     *)
(*                                                                         *)
(* A message is its number.  A broadcast is one step; that a slow browser  *)
(* is cut off in the middle of one is modelled in Gateway.                 *)
(***************************************************************************)
EXTENDS Naturals, Sequences

CONSTANTS
    Poster, Loop,   \* threads that bring messages, and the one of a loop
    InboxCap,       \* capacity of the inbox
    replyRefCap,    \* native ids kept for threaded replies
    Bounds          \* the instances

Kinds == {"web", "discord", "slack", "telegram"}

ASSUME LoopAssumption == Loop \in Poster
ASSUME CapsAssumption == InboxCap \in Nat \ {0} /\ replyRefCap \in Nat \ {0}
ASSUME BoundsAssumption ==
    Bounds \subseteq [kind : Kinds, posters : SUBSET Poster, suspended : BOOLEAN,
                      says : Nat, presses : Nat, ends : BOOLEAN]

VARIABLES
    bounds,      \* the instance
    agent,       \* Agent.Run: starting, running, stopping, returned, failed
    cancelled,   \* the context of the group is done
    run,         \* where the connector's Run (or its Start) is
    drain,       \* where drain is
    current,     \* the message drain handles, 0 if none
    link,        \* the connector holds an open session, or a client
    token,       \* lifecycleCh holds a signal
    suspended, state,
    ctl, presses,         \* the place in Suspend or Resume, and calls so far
    closed,      \* Stop was called and done is closed
    place, carries,       \* a poster's place and its message, 0 if none
    said, author,         \* messages so far and who brought each
    inbox,
    refRing,     \* messages whose native id is kept, oldest first
    clients, socket,      \* the web chat's sessions and their sockets
    frames,      \* what each browser was sent
    answer       \* the answer to each free-text message

lifeVars == <<link, token, suspended, state, ctl, presses>>
postVars == <<place, carries, said, author>>
webVars == <<clients, socket, frames, answer>>
agentVars == <<bounds, agent, cancelled>>
chatVars == <<agentVars, run, drain, current, lifeVars, closed, postVars, inbox,
              refRing, webVars>>

Kind == bounds.kind
Msg == 1..said
AnyMsg == UNION {1..b.says : b \in Bounds}
Frame == {"question", "start", "end", "reply"}

ChatTypeOK ==
    /\ bounds \in Bounds
    /\ agent \in {"starting", "running", "stopping", "returned", "failed"}
    /\ cancelled \in BOOLEAN
    /\ run \in {"start", "dial", "reopen", "opened", "installed", "select",
                "woken", "ended"}
    /\ drain \in {"none", "select", "handle", "send", "ended"}
    /\ current \in 0..said
    /\ link \in BOOLEAN /\ token \in BOOLEAN /\ suspended \in BOOLEAN
    /\ state \in {"connecting", "connected", "suspended", "error"}
    /\ ctl \in {"idle", "disconnect", "signal", "publish", "announce", "wake"}
    /\ presses \in Nat /\ closed \in BOOLEAN
    /\ place \in [Poster -> {"away", "open", "ready", "echo", "push", "leaving",
                             "gone"}]
    /\ said \in Nat /\ carries \in [Poster -> 0..said]
    /\ author \in [Msg -> Poster]
    /\ inbox \in Seq(Msg) /\ Len(inbox) <= InboxCap
    /\ refRing \in Seq(Msg) /\ Len(refRing) <= replyRefCap
    /\ clients \subseteq Poster
    /\ socket \in [Poster -> {"none", "open", "closed"}]
    /\ frames \in [Poster -> SUBSET (Frame \X Msg)]
    /\ answer \in [Msg -> {"none", "due", "streaming", "ended"}]

ChatInit ==
    /\ bounds \in Bounds
    /\ agent = "starting" /\ cancelled = FALSE
    /\ run = "start" /\ drain = "none" /\ current = 0
    /\ link = FALSE /\ token = FALSE
    /\ suspended = bounds.suspended
    /\ state = IF bounds.suspended THEN "suspended" ELSE "connecting"
    /\ ctl = "idle" /\ presses = 0 /\ closed = FALSE
    /\ place = [p \in Poster |-> IF Kind = "web" THEN "away" ELSE "ready"]
    /\ carries = [p \in Poster |-> 0]
    /\ said = 0 /\ author = <<>> /\ inbox = <<>> /\ refRing = <<>>
    /\ clients = {} /\ socket = [p \in Poster |-> "none"]
    /\ frames = [p \in Poster |-> {}] /\ answer = <<>>

-----------------------------------------------------------------------------
(* Start and Run of the connector.                                         *)

runRest == <<drain, current, suspended, ctl, presses, closed, postVars, inbox,
             refRing, webVars>>

(* Start: the web chat has nothing to dial, a suspended connector does not. *)
StartQuietly ==
    /\ run = "start" /\ (Kind = "web" \/ suspended)
    /\ run' = "select" /\ agent' = "running"
    /\ state' = IF Kind = "web" THEN "connected" ELSE "suspended"
    /\ UNCHANGED <<bounds, cancelled, link, token, runRest>>

(* connect begins, in Start or woken by a signal; Discord tries to open the
   session it already has.                                                 *)
Connect ==
    /\ ~suspended
    /\ \/ run = "start" /\ Kind # "web"
       \/ run = "woken"
    /\ run' = IF link THEN "reopen" ELSE "dial"
    /\ UNCHANGED <<agentVars, link, token, state, runRest>>

Dialled ==
    /\ run = "dial"
    /\ run' = "opened"
    /\ UNCHANGED <<agentVars, link, token, state, runRest>>

(* A failure in Start fails the agent, one in Run leaves the connector idle; a
   session that is open already cannot be opened.  Slack dials later, in Run.  *)
ConnectFails ==
    /\ (run = "dial" /\ Kind # "slack") \/ (run = "reopen" /\ link)
    /\ state' = "error"
    /\ \/ /\ agent = "starting"
          /\ agent' = "failed" /\ run' = "ended"
       \/ /\ agent # "starting"
          /\ run' = "select" /\ UNCHANGED agent
    /\ UNCHANGED <<bounds, cancelled, link, token, runRest>>

(* The session was closed by Suspend since connect looked: it is open again and
   nobody holds it.                                                        *)
Reopened ==
    /\ run = "reopen" /\ ~link
    /\ run' = "installed"
    /\ UNCHANGED <<agentVars, link, token, state, runRest>>

Install ==
    /\ run = "opened"
    /\ link' = TRUE /\ run' = "installed"
    /\ UNCHANGED <<agentVars, token, state, runRest>>

Connected ==
    /\ run = "installed"
    /\ state' = "connected"
    /\ run' = "select"
    /\ agent' = IF agent = "starting" THEN "running" ELSE agent
    /\ UNCHANGED <<bounds, cancelled, link, token, runRest>>

(* Run of Discord: a signal, after which the intent is read.               *)
Wake ==
    /\ run = "select" /\ agent = "running" /\ Kind = "discord" /\ token
    /\ token' = FALSE /\ run' = "woken"
    /\ UNCHANGED <<agentVars, link, state, runRest>>

Park ==
    /\ run = "woken" /\ suspended
    /\ link' = FALSE /\ run' = "select"
    /\ UNCHANGED <<agentVars, token, state, runRest>>

RunEndsWithLoop ==
    /\ run = "select" /\ agent = "running" /\ cancelled
    /\ place[Loop] = "ready"
    /\ run' = "ended"
    /\ UNCHANGED <<agentVars, link, token, state, runRest>>

(* Run returns when the context is done.  Telegram's Run is the loop that ingests:
   it must be back at its select.                                          *)
RunEnds ==
    /\ run = "select" /\ agent = "running" /\ cancelled
    /\ Kind = "telegram" => place[Loop] = "ready"
    /\ run' = "ended"
    /\ UNCHANGED <<agentVars, link, token, state, runRest>>

(* Slack's client gives up: the group's context is cancelled.              *)
RunFails ==
    /\ run = "select" /\ agent = "running" /\ Kind = "slack" /\ link
    /\ bounds.ends
    /\ run' = "ended" /\ cancelled' = TRUE
    /\ UNCHANGED <<bounds, agent, link, token, state, runRest>>

-----------------------------------------------------------------------------
(* Suspend and Resume.                                                     *)

ctlRest == <<agentVars, run, drain, current, closed, postVars, inbox, refRing, webVars>>

(* Slack and Telegram only note it.                                        *)
Press ==
    /\ ctl = "idle" /\ agent = "running" /\ Kind # "web"
    /\ presses < bounds.presses
    /\ presses' = presses + 1
    /\ suspended' = ~suspended
    /\ ctl' = CASE Kind = "discord" /\ suspended -> "announce"
                [] Kind = "discord" /\ ~suspended -> "disconnect"
                [] OTHER -> "publish"
    /\ UNCHANGED <<link, token, state, ctlRest>>

Disconnect ==
    /\ ctl = "disconnect"
    /\ link' = FALSE /\ ctl' = "signal"
    /\ UNCHANGED <<token, suspended, state, presses, ctlRest>>

Announce ==
    /\ ctl = "announce"
    /\ state' = "connecting" /\ ctl' = "wake"
    /\ UNCHANGED <<link, token, suspended, presses, ctlRest>>

SignalLifecycle ==
    /\ ctl \in {"signal", "wake"}
    /\ token' = TRUE
    /\ ctl' = IF ctl = "signal" THEN "publish" ELSE "idle"
    /\ UNCHANGED <<link, suspended, state, presses, ctlRest>>

PublishState ==
    /\ ctl = "publish"
    /\ state' = IF suspended THEN "suspended" ELSE "connected"
    /\ ctl' = "idle"
    /\ UNCHANGED <<link, token, suspended, presses, ctlRest>>

Control == Disconnect \/ Announce \/ SignalLifecycle \/ PublishState

-----------------------------------------------------------------------------
(* What browsers are sent.                                                 *)

(* broadcast and sendTo: a browser whose write fails is dropped.           *)
Reached == {c \in clients : socket[c] = "open"}

Casts(what, n) ==
    /\ clients' = Reached
    /\ frames' = [p \in Poster |-> IF p \in Reached THEN frames[p] \cup {<<what, n>>}
                                                   ELSE frames[p]]

-----------------------------------------------------------------------------
(* Posters.                                                                *)

postRest == <<agentVars, run, drain, current, lifeVars, closed>>

(* ServeWS: the token is verified and the socket upgraded, ...             *)
Upgrade(p) ==
    /\ Kind = "web" /\ place[p] = "away" /\ p \in bounds.posters
    /\ agent # "starting"
    /\ place' = [place EXCEPT ![p] = "open"]
    /\ socket' = [socket EXCEPT ![p] = "open"]
    /\ UNCHANGED <<postRest, carries, said, author, inbox, refRing, clients, frames,
                   answer>>

(* ... and unless the connector was stopped the session joins the room.     *)
Join(p) ==
    /\ place[p] = "open"
    /\ \/ /\ closed
          /\ socket' = [socket EXCEPT ![p] = "closed"]
          /\ place' = [place EXCEPT ![p] = "gone"]
          /\ UNCHANGED clients
       \/ /\ ~closed
          /\ clients' = clients \cup {p}
          /\ place' = [place EXCEPT ![p] = "ready"]
          /\ UNCHANGED socket
    /\ UNCHANGED <<postRest, carries, said, author, inbox, refRing, frames, answer>>

Delivers(p) ==
    CASE Kind = "web" -> socket[p] = "open"
      [] Kind = "discord" -> link
      [] Kind = "slack" -> p = Loop /\ link /\ ~suspended /\ run # "ended"
      [] Kind = "telegram" -> p = Loop /\ link /\ ~suspended /\ run = "select"

RememberedFewer(n) ==
    LET ring == Append(refRing, n)
    IN IF Len(ring) >= replyRefCap THEN Tail(ring) ELSE ring

RememberedMore(n) ==
    LET ring == Append(refRing, n)
    IN IF Len(ring) > replyRefCap + 1 THEN Tail(ring) ELSE ring

(* rememberRef: the ring drops the oldest.                                 *)
Remembered(n) ==
    LET ring == Append(refRing, n)
    IN IF Len(ring) > replyRefCap THEN Tail(ring) ELSE ring

IngestUnechoed(p) ==
    /\ place[p] = "ready" /\ Delivers(p) /\ said < bounds.says
    /\ agent = "running"
    /\ said' = said + 1
    /\ author' = Append(author, p) /\ answer' = Append(answer, "none")
    /\ carries' = [carries EXCEPT ![p] = said + 1]
    /\ place' = [place EXCEPT ![p] = "push"]
    /\ refRing' = IF Kind = "web" THEN refRing ELSE Remembered(said + 1)
    /\ UNCHANGED <<postRest, inbox, clients, socket, frames>>

(* A message comes: ingest, or the frame of handleSay.  It passes the checks, or
   it is none of the connector's and nothing happens.                      *)
Ingest(p) ==
    /\ place[p] = "ready" /\ Delivers(p) /\ said < bounds.says
    /\ agent = "running"
    /\ said' = said + 1
    /\ author' = Append(author, p) /\ answer' = Append(answer, "none")
    /\ carries' = [carries EXCEPT ![p] = said + 1]
    /\ place' = [place EXCEPT ![p] = IF Kind = "web" THEN "echo" ELSE "push"]
    /\ refRing' = IF Kind = "web" THEN refRing ELSE Remembered(said + 1)
    /\ UNCHANGED <<postRest, inbox, clients, socket, frames>>

(* handleSay: the message is echoed to every session, its own included, ... *)
Echo(p) ==
    /\ place[p] = "echo"
    /\ Casts("question", carries[p])
    /\ place' = [place EXCEPT ![p] = "push"]
    /\ UNCHANGED <<postRest, carries, said, author, inbox, refRing, socket, answer>>

(* ... and pushed, and may be free text, which is answered on the side.    *)
Push(p) ==
    /\ place[p] = "push" /\ Len(inbox) < InboxCap
    /\ inbox' = Append(inbox, carries[p])
    /\ place' = [place EXCEPT ![p] = "ready"]
    /\ carries' = [carries EXCEPT ![p] = 0]
    /\ \/ UNCHANGED answer
       \/ Kind = "web" /\ answer' = [answer EXCEPT ![carries[p]] = "due"]
    /\ UNCHANGED <<postRest, said, author, refRing, clients, socket, frames>>

(* The push is given up: the connector was stopped, or the browser is gone and the
   context of its request done.                                            *)
PushAbandoned(p) ==
    /\ place[p] = "push"
    /\ closed \/ (Kind = "web" /\ socket[p] = "closed")
    /\ place' = [place EXCEPT ![p] = "ready"]
    /\ carries' = [carries EXCEPT ![p] = 0]
    /\ UNCHANGED <<postRest, said, author, inbox, refRing, webVars>>

(* The read of a closed socket fails.                                      *)
Leave(p) ==
    /\ Kind = "web" /\ place[p] = "ready" /\ socket[p] = "closed"
    /\ place' = [place EXCEPT ![p] = "gone"]
    /\ clients' = clients \ {p}
    /\ UNCHANGED <<postRest, carries, said, author, inbox, refRing, socket, frames, answer>>

HangUp(p) ==
    /\ socket[p] = "open" /\ place[p] # "open"
    /\ socket' = [socket EXCEPT ![p] = "closed"]
    /\ UNCHANGED <<postRest, postVars, inbox, refRing, clients, frames, answer>>

Posting(p) == Join(p) \/ Echo(p) \/ Push(p) \/ PushAbandoned(p) \/ Leave(p)

-----------------------------------------------------------------------------
(* answerWithLLM: the start, the text bit by bit, and the end; what was said is
   then published for the store.  Its context is its own.                  *)
AnswerStarts(n) ==
    /\ answer[n] = "due"
    /\ Casts("start", n)
    /\ answer' = [answer EXCEPT ![n] = "streaming"]
    /\ UNCHANGED <<postRest, postVars, inbox, refRing, socket>>

AnswerGoesOn(n) ==
    /\ answer[n] = "streaming"
    /\ clients' = Reached
    /\ UNCHANGED <<postRest, postVars, inbox, refRing, socket, frames, answer>>

(* At the end of the text, or when the model or its budget fails.          *)
AnswerEnds(n) ==
    /\ answer[n] = "streaming"
    /\ Casts("end", n)
    /\ answer' = [answer EXCEPT ![n] = "ended"]
    /\ UNCHANGED <<postRest, postVars, inbox, refRing, socket>>

-----------------------------------------------------------------------------
(* The agent.                                                              *)

agentRest == <<lifeVars, postVars, refRing>>

(* Run starts the loops once Start has returned.                           *)
DrainStarts ==
    /\ agent = "running" /\ drain = "none"
    /\ drain' = "select"
    /\ UNCHANGED <<agentVars, run, current, closed, inbox, webVars, agentRest>>

DrainEnds ==
    /\ drain = "select" /\ cancelled
    /\ drain' = "ended"
    /\ UNCHANGED <<agentVars, run, current, closed, inbox, webVars, agentRest>>

(* A message is taken and published, ...                                   *)
TakeMessage ==
    /\ drain = "select" /\ inbox # <<>>
    /\ current' = Head(inbox) /\ inbox' = Tail(inbox)
    /\ drain' = "handle"
    /\ UNCHANGED <<agentVars, run, closed, webVars, agentRest>>

(* ... is no command, or one without a reply, ...                          *)
HandledSilently ==
    /\ drain = "handle"
    /\ drain' = "select" /\ current' = 0
    /\ UNCHANGED <<agentVars, run, closed, inbox, webVars, agentRest>>

Dispatched ==
    /\ drain = "handle"
    /\ drain' = "send"
    /\ UNCHANGED <<agentVars, run, current, closed, inbox, webVars, agentRest>>

(* ... or its reply is sent, to the room or as an answer to the message.    *)
Send ==
    /\ drain = "send"
    /\ IF Kind = "web" THEN Casts("reply", current) ELSE UNCHANGED <<clients, frames>>
    /\ drain' = "select" /\ current' = 0
    /\ UNCHANGED <<agentVars, run, closed, inbox, socket, answer, agentRest>>

(* Both loops have ended: the connector is stopped, which closes its sessions. *)
GroupEnds ==
    /\ agent = "running" /\ run = "ended" /\ drain = "ended"
    /\ agent' = "stopping"
    /\ UNCHANGED <<bounds, cancelled, run, drain, current, closed, inbox, webVars,
                   agentRest>>

Stop ==
    /\ agent = "stopping"
    /\ agent' = "returned" /\ closed' = TRUE
    /\ link' = (link /\ Kind # "discord")
    /\ clients' = {}
    /\ socket' = [p \in Poster |-> IF p \in clients THEN "closed" ELSE socket[p]]
    /\ UNCHANGED <<bounds, cancelled, run, drain, current, token, suspended, state, ctl,
                   presses, postVars, inbox, refRing, frames, answer>>

Cancel ==
    /\ bounds.ends /\ ~cancelled
    /\ cancelled' = TRUE
    /\ UNCHANGED <<bounds, agent, run, drain, current, closed, inbox, webVars, agentRest>>

Connecting == StartQuietly \/ Connect \/ Dialled \/ ConnectFails \/ Reopened
              \/ Install \/ Connected \/ Wake \/ Park \/ RunEnds
Draining == DrainStarts \/ DrainEnds \/ TakeMessage \/ HandledSilently \/ Dispatched \/ Send
Stopping == GroupEnds \/ Stop

ChatNext ==
    \/ Connecting \/ RunFails \/ Press \/ Control
    \/ \E p \in Poster : Upgrade(p) \/ Posting(p) \/ Ingest(p) \/ HangUp(p)
    \/ \E n \in Msg : AnswerStarts(n) \/ AnswerGoesOn(n) \/ AnswerEnds(n)
    \/ Draining \/ Stopping \/ Cancel

(* Every goroutine goes on; a dial ends one way or the other, and the model's
   stream ends within its deadline.  Nothing is assumed of those who write, of
   the user or of the operator.                                            *)
ChatFairness ==
    /\ WF_chatVars(Connecting) /\ WF_chatVars(Control) /\ WF_chatVars(Stopping)
    /\ SF_chatVars(DrainEnds) /\ WF_chatVars(Draining)
    /\ \A p \in Poster : WF_chatVars(Posting(p))
    /\ \A n \in AnyMsg :
          WF_chatVars(n \in Msg /\ (AnswerStarts(n) \/ AnswerEnds(n)))

ChatSpec == ChatInit /\ [][ChatNext]_chatVars
ChatFairSpec == ChatSpec /\ ChatFairness

-----------------------------------------------------------------------------
(* Properties.                                                             *)

(* Whoever wrote a message has seen it before any reply or answer to it, however
   fast the agent and the model are.                                       *)
QuestionComesFirst ==
    \A n \in Msg : \A what \in {"start", "end", "reply"} :
        <<what, n>> \in frames[author[n]] => <<"question", n>> \in frames[author[n]]

(* The agent ends after its context, whatever is under way.  Telegram's loop is
   left out: it may be held by a full inbox.                               *)
ShutdownEnds ==
    Kind # "telegram" => (cancelled ~> agent \in {"returned", "failed"})

=============================================================================
