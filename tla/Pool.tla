-------------------------------- MODULE Pool --------------------------------
(***************************************************************************)
(* The pooled server (src/internal/server): the feed that says which       *)
(* tenants there should be, the Server that keeps them, the routers that   *)
(* bring clients to them, and the activity they report.                    *)
(*                                                                         *)
(* Threads: Server.Run, the poll of the HTTP source, one supervisor per    *)
(* tenant, one handler per connection, the activity flusher; around them   *)
(* the control plane, which edits the feed, the operator, who cancels, and *)
(* the clients.  A tenant may be started again after its removal: an       *)
(* instance is a tenant and a generation, a run of it has a bouncer of its *)
(* own, and a client may still hold the one of a run that is over.         *)
(*                                                                         *)
(* Of a tenant only what the pool sees is here: TenantSupervisor has its   *)
(* edits in full, Bouncer what a served client gets, ConnectPacing when    *)
(* its connector dials.                                                    *)
(***************************************************************************)
EXTENDS ConnectPacing, FiniteSetsExt

CONSTANTS
    Tenant, Client,
    Spec,                \* versions of a tenant's spec
    Gen, Run,            \* generations of a tenant, runs of a generation
    PoolBounds           \* the instances

Absent == 0

ASSUME PoolAssumption ==
    /\ Absent \notin Spec
    /\ IsFiniteSet(Gen) /\ Gen = 1..Cardinality(Gen) /\ Run = 1..Cardinality(Run)
    /\ Connector = Tenant \X Gen
    /\ \A b \in PoolBounds :
          /\ b.feed \in [Tenant -> Spec \cup {Absent}] /\ b.pace \in PacingBounds
          /\ {b.edits, b.ends, b.marks} \subseteq Nat
          /\ b.clients \subseteq Client /\ b.web \subseteq Client
          /\ b.tenants \subseteq Tenant        \* who is edited and asked for
          /\ b.specs \subseteq Spec \cup {Absent}
          /\ b.cancels \in BOOLEAN

VARIABLES
    bounds, left,        \* the instance, and what is left of its budgets
    feed,                \* the control plane's tenants
    cancelled,           \* the process's context
    run, todo,           \* Server.Run's place, and the specs it has yet to start
    leaving,             \* the tenant a removal waits for
    poll, known, batch,  \* the poll's place, what it has sent, and what it fetched
    attached,            \* Server.tenants: the generation, 0 for none
    phase,               \* the supervisor of each instance
    spec, built,         \* its spec, and the one its run was built from
    stopped,             \* instances whose stop was called
    runs, published,     \* runs so far; the run whose handles the tenant shows
    bouncer,             \* of each run
    client,              \* the connections
    active, flushing,    \* activityAggregator.active, and the ids being posted
    slipped, owed        \* history: see FeedIsServed and MarkIsReported

feedVars == <<feed, poll, known, batch, slipped>>
runVars == <<run, todo, leaving, cancelled>>
tenantVars == <<attached, spec, stopped>>
workVars == <<phase, built, runs, published, bouncer>>
markVars == <<active, flushing, owed>>
vars == <<bounds, left, feedVars, runVars, tenantVars, workVars, client, markVars, pacingVars>>

Instance == Tenant \X Gen
Idle == [pc |-> "new", tenant |-> <<>>, run |-> 0, cut |-> FALSE]

Init ==
    /\ bounds \in PoolBounds /\ PacingInit /\ pace = bounds.pace
    /\ left = [edits |-> bounds.edits, ends |-> bounds.ends, marks |-> bounds.marks]
    /\ feed = bounds.feed
    /\ cancelled = FALSE /\ run = "initial" /\ leaving = <<>>
    /\ poll = "off" /\ slipped = {}
    /\ todo = [t \in Tenant |-> Absent] /\ known = todo /\ batch = todo
    /\ attached = [t \in Tenant |-> 0]
    /\ phase = [i \in Instance |-> "none"] /\ stopped = {}
    /\ spec = [i \in Instance |-> Absent] /\ built = spec
    /\ runs = [i \in Instance |-> 0] /\ published = runs
    /\ bouncer = [i \in Instance |-> [r \in Run |-> "none"]]
    /\ client = [c \in Client |-> Idle]
    /\ active = {} /\ flushing = {} /\ owed = {}

Spend(budget) == left[budget] > 0 /\ left' = [left EXCEPT ![budget] = @ - 1]
Of(t) == <<t, attached[t]>>
Live == {"between", "starting", "up", "stopping", "idle", "quarantine"}

-----------------------------------------------------------------------------
(* The control plane, and the operator.                                    *)

Edit(t, s) ==
    /\ t \in bounds.tenants /\ s \in bounds.specs /\ feed[t] # s /\ Spend("edits")
    /\ feed' = [feed EXCEPT ![t] = s]
    /\ UNCHANGED <<bounds, poll, known, batch, slipped, runVars, tenantVars, workVars, client,
                   markVars, pacingVars>>

Cancel ==
    /\ bounds.cancels /\ ~cancelled /\ cancelled' = TRUE
    /\ UNCHANGED <<bounds, left, feedVars, run, todo, leaving, tenantVars, workVars, client,
                   markVars, pacingVars>>

-----------------------------------------------------------------------------
(* Server.Run.                                                             *)

RunStep == UNCHANGED <<bounds, left, feed, cancelled, built, published, bouncer, client,
                       markVars, pacingVars>>

Initial ==
    /\ run = "initial"
    /\ \/ todo' = feed /\ run' = "boot"
       \/ run' = "returned" /\ UNCHANGED todo
    /\ RunStep
    /\ UNCHANGED <<poll, known, batch, slipped, leaving, tenantVars, phase, runs>>

(* upsert: update keeps the server's lock until it is done.                *)
Upsert(t, s) ==
    IF attached[t] # 0
    THEN /\ spec' = [spec EXCEPT ![Of(t)] = s]
         /\ UNCHANGED <<attached, phase>>
    ELSE \E g \in Gen :
            /\ phase[<<t, g>>] = "none" /\ \A h \in 1..(g - 1) : phase[<<t, h>>] # "none"
            /\ attached' = [attached EXCEPT ![t] = g]
            /\ spec' = [spec EXCEPT ![<<t, g>>] = s]
            /\ phase' = [phase EXCEPT ![<<t, g>>] = "between"]

Boot(t) ==
    /\ run = "boot" /\ todo[t] # Absent
    /\ Upsert(t, todo[t])
    /\ todo' = [todo EXCEPT ![t] = Absent]
    /\ RunStep
    /\ UNCHANGED <<run, leaving, poll, known, batch, slipped, stopped, runs>>

Serves(t) == IF attached[t] = 0 THEN Absent ELSE spec[Of(t)]

(* Watch: a baseline of its own.                                           *)
Seed ==
    /\ run = "boot" /\ \A t \in Tenant : todo[t] = Absent
    /\ \E baseline \in {feed, [t \in Tenant |-> Absent]} :
          /\ known' = baseline
          /\ slipped' = {t \in Tenant : baseline[t] # Serves(t)}
    /\ run' = "loop" /\ poll' = "wait"
    /\ RunStep
    /\ UNCHANGED <<todo, leaving, batch, tenantVars, phase, runs>>

(* Mutants: an event is forgotten once sent; a removal waits for nobody.   *)
KnownStays(t) == UNCHANGED known
RemoveAtOnce(t) == run' = "loop" /\ UNCHANGED leaving

Known(t) == known' = [known EXCEPT ![t] = batch[t]]

Awaits(t) == run' = "draining" /\ leaving' = Of(t)

(* The poll hands an event to Run, which applies it: upserts first.        *)
Upserted(t) ==
    /\ run = "loop" /\ poll = "diff"
    /\ batch[t] # Absent /\ batch[t] # known[t]
    /\ Upsert(t, batch[t]) /\ Known(t)
    /\ slipped' = slipped \ {t}
    /\ run' = "updating"
    /\ RunStep
    /\ UNCHANGED <<todo, leaving, poll, batch, stopped, runs>>

Updated ==
    /\ run = "updating" /\ run' = "loop"
    /\ RunStep
    /\ UNCHANGED <<todo, leaving, poll, known, batch, slipped, tenantVars, phase, runs>>

Removed(t) ==
    /\ run = "loop" /\ poll = "diff"
    /\ \A u \in Tenant : batch[u] # Absent => batch[u] = known[u]
    /\ batch[t] = Absent /\ known[t] # Absent
    /\ Known(t)
    /\ slipped' = slipped \ {t}
    /\ IF attached[t] = 0
       THEN UNCHANGED <<attached, stopped, run, leaving>>
       ELSE /\ attached' = [attached EXCEPT ![t] = 0]
            /\ stopped' = stopped \cup {Of(t)}
            /\ Awaits(t)
    /\ RunStep
    /\ UNCHANGED <<todo, poll, batch, spec, phase, runs>>

(* stop: the tenant's supervisor has returned.                             *)
Drained ==
    /\ run = "draining" /\ phase[leaving] = "done"
    /\ run' = "loop" /\ leaving' = <<>>
    /\ RunStep
    /\ UNCHANGED <<todo, poll, known, batch, slipped, tenantVars, phase, runs>>

(* The context is done, or the poll has closed its channel because it is.  *)
Shutdown ==
    /\ run = "loop" /\ cancelled
    /\ run' = "shutdown"
    /\ stopped' = stopped \cup {Of(t) : t \in {u \in Tenant : attached[u] # 0}}
    /\ attached' = [t \in Tenant |-> 0]
    /\ RunStep
    /\ UNCHANGED <<todo, leaving, poll, known, batch, slipped, spec, phase, runs>>

Returns ==
    /\ run = "shutdown" /\ \A i \in stopped : phase[i] = "done"
    /\ run' = "returned"
    /\ RunStep
    /\ UNCHANGED <<todo, leaving, poll, known, batch, slipped, tenantVars, phase, runs>>

-----------------------------------------------------------------------------
(* HTTPSource.poll.                                                        *)

PollStep == UNCHANGED <<bounds, left, feed, runVars, tenantVars, workVars, client, markVars,
                        pacingVars>>

(* A fetch that brings nothing new is the same as none, like one that fails. *)
Fetch ==
    /\ poll = "wait" /\ ~cancelled /\ feed # known
    /\ batch' = feed /\ poll' = "diff"
    /\ PollStep /\ UNCHANGED <<known, slipped>>

(* Everything is sent.                                                     *)
DiffDone ==
    /\ poll = "diff" /\ batch = known
    /\ poll' = "wait"
    /\ PollStep /\ UNCHANGED <<known, batch, slipped>>

PollEnds ==
    /\ poll \in {"wait", "diff"} /\ cancelled
    /\ poll' = "closed"
    /\ PollStep /\ UNCHANGED <<known, batch, slipped>>

-----------------------------------------------------------------------------
(* The tenant, as the pool sees it.                                        *)

Over(i) == i \in stopped \/ cancelled
RunCancelled(i) == Over(i) \/ built[i] # spec[i]
Latest(i) == bouncer[i][runs[i]]
SetBouncer(i, s) == bouncer' = [bouncer EXCEPT ![i][runs[i]] = s]

TenantStep == UNCHANGED <<bounds, feedVars, runVars, tenantVars, markVars>>

(* A new run: its connector is published before it starts.                 *)
Build(i) ==
    /\ phase[i] = "between" /\ ~Over(i) /\ runs[i] + 1 \in Run
    /\ phase' = [phase EXCEPT ![i] = "starting"]
    /\ built' = [built EXCEPT ![i] = spec[i]]
    /\ runs' = [runs EXCEPT ![i] = @ + 1]
    /\ published' = [published EXCEPT ![i] = runs[i] + 1]
    /\ bouncer' = [bouncer EXCEPT ![i][runs[i] + 1] = "ready"]
    /\ TenantStep /\ UNCHANGED <<left, client, pacingVars>>

(* Start: the bouncer is up, and the connector queues for its link; it is over
   when the first attempt is, whether it succeeded or not.                 *)
Starts(i) ==
    /\ phase[i] = "starting" /\ Latest(i) = "ready"
    /\ SetBouncer(i, "open")
    /\ IF i \in pace.dialers THEN Begin(i) ELSE UNCHANGED pacingVars
    /\ TenantStep /\ UNCHANGED <<left, client, phase, built, runs, published>>

Attempting(i) == place[i] \in {"gate", "dial", "handshake", "closed"}

Started(i) ==
    /\ phase[i] = "starting" /\ Latest(i) = "open" /\ ~Attempting(i)
    /\ phase' = [phase EXCEPT ![i] = "up"]
    /\ TenantStep /\ UNCHANGED <<left, client, built, runs, published, bouncer, pacingVars>>

Linkless(i) == place[i] \in {"off", "ending"}

(* Start fails, cancelled or refused by the network for good: the agent goes
   without stopping its connectors, and only the run's context is cancelled. *)
StartFails(i) ==
    /\ phase[i] = "starting" /\ Latest(i) = "open" /\ Linkless(i)
    /\ \/ RunCancelled(i) /\ UNCHANGED left
       \/ ~RunCancelled(i) /\ Spend("ends")
    /\ SetBouncer(i, "orphan")
    /\ published' = [published EXCEPT ![i] = 0]
    /\ phase' = [phase EXCEPT ![i] = "idle"]
    /\ TenantStep /\ UNCHANGED <<client, built, runs, pacingVars>>

InClients(c, i) == client[c].tenant = i /\ client[c].run = runs[i]
                   /\ client[c].pc \in {"added", "handle", "read"}

(* Bouncer.Stop, when the run is over or its connector has ended: the clients
   there are; then the context and those clients' sockets; then the handlers. *)
StopCollects(i) ==
    /\ phase[i] = "up" /\ Latest(i) = "open"
    /\ \/ RunCancelled(i) /\ UNCHANGED left
       \/ ~RunCancelled(i) /\ Spend("ends")
    /\ phase' = [phase EXCEPT ![i] = "stopping"]
    /\ SetBouncer(i, "collected")
    /\ client' = [c \in Client |-> IF InClients(c, i) THEN [client[c] EXCEPT !.cut = TRUE]
                                                      ELSE client[c]]
    /\ TenantStep /\ UNCHANGED <<built, runs, published, pacingVars>>

StopCloses(i) ==
    /\ phase[i] = "stopping" /\ Latest(i) = "collected"
    /\ SetBouncer(i, "closed")
    /\ TenantStep /\ UNCHANGED <<left, client, phase, built, runs, published, pacingVars>>

Handled(i) == \A c \in Client :
    client[c].tenant = i /\ client[c].run = runs[i] =>
       client[c].pc \notin {"handle", "read", "exit"}

StopWaits(i) ==
    /\ phase[i] = "stopping" /\ Latest(i) = "closed" /\ Handled(i) /\ Linkless(i)
    /\ SetBouncer(i, "down")
    /\ published' = [published EXCEPT ![i] = 0]
    /\ phase' = [phase EXCEPT ![i] = "idle"]
    /\ TenantStep /\ UNCHANGED <<left, client, built, runs, pacingVars>>

(* The connector's own Stop, and a start that is given up.                 *)
HangsUp(i) ==
    /\ \/ phase[i] = "stopping" /\ Latest(i) = "closed"
       \/ phase[i] = "starting" /\ Latest(i) = "open" /\ RunCancelled(i)
    /\ End(i) \/ ClearsClient(i) \/ Ended(i)
    /\ TenantStep /\ UNCHANGED <<left, client, workVars>>

(* A panic while the connectors are built or started, before there is a link:
   the teardown is not run, and the handles stay.                          *)
Panic(i) ==
    /\ phase[i] = "starting" /\ Linkless(i) /\ Spend("ends")
    /\ phase' = [phase EXCEPT ![i] = "quarantine"]
    /\ SetBouncer(i, IF Latest(i) = "open" THEN "orphan" ELSE "down")
    /\ TenantStep /\ UNCHANGED <<client, built, runs, published, pacingVars>>

(* The supervisor's waits: a restart, the end of the quarantine, the end.  *)
Again(i) ==
    /\ ~Over(i) /\ Linkless(i)
    /\ \/ phase[i] = "idle" /\ built[i] # spec[i]
       \/ phase[i] = "quarantine"
    /\ phase' = [phase EXCEPT ![i] = "between"]
    /\ TenantStep /\ UNCHANGED <<left, client, built, runs, published, bouncer, pacingVars>>

Done(i) ==
    /\ phase[i] \in {"between", "idle", "quarantine"} /\ Over(i) /\ Linkless(i)
    /\ phase' = [phase EXCEPT ![i] = "done"]
    /\ TenantStep /\ UNCHANGED <<left, client, built, runs, published, bouncer, pacingVars>>

-----------------------------------------------------------------------------
(* A connection of the bouncer router, and then of a bouncer.              *)

Goes(c, pc) == client' = [client EXCEPT ![c].pc = pc]
ClientStep == UNCHANGED <<bounds, left, feedVars, runVars, tenantVars, workVars, markVars,
                          pacingVars>>

(* Accepted, its PROXY header read within the deadline: whose it is.       *)
Arrives(c) ==
    /\ client[c].pc = "new" /\ c \in bounds.clients \cup bounds.web /\ ~cancelled
    /\ \/ \E t \in bounds.tenants :
             client' = [client EXCEPT ![c].pc = "routed", ![c].tenant = <<t>>]
       \/ Goes(c, "gone")
    /\ ClientStep

(* RouteBouncerConn and its siblings: the lookup under the server's lock.  *)
Route(c) ==
    /\ client[c].pc = "routed" /\ run # "updating"
    /\ LET t == client[c].tenant[1]
       IN  IF attached[t] = 0 THEN Goes(c, "gone")
           ELSE client' = [client EXCEPT ![c].pc = "resolved", ![c].tenant = Of(t)]
    /\ ClientStep

(* ServeBouncerConn, ServeWS, ServeChat, ServeHook: the run's handle, if any. *)
Deliver(c) ==
    /\ client[c].pc = "resolved"
    /\ LET r == published[client[c].tenant]
       IN  IF r = 0 THEN Goes(c, "gone")
           ELSE client' = [client EXCEPT ![c].run = r,
                              ![c].pc = IF c \in bounds.web THEN "session" ELSE "delivered"]
    /\ ClientStep

Its(c) == bouncer[client[c].tenant][client[c].run]

(* ServeConn: runCtx is read, the client added, the handler counted.       *)
ServeConn(c) ==
    /\ client[c].pc = "delivered"
    /\ Goes(c, IF Its(c) \in {"open", "orphan"} THEN "serving" ELSE "gone")
    /\ ClientStep

Adds(c) ==
    /\ client[c].pc \in {"serving", "added"}
    /\ Goes(c, IF client[c].pc = "serving" THEN "added" ELSE "handle")
    /\ ClientStep

CtxDone(c) ==
    \/ Its(c) \in {"closed", "down", "orphan"}
    \/ client[c].run # runs[client[c].tenant]
    \/ RunCancelled(client[c].tenant)

(* Mutant: the loop reads until the read fails.                            *)
HandleReads(c) ==
    /\ client[c].pc = "handle"
    /\ Goes(c, "read")
    /\ ClientStep

(* handleClient: the context is looked at between two lines.               *)
Handle(c) ==
    /\ client[c].pc = "handle"
    /\ Goes(c, IF CtxDone(c) THEN "exit" ELSE "read")
    /\ ClientStep

Line(c) == client[c].pc = "read" /\ ~client[c].cut /\ Goes(c, "handle") /\ ClientStep

(* The client goes, is silent past the deadline, or its socket was closed. *)
ReadFails(c) == client[c].pc = "read" /\ Goes(c, "exit") /\ ClientStep

Exit(c) == client[c].pc = "exit" /\ Goes(c, "gone") /\ ClientStep

(* A browser's session is over; a hook is answered.                        *)
SessionOver(c) == client[c].pc = "session" /\ Goes(c, "gone") /\ ClientStep

-----------------------------------------------------------------------------
(* The activity aggregator.                                                *)

MarkStep == UNCHANGED <<bounds, feedVars, runVars, tenantVars, workVars, client, pacingVars>>

Mark(t) ==
    /\ attached[t] # 0 /\ phase[Of(t)] = "up" /\ Spend("marks")
    /\ active' = active \cup {t} /\ owed' = owed \cup {t}
    /\ MarkStep /\ UNCHANGED flushing

(* Mutant: the set is emptied when the post is over.                       *)
DrainLater == flushing' = active /\ UNCHANGED active

(* drain: the set is swapped out.                                          *)
Drain == flushing' = active /\ active' = {}

Flush ==
    /\ active # {} /\ flushing = {} /\ ~cancelled
    /\ Drain
    /\ MarkStep /\ UNCHANGED <<left, owed>>

(* The post has succeeded, or failed and is not repeated.                  *)
Posted ==
    /\ flushing # {} /\ flushing' = {}
    /\ owed' = (owed \ flushing) \cup active
    /\ MarkStep /\ UNCHANGED <<left, active>>

-----------------------------------------------------------------------------
RunNext == \/ Initial \/ Seed \/ Updated \/ Drained \/ Shutdown \/ Returns
           \/ \E t \in Tenant : Boot(t) \/ Upserted(t) \/ Removed(t)
PollNext == Fetch \/ DiffDone \/ PollEnds
TenantNext(i) == \/ Build(i) \/ Starts(i) \/ Started(i) \/ StopCloses(i) \/ StopWaits(i)
                 \/ HangsUp(i) \/ Again(i) \/ Done(i)
Giving(i) == StartFails(i) \/ StopCollects(i)
ClientNext(c) == Route(c) \/ Deliver(c) \/ ServeConn(c) \/ Adds(c) \/ Handle(c) \/ Exit(c)
ReadReturns(c) == Line(c) \/ ReadFails(c)
FlushNext == Flush \/ Posted
Pacing == /\ PacingNext
          /\ \A i \in Instance : phase[i] = "starting" => place'[i] # "sleep"
          /\ UNCHANGED <<bounds, left, feedVars, runVars, tenantVars, workVars, client,
                         markVars>>

Next ==
    \/ \E t \in Tenant : Mark(t) \/ \E s \in Spec \cup {Absent} : Edit(t, s)
    \/ Cancel \/ RunNext \/ PollNext \/ FlushNext \/ Pacing
    \/ \E i \in Instance : TenantNext(i) \/ Giving(i) \/ Panic(i)
    \/ \E c \in Client : ClientNext(c) \/ Arrives(c) \/ ReadReturns(c) \/ SessionOver(c)

(* Every thread goes on: an update and a post return, a fetch succeeds sooner
   or later, a cancelled run ends, and the keepalive's deadline ends a read. *)
Fairness ==
    /\ WF_vars(RunNext) /\ WF_vars(PollNext) /\ WF_vars(FlushNext)
    /\ \A i \in Instance : WF_vars(TenantNext(i) \/ (RunCancelled(i) /\ Giving(i)))
    /\ \A c \in Client : WF_vars(ClientNext(c) \/ ReadReturns(c))

PoolSpec == Init /\ [][Next]_vars /\ Fairness

-----------------------------------------------------------------------------
(* A tenant never runs twice: whatever comes and goes in the feed, its former
   instance has drained before the next begins; and when Run has returned no
   tenant runs any more (server.go:163-197).                               *)
OneAtATime ==
    \A t \in Tenant :
       LET running == {g \in Gen : phase[<<t, g>>] \in Live}
       IN  Cardinality(running) <= (IF run = "returned" THEN 0 ELSE 1)

(* Once the feed is followed, what the poll has handed over is what the server
   serves: every event is applied to the tenant it is about, and its table has changed
   by nothing else; except a tenant that changed between the two fetches of the boot,
   until it changes again (http_source.go:43-120, server.go:136-197).      *)
Following == run \in {"loop", "updating", "draining"}
SentIsServed == Following => \A t \in Tenant \ slipped : Serves(t) = known[t]

(* The server comes to serve what the feed says, through edits at any moment
   and polls that lag behind, except a tenant that changed between the two
   fetches of the boot, until it changes again (http_source.go:43-120).    *)
FeedIsServed ==
    \A t \in Tenant :
       <>[](cancelled \/ run = "returned" \/ t \in slipped \/ Serves(t) = feed[t])

(* A client the router has accepted is turned away or served by a run that is
   not over: no handler outlasts the bouncer it was handed to
   (bouncer_router.go:72-105, tenant.go:1112-1126, bouncer.go:775-833).    *)
Settled(c) ==
    \/ client[c].pc \in {"new", "session", "gone"}
    \/ client[c].pc = "read" /\ Its(c) = "open"
ClientsSettle == \A c \in Client : []<>Settled(c)

(* A removal ends, and so does the server when it is told to, whoever is still
   attached and whatever a starting tenant waits for (server.go:163-197).  *)
RunReturns ==
    /\ cancelled ~> run = "returned"
    /\ run = "draining" ~> run # "draining"

(* Activity that was marked reaches a post, also when it is marked while the
   last one is under way (tenant_activity.go:69-151).                      *)
MarkIsReported ==
    \A t \in Tenant : t \in owed ~> (t \notin owed \/ cancelled)

=============================================================================
