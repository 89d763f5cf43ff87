-------------------------- MODULE TenantSupervisor --------------------------
(***************************************************************************)
(* One tenant of the pooled server (src/internal/server/tenant.go): the    *)
(* supervise loop that builds, runs and restarts the tenant's agent, the   *)
(* quarantine after a panic, the hot reload that changes the tenant's spec *)
(* while it runs, and stop.                                                *)
(*                                                                         *)
(* Threads: the supervise goroutine, whose place is sup; the server's      *)
(* event loop, which calls update and whose place inside it is upd; the    *)
(* operator (or the server's remove), who cancels the tenant's context.    *)
(*                                                                         *)
(* A spec is a record of facets, each with a value.  A facet stands for    *)
(* the fields of TenantSpec that update treats alike.  A run is what       *)
(* defaultWork builds and drives: one connector after the other, the first *)
(* of them the IRC connector, each with its own skill and flow engines.    *)
(***************************************************************************)
EXTENDS Integers

CONSTANTS
    N,          \* the number of connectors of the tenant; connector 1 is IRC
    Value,      \* the values a facet takes
    First,      \* the value every facet starts with
    Edited,     \* the facets the control plane edits
    Panics      \* the work may panic on the supervise goroutine

Facets == {"prefix", "core", "link", "ignored", "skills", "flows"}

(* A mutant: the command prefix is taken for live as well.                 *)
LiveFacetsAndPrefix == {"prefix", "link", "ignored", "skills", "flows"}

(* The facets that are applied in place: nick, channels and suspended of the
   IRC connector, the ignore list, the skill set, the flow set.            *)
LiveFacets == {"link", "ignored", "skills", "flows"}

ASSUME ConnectorsAssumption == N \in Nat \ {0}
ASSUME ValueAssumption == First \in Value
ASSUME EditedAssumption == Edited \subseteq Facets /\ Panics \in BOOLEAN

Connectors == 1..N
Specs == [Facets -> Value]
Blank == [f \in Facets |-> First]

(* What a handle of the tenant refers to: nothing, a connector of the present
   run, or something that was left by an earlier one.                      *)
Nil == 0
Stale == N + 1
Handles == 0..(N + 1)

VARIABLES
    spec,        \* Tenant.spec
    sup,         \* the supervise goroutine's place
    seen,        \* the spec as read by the run being built, else Blank
    built,       \* what each connector is configured with, Blank if not yet
    next,        \* the next connector to publish, then to start
    irc, agent,  \* what Tenant.ircConn and Tenant.agentRef refer to
    wiring,      \* the connector whose engines Tenant.wiring holds
    started,     \* connectors of this run started and not stopped
    orphaned,    \* connectors of earlier runs nobody stopped
    cancelled,   \* the run's context is cancelled
    token,       \* restartCh holds a signal
    stopping,    \* the tenant's context is cancelled
    status,      \* Tenant.status
    upd,         \* update's place
    changed,     \* the facets the update in progress changes
    applied,     \* every facet so far has been applied in place
    target,      \* whose runCancel update holds: the present run's or an old one
    edited       \* history: spec changed since this run began to read it

runVars == <<seen, built, next, started>>
refVars == <<irc, agent, wiring>>
updVars == <<upd, changed, applied>>
vars == <<spec, sup, runVars, refVars, orphaned, cancelled, token, stopping,
          status, updVars, target, edited>>

SupervisePlaces == {"top", "prefix", "read", "build", "publish", "start",
                    "running", "unwind", "teardown", "ended", "panicked",
                    "quarantine", "idle", "stopped"}
UpdatePlaces == {"idle", "skills", "flows", "ignored", "link", "cancel", "signal"}

TypeOK ==
    /\ spec \in Specs /\ seen \in Specs
    /\ built \in [Connectors -> Specs]
    /\ sup \in SupervisePlaces /\ next \in 1..(N + 1)
    /\ irc \in Handles /\ agent \in Handles /\ wiring \in Handles
    /\ started \subseteq Connectors /\ orphaned \subseteq Connectors
    /\ cancelled \in BOOLEAN /\ token \in BOOLEAN /\ stopping \in BOOLEAN
    /\ status \in {"running", "quarantined"}
    /\ upd \in UpdatePlaces /\ changed \subseteq Facets /\ applied \in BOOLEAN
    /\ target \in {"none", "present", "old"} /\ edited \in BOOLEAN

(* startTenant.                                                            *)
Init ==
    /\ spec = Blank
    /\ seen = Blank /\ built = [c \in Connectors |-> Blank] /\ next = 1
    /\ sup = "top" /\ status = "running"
    /\ irc = Nil /\ agent = Nil /\ wiring = Nil
    /\ started = {} /\ orphaned = {}
    /\ cancelled = FALSE /\ token = FALSE /\ stopping = FALSE
    /\ upd = "idle" /\ changed = {} /\ applied = TRUE /\ target = "none"
    /\ edited = FALSE

At(place) == sup = place
GoTo(place) == sup' = place
elsewhere == <<spec, stopping, updVars>>

(* What most steps of the supervise goroutine leave alone.                 *)
rest == <<elsewhere, orphaned, token, status, target, edited>>

-----------------------------------------------------------------------------
(* supervise and runOnce.                                                  *)

(* A handle that was not dropped refers to an earlier run from now on.     *)
Aged(handle) == IF handle = Nil THEN Nil ELSE Stale

(* The loop begins a run with a context of its own, or ends.               *)
BeginRun ==
    /\ At("top") /\ ~stopping
    /\ cancelled' = FALSE
    /\ target' = IF upd = "idle" THEN "none" ELSE "old"
    /\ irc' = Aged(irc) /\ agent' = Aged(agent) /\ wiring' = Aged(wiring)
    /\ GoTo("prefix")
    /\ UNCHANGED <<elsewhere, runVars, orphaned, token, status, edited>>

SuperviseReturns ==
    /\ sup \in {"top", "ended", "idle", "quarantine"} /\ stopping
    /\ GoTo("stopped")
    /\ UNCHANGED <<rest, runVars, refVars, cancelled>>

-----------------------------------------------------------------------------
(* defaultWork: build, run, tear down.                                     *)

(* The agent is made with the prefix of the spec as it is now, ...         *)
ReadPrefix ==
    /\ At("prefix")
    /\ seen' = [seen EXCEPT !["prefix"] = spec["prefix"]]
    /\ edited' = FALSE
    /\ GoTo("read")
    /\ UNCHANGED <<elsewhere, built, next, started, refVars, orphaned, cancelled,
                   token, status, target>>

(* ... and buildConnectors reads the rest in a second critical section.    *)
ReadSpec ==
    /\ At("read")
    /\ seen' = [spec EXCEPT !["prefix"] = seen["prefix"]]
    /\ GoTo("build")
    /\ UNCHANGED <<rest, built, next, started, refVars, cancelled>>

(* A mutant: one connector too many.                                       *)
BuildConnectorOver ==
    /\ At("build") /\ next <= N + 1
    /\ built' = [built EXCEPT ![next] = [seen EXCEPT !["flows"] = spec["flows"]]]
    /\ GoTo("publish")
    /\ UNCHANGED <<rest, seen, next, started, refVars, cancelled>>

(* A connector is configured from what was read, but for its flows, which
   are read from the spec once more.                                       *)
BuildConnector ==
    /\ At("build") /\ next <= N
    /\ built' = [built EXCEPT ![next] = [seen EXCEPT !["flows"] = spec["flows"]]]
    /\ GoTo("publish")
    /\ UNCHANGED <<rest, seen, next, started, refVars, cancelled>>

(* The tenant's handles are set; each connector overwrites the wiring.     *)
PublishConnector ==
    /\ At("publish")
    /\ irc' = IF next = 1 THEN 1 ELSE irc
    /\ wiring' = next
    /\ next' = next + 1
    /\ GoTo("build")
    /\ UNCHANGED <<rest, seen, built, started, agent, cancelled>>

(* The run is attached.  What was read is not needed any longer.           *)
Attach ==
    /\ At("build") /\ next = N + 1
    /\ agent' = 1
    /\ seen' = Blank
    /\ next' = 1
    /\ GoTo("start")
    /\ UNCHANGED <<rest, built, started, irc, wiring, cancelled>>

(* agent.Run starts the connectors one by one, ...                         *)
StartConnector ==
    /\ At("start") /\ next <= N
    /\ started' = started \cup {next}
    /\ next' = next + 1
    /\ UNCHANGED <<sup, rest, seen, built, refVars, cancelled>>

(* ... returns the error of the first that fails, without stopping those
   before it, ...                                                          *)
StartFails ==
    /\ At("start") /\ next <= N
    /\ GoTo("teardown")
    /\ UNCHANGED <<rest, runVars, refVars, cancelled>>

(* ... and then drives them all.                                           *)
AllStarted ==
    /\ At("start") /\ next = N + 1
    /\ GoTo("running")
    /\ UNCHANGED <<rest, runVars, refVars, cancelled>>

(* The group is unwound when a connector's Run ends in an error or the
   context is cancelled.                                                   *)
ConnectorEnds ==
    /\ At("running")
    /\ GoTo("unwind")
    /\ UNCHANGED <<rest, runVars, refVars, cancelled>>

RunCancelled == (cancelled \/ stopping) /\ ConnectorEnds

StopConnectors ==
    /\ At("unwind")
    /\ started' = {}
    /\ GoTo("teardown")
    /\ UNCHANGED <<rest, seen, built, next, refVars, cancelled>>

(* What the run leaves behind: nothing refers to the connectors that were
   started and not stopped.                                                *)
Abandon ==
    /\ orphaned' = orphaned \cup started
    /\ started' = {} /\ next' = 1
    /\ seen' = Blank /\ built' = [c \in Connectors |-> Blank]

(* The handles are dropped.                                                *)
Teardown ==
    /\ At("teardown")
    /\ irc' = Nil /\ agent' = Nil /\ wiring' = Nil
    /\ Abandon
    /\ GoTo("ended")
    /\ UNCHANGED <<elsewhere, cancelled, token, status, target, edited>>

(* The run is over, and its context cancelled.                             *)
RunEnded ==
    /\ At("ended") /\ ~stopping
    /\ cancelled' = TRUE
    /\ GoTo("idle")
    /\ UNCHANGED <<rest, runVars, refVars>>

(* A panic of the work is recovered by runOnce: nothing is torn down.      *)
WorkPanics ==
    /\ Panics
    /\ sup \in {"read", "build", "publish", "start"}
    /\ GoTo("panicked")
    /\ UNCHANGED <<rest, runVars, refVars, cancelled>>

EnterQuarantine ==
    /\ At("panicked")
    /\ cancelled' = TRUE
    /\ Abandon
    /\ IF stopping THEN GoTo("stopped") /\ UNCHANGED status
                   ELSE GoTo("quarantine") /\ status' = "quarantined"
    /\ UNCHANGED <<elsewhere, refVars, token, target, edited>>

(* The backoff is over, or the spec has changed.                           *)
LeaveQuarantine ==
    /\ At("quarantine")
    /\ token' \in {token, FALSE}
    /\ status' = "running"
    /\ GoTo("top")
    /\ UNCHANGED <<elsewhere, runVars, refVars, orphaned, cancelled, target, edited>>

Restart ==
    /\ At("idle") /\ token
    /\ token' = FALSE
    /\ GoTo("top")
    /\ UNCHANGED <<elsewhere, runVars, refVars, orphaned, cancelled, status,
                   target, edited>>

Supervise ==
    \/ BeginRun \/ SuperviseReturns \/ ReadPrefix \/ ReadSpec \/ BuildConnector
    \/ PublishConnector \/ Attach \/ StartConnector \/ StartFails \/ AllStarted
    \/ ConnectorEnds \/ StopConnectors \/ Teardown \/ RunEnded
    \/ WorkPanics \/ EnterQuarantine \/ LeaveQuarantine \/ Restart

-----------------------------------------------------------------------------
(* update, called by the server's loop one event at a time.                *)

runRest == <<sup, seen, next, started, refVars, orphaned, status, stopping>>

(* The new spec is recorded and the run's cancel picked up.  A change that
   is confined to live facets is tried in place first.                     *)
Update ==
    /\ upd = "idle"
    /\ \E new \in Specs :
          /\ new # spec /\ \A f \in Facets \ Edited : new[f] = spec[f]
          /\ spec' = new
          /\ changed' = {f \in Facets : new[f] # spec[f]}
    /\ upd' = IF changed' \subseteq LiveFacets THEN "skills" ELSE "cancel"
    /\ target' = "present"
    /\ edited' = TRUE
    /\ UNCHANGED <<applied, runRest, built, cancelled, token>>

(* update returns, and what it held is forgotten.                          *)
UpdateReturns ==
    /\ upd' = "idle" /\ changed' = {} /\ applied' = TRUE /\ target' = "none"

(* One facet is applied through the handle it needs, to the connectors of the
   present run the handle reaches; it is not if the handle is nil.          *)
Reached(f) ==
    CASE f \in {"skills", "flows"} -> {wiring}
      [] f = "ignored" -> IF agent = Stale THEN {} ELSE Connectors
      [] f = "link" -> {irc}

(* A mutant: the flows are reported as applied where there are no engines.  *)
ApplicableSilently(f) ==
    CASE f = "skills" -> agent # Nil /\ irc # Nil
      [] f = "flows" -> TRUE
      [] f = "ignored" -> agent # Nil
      [] f = "link" -> irc # Nil

Applicable(f) ==
    CASE f = "skills" -> agent # Nil /\ irc # Nil
      [] f = "flows" -> wiring # Nil
      [] f = "ignored" -> agent # Nil
      [] f = "link" -> irc # Nil

ApplyFacet(f) ==
    /\ upd = f
    /\ built' = IF f \in changed /\ Applicable(f)
                THEN [c \in Connectors |->
                         IF c \in Reached(f) THEN [built[c] EXCEPT ![f] = spec[f]]
                                             ELSE built[c]]
                ELSE built
    /\ UNCHANGED <<spec, runRest, cancelled, token, edited>>

StillApplied(f) == applied /\ (f \in changed => Applicable(f))

(* reloadCommands, reloadFlows, reloadGuard, then applyNickChannels and
   applySuspend: these two go through the same handle and are one step.    *)
ApplyNext(f, g) ==
    /\ ApplyFacet(f)
    /\ applied' = StillApplied(f)
    /\ upd' = g
    /\ UNCHANGED <<changed, target>>

ApplySkills == ApplyNext("skills", "flows")
ApplyFlows == ApplyNext("flows", "ignored")
ApplyIgnored == ApplyNext("ignored", "link")

ApplyLink ==
    /\ ApplyFacet("link")
    /\ IF StillApplied("link")
       THEN UpdateReturns
       ELSE upd' = "cancel" /\ UNCHANGED <<changed, applied, target>>

(* Else the run is cancelled and a restart signalled.                      *)
CancelRun ==
    /\ upd = "cancel"
    /\ cancelled' = (cancelled \/ target = "present")
    /\ upd' = "signal"
    /\ UNCHANGED <<spec, changed, applied, runRest, built, token, target, edited>>

(* A mutant: the signal is sent on a channel without a buffer.             *)
SignalRestartUnbuffered ==
    /\ upd = "signal"
    /\ token' = (token \/ sup \in {"idle", "quarantine"})
    /\ UpdateReturns
    /\ UNCHANGED <<spec, runRest, built, cancelled, edited>>

SignalRestart ==
    /\ upd = "signal"
    /\ token' = TRUE
    /\ UpdateReturns
    /\ UNCHANGED <<spec, runRest, built, cancelled, edited>>

FinishUpdate == ApplySkills \/ ApplyFlows \/ ApplyIgnored \/ ApplyLink
                \/ CancelRun \/ SignalRestart

(* stop, or the end of the server's context.                               *)
Stop ==
    /\ ~stopping
    /\ stopping' = TRUE
    /\ UNCHANGED <<spec, sup, runVars, refVars, orphaned, cancelled, token, status,
                   updVars, target, edited>>

Next == Supervise \/ Update \/ FinishUpdate \/ Stop

(* The supervise goroutine goes on and update runs to its end; neither the
   control plane nor a healthy connector has to do anything.  agent.Run is
   taken to return once its context is cancelled.                          *)
Fairness == /\ WF_vars(Supervise /\ ~At("running"))
            /\ WF_vars(RunCancelled)
            /\ WF_vars(FinishUpdate)

Spec == Init /\ [][Next]_vars
FairSpec == Spec /\ Fairness

-----------------------------------------------------------------------------
(* Properties.                                                             *)

Serving == sup \in {"start", "running"} /\ ~cancelled /\ upd = "idle"

(* A run that nobody has cancelled was built with the present prefix and
   connectors, although both are read outside update's critical section and
   at two different moments.                                               *)
CoreIsCurrent ==
    Serving => \A c \in Connectors, f \in {"prefix", "core"} :
                  built[c][f] = spec[f]

(* The connectors that a change of a live facet, applied in place, is meant
   for: the engines of skills and flows are only those of the last one.    *)
InPlace(c, f) ==
    CASE f = "link" -> c = 1
      [] f = "ignored" -> TRUE
      [] f \in {"skills", "flows"} -> N = 1

(* As long as the work does not panic, the facets applied in place are as
   current as a restart would make them, wherever in its life the run was
   when the edit arrived.                                                  *)
LiveIsCurrent ==
    Serving => \A c \in Connectors, f \in LiveFacets :
                  InPlace(c, f) => built[c][f] = spec[f]

(* An edit that asked for a restart is read by a run, unless the tenant is
   stopped: no interleaving of the signal with the end of a run, its panic or
   its quarantine swallows it.                                             *)
EditIsRun == upd = "signal" ~> ~edited \/ At("stopped")

=============================================================================
