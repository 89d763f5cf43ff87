------------------------------- MODULE Runtime -------------------------------
(***************************************************************************)
(* The single-instance runtime (src/internal/runtime): one agent, with its *)
(* gateway if it has one, its skills (SkillEngine) and its history         *)
(* (MessageHistory), the refreshers that poll for budget, commands, flows  *)
(* and the connector's config (src/internal/*refresh), and Run, in which   *)
(* the agent and the gateway stop each other and the last state is pushed. *)
(*                                                                         *)
(* Threads: Run; the agent and the gateway; a loop for each refresher and  *)
(* for the scheduler of skills; the control plane and the user, who change *)
(* what the refreshers and the connector work on; the emitter, of which    *)
(* StateEmitter has the detail: here a push reads and delivers at once.    *)
(***************************************************************************)
EXTENDS SkillEngine, MessageHistory

CONSTANTS
    Value,       \* of what is published, and of what a surface holds
    Booted,      \* ... that a process starts with
    Own,         \* what a user has made of a surface
    NoValue,
    Rigs         \* the instances

Refresher == {"budget", "commands", "flows", "config"}
Background == Refresher \cup {"scheduler"}
Half == {"agent", "gateway"}

ASSUME ValueAssumption == Booted \in Value /\ Own \notin Value /\ NoValue \notin Value

(* An instance: those of the skills and the history; what is configured; how  *)
(* often the control plane publishes, the user changes the connector's own,  *)
(* and a fetch fails; halves that may end of themselves; interrupts.       *)
ASSUME RigsAssumption ==
    \A r \in Rigs :
       /\ r.skills \in Bounds /\ r.book \in Books
       /\ r.loops \subseteq Background /\ r.halves \subseteq Half /\ "agent" \in r.halves
       /\ r.edits \in Nat /\ r.changes \in Nat /\ r.faults \in Nat
       /\ r.quits \subseteq r.halves /\ r.interrupts \in BOOLEAN

(* Mutant: the scheduler keeps what it has.                                *)
ApplySkills_mutant == <<"registry", "engine">>

(* What a refresher sets in place, one after the other.                    *)
ApplySkills == <<"registry", "engine", "scheduler">>
ApplyFlows == <<"flows">>
ApplyConfig == <<"nick", "channels", "intent">>

Surfaces == [budget |-> <<>>, commands |-> ApplySkills, flows |-> ApplyFlows,
             config |-> ApplyConfig]
Surface == {"registry", "engine", "scheduler", "flows", "nick", "channels", "intent"}
UsersOwn == {"nick", "channels"}

VARIABLES
    rig,             \* the instance
    left,            \* of edits, changes and faults, how many are left
    published,       \* what each endpoint serves
    loop,            \* where each background loop is
    got, last,       \* what it has fetched, and what it has applied before
    todo,            \* the surfaces it has yet to set
    inForce,         \* what each surface holds
    run,             \* where Run is
    interrupted,     \* the context is cancelled, by a signal or by Run
    over,            \* halves that have returned
    link,            \* of the connector: "up", or how it has ended
    pushed           \* the state that was delivered at the end, if any

refreshVars == <<published, loop, got, last, todo, inForce>>
stopVars == <<run, interrupted, over, link, pushed>>
rigVars == <<rig, left, refreshVars, stopVars>>
runtimeVars == <<vars, historyVars, rigVars>>

LoopPlaces == {"off", "wait", "fetch", "answered", "apply", "ended"}

RuntimeTypeOK ==
    /\ rig \in Rigs /\ loop \in [Background -> LoopPlaces]
    /\ published \in [Refresher -> Value] /\ got \in [Refresher -> Value]
    /\ last \in [Refresher -> Value \cup {NoValue}]
    /\ inForce \in [Surface -> Value \cup {Own}]
    /\ run \in {"race", "second", "drain", "flush", "returned"}
    /\ interrupted \in BOOLEAN /\ over \subseteq Half /\ link \in {"up", "ended", "stopped"}

(* What Build has wired, and Run starts: a refresher begins with a fetch, and *)
(* is nil unless it is configured.                                         *)
Started(r) == IF r \notin rig.loops THEN "off" ELSE IF r = "scheduler" THEN "wait" ELSE "fetch"

Build ==
    /\ loop = [r \in Background |-> Started(r)]
    /\ got = [r \in Refresher |-> Booted] /\ last = [r \in Refresher |-> NoValue]
    /\ todo = [r \in Refresher |-> <<>>] /\ inForce = [s \in Surface |-> Booted]
    /\ run = "race" /\ interrupted = FALSE /\ over = {} /\ link = "up" /\ pushed = <<>>

RuntimeInit ==
    /\ Init /\ HistoryInit
    /\ rig \in Rigs /\ rig.skills = bounds /\ rig.book = book
    /\ left = [edits |-> rig.edits, changes |-> rig.changes, faults |-> rig.faults]
    /\ published = [r \in Refresher |-> Booted]
    /\ Build

Spend(what) == left[what] > 0 /\ left' = [left EXCEPT ![what] = @ - 1]
LoopTo(r, there) == loop' = [loop EXCEPT ![r] = there]

-----------------------------------------------------------------------------
(* What the refreshers poll for, and what they set.                        *)

(* The control plane publishes something else.                             *)
Publish(r) ==
    /\ r \in rig.loops /\ Spend("edits")
    /\ \E v \in Value \ {published[r]} : published' = [published EXCEPT ![r] = v]
    /\ UNCHANGED <<vars, historyVars, rig, loop, got, last, todo, inForce, stopVars>>

(* A user's own NICK or JOIN, while there is an agent.                     *)
UserChanges(s) ==
    /\ "config" \in rig.loops /\ "agent" \notin over /\ Spend("changes")
    /\ inForce' = [inForce EXCEPT ![s] = Own]
    /\ UNCHANGED <<vars, historyVars, rig, published, loop, got, last, todo, stopVars>>

(* The ticker; or Run has cancelled the context.                           *)
Polls(r) == loop[r] = "wait" /\ ~interrupted /\ LoopTo(r, "fetch")
LoopEnds(r) == loop[r] = "wait" /\ interrupted /\ LoopTo(r, "ended")

(* The server does not answer, answers with an error or with what cannot be *)
(* read, or the context ends.  What was applied stays.                     *)
FetchFails(r) ==
    /\ loop[r] \in {"fetch", "answered"} /\ LoopTo(r, "wait")
    /\ IF interrupted THEN UNCHANGED left ELSE Spend("faults")

Answered(r) ==
    /\ loop[r] = "fetch" /\ ~interrupted /\ LoopTo(r, "answered")
    /\ got' = [got EXCEPT ![r] = published[r]]

(* What is as it was is left alone.                                        *)
refreshOnce(r) ==
    /\ loop[r] = "answered"
    /\ IF got[r] = last[r] THEN LoopTo(r, "wait") /\ UNCHANGED todo
       ELSE LoopTo(r, "apply") /\ todo' = [todo EXCEPT ![r] = Surfaces[r]]

(* The surfaces are set one by one, each under its own lock.               *)
Sets(r) ==
    /\ loop[r] = "apply"
    /\ inForce' = [inForce EXCEPT ![Head(todo[r])] = got[r]]
    /\ todo' = [todo EXCEPT ![r] = Tail(@)]
    /\ IF Len(todo[r]) > 1 THEN UNCHANGED <<loop, last>>
       ELSE LoopTo(r, "wait") /\ last' = [last EXCEPT ![r] = got[r]]

Refreshes(r) ==
    /\ \/ (Polls(r) \/ LoopEnds(r)) /\ UNCHANGED <<left, got, last, todo, inForce>>
       \/ FetchFails(r) /\ UNCHANGED <<got, last, todo, inForce>>
       \/ Answered(r) /\ UNCHANGED <<left, last, todo, inForce>>
       \/ refreshOnce(r) /\ UNCHANGED <<left, got, last, inForce>>
       \/ Sets(r) /\ UNCHANGED <<left, got>>
    /\ UNCHANGED <<vars, historyVars, rig, published, stopVars>>

CommandRefresh == Refreshes("commands")
FlowRefresh == Refreshes("flows")
ConfigRefresh == Refreshes("config")

(* The account's usage, as others have reported it, becomes the baseline.  *)
BudgetRefresh ==
    /\ \/ (Polls("budget") \/ LoopEnds("budget")) /\ UNCHANGED vars
       \/ loop["budget"] = "fetch" /\ LoopTo("budget", "wait") /\ UNCHANGED vars
       \/ loop["budget"] = "fetch" /\ ~interrupted /\ LoopTo("budget", "wait") /\ SetBaseline
    /\ UNCHANGED <<historyVars, rig, left, published, got, last, todo, inForce, stopVars>>

-----------------------------------------------------------------------------
(* Run.                                                                    *)

RunStep == UNCHANGED <<vars, historyVars, rig, left, refreshVars>>

(* SIGTERM, or the gateway has been idle.                                  *)
Interrupt ==
    /\ rig.interrupts /\ run = "race" /\ interrupted' = TRUE
    /\ RunStep /\ UNCHANGED <<run, over, link, pushed>>

(* A half returns: it was cancelled, or its connector gave up, or its listener *)
(* broke.  The agent has stopped its connectors by then.                   *)
HalfReturns(h) ==
    /\ h \in rig.halves \ over /\ (interrupted \/ h \in rig.quits)
    /\ over' = over \cup {h}
    /\ link' = IF h = "gateway" THEN link ELSE IF interrupted THEN "stopped" ELSE "ended"
    /\ RunStep /\ UNCHANGED <<run, interrupted, pushed>>

(* The first to return stops the other.                                    *)
First ==
    /\ run = "race" /\ over # {}
    /\ run' = "second" /\ interrupted' = TRUE
    /\ RunStep /\ UNCHANGED <<over, link, pushed>>

Second ==
    /\ run = "second" /\ over = rig.halves
    /\ run' = "drain"
    /\ RunStep /\ UNCHANGED <<interrupted, over, link, pushed>>

(* Mutant: the loops are not waited for.                                   *)
waitRefresh_mutant ==
    /\ run = "drain" /\ run' = "flush"
    /\ RunStep /\ UNCHANGED <<interrupted, over, link, pushed>>

(* The loops are waited for.                                               *)
waitRefresh ==
    /\ run = "drain" /\ \A r \in rig.loops : loop[r] = "ended"
    /\ run' = "flush"
    /\ RunStep /\ UNCHANGED <<interrupted, over, link, pushed>>

(* What the connector reports.                                             *)
buildIRCSnapshot == <<inForce["nick"], inForce["channels"], inForce["intent"], link>>

(* The deferred Flush: the webhook takes the snapshot, or not.             *)
Flush ==
    /\ run = "flush" /\ run' = "returned"
    /\ pushed' \in {<<>>, <<buildIRCSnapshot>>}
    /\ RunStep /\ UNCHANGED <<interrupted, over, link>>

RunNext == First \/ Second \/ waitRefresh \/ Flush

-----------------------------------------------------------------------------
(* The skills and the history, in the process.                             *)

(* The scheduler's loop: it ends between two ticks.                        *)
SchedulerEnds ==
    /\ place[Sched] = "idle" /\ LoopEnds("scheduler")
    /\ UNCHANGED <<vars, historyVars, rig, left, published, got, last, todo, inForce, stopVars>>

SkillStep == UNCHANGED <<historyVars, rigVars>>
WorksOn(p) == SkillStep /\ Works(p)
SweepsIn ==
    /\ SkillStep
    /\ \/ Tick /\ loop["scheduler"] = "wait" /\ ~interrupted
       \/ Sweep \/ LiftOne \/ \E k \in Kind : Fire(Sched, k)

(* A process that has gone down starts again.                              *)
Reboot ==
    /\ over = {} /\ ~interrupted /\ Restart
    /\ loop' = [r \in Background |-> Started(r)] /\ last' = [r \in Refresher |-> NoValue]
    /\ todo' = [r \in Refresher |-> <<>>] /\ inForce' = [s \in Surface |-> Booted]
    /\ UNCHANGED <<historyVars, rig, left, published, got, stopVars>>

RuntimeNext ==
    \/ \E r \in Refresher : Publish(r)
    \/ \E s \in UsersOwn : UserChanges(s)
    \/ CommandRefresh \/ FlowRefresh \/ ConfigRefresh \/ BudgetRefresh \/ SchedulerEnds
    \/ Interrupt \/ RunNext \/ \E h \in Half : HalfReturns(h)
    \/ \E p \in Thread : WorksOn(p)
    \/ SweepsIn \/ Reboot
    \/ SkillStep /\ (Prune \/ \E p \in Thread \ {Sched} : \E k \in Kind : Fire(p, k))
    \/ HistoryNext /\ UNCHANGED <<vars, rigVars>>

(* Every thread goes on: calls have timeouts, tickers tick, and a half that is *)
(* told to returns.                                                        *)
Fairness ==
    /\ WF_runtimeVars(SweepsIn) /\ \A p \in Thread : WF_runtimeVars(WorksOn(p))
    /\ WF_runtimeVars(CommandRefresh) /\ WF_runtimeVars(FlowRefresh)
    /\ WF_runtimeVars(ConfigRefresh) /\ WF_runtimeVars(BudgetRefresh)
    /\ WF_runtimeVars(RunNext \/ SchedulerEnds \/ (interrupted /\ \E h \in Half : HalfReturns(h)))

RuntimeSpec == RuntimeInit /\ [][RuntimeNext]_runtimeVars /\ Fairness

-----------------------------------------------------------------------------
(* What is promised.                                                       *)

SetBy(r) == CASE r = "commands" -> {"registry", "engine", "scheduler"}
              [] r = "flows" -> {"flows"}
              [] r = "config" -> {"nick", "channels", "intent"}

(* What an endpoint comes to serve is in force on every surface in the end,
   whenever it was published and whatever fetches failed, unless a user has had
   the last word there (the refresh packages, wire.go:299-323, runtime.go:241-296). *)
RefreshIsApplied ==
    \A r \in {"commands", "flows", "config"} :
       <>[](\/ r \notin rig.loops \/ interrupted
            \/ \A s \in SetBy(r) : inForce[s] \in {published[r], Own})

(* A value that is remembered as applied, so that it is left alone when it is fetched
   again, is in force on every surface: none was passed over, and none has had
   another refresher's (RefreshOnce of the refresh packages).              *)
AppliedIsInForce ==
    \A r \in {"commands", "flows", "config"} :
       last[r] # NoValue /\ loop[r] # "apply" => \A s \in SetBy(r) : inForce[s] \in {last[r], Own}

(* A half that returns, or an interrupt, ends Run; and what it has pushed at the
   end, if that reached the webhook, is the state the connector was left in, for
   nothing that could still change it is running (runtime.go:835-921).     *)
LastStateIsPushed ==
    interrupted \/ over # {} ~>
        [](run = "returned" /\ pushed \in {<<>>, <<buildIRCSnapshot>>})

(* Once the halves are over and the loops have ended, nothing is left that moves
   what the connector has, and what is pushed is the last of it, ...        *)
PushedIsLast == run = "returned" => pushed \in {<<>>, <<buildIRCSnapshot>>}

(* ... and stays so: after Run nothing of it changes any more.  These two are the
   safety half of LastStateIsPushed (runtime.go:835-921).                  *)
NothingAfterRun ==
    [][run = "returned" => UNCHANGED <<run, pushed, link, inForce>>]_runtimeVars

=============================================================================
