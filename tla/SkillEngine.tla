----------------------------- MODULE SkillEngine -----------------------------
(***************************************************************************)
(* What a tenant's skills and flows do when they fire: a skill's action    *)
(* (src/internal/skill/engine.go), the timed effects its scheduler lifts   *)
(* (src/internal/skill/scheduler.go), the walk of a flow's graph           *)
(* (src/internal/flow), and the model behind its budget                    *)
(* (src/internal/llm), on one connector and one store.                     *)
(*                                                                         *)
(* Threads: the drain loop, the connector's dispatcher and the webhook     *)
(* ingress fire rules whenever something comes; Sched fires what is due    *)
(* and then sweeps the lifts.  A thread fires one rule at a time.  Which   *)
(* rule matches, and its text, are left out: a thread fires any kind its   *)
(* instance has.  Answers, replies and effects without duration change     *)
(* nothing here.                                                           *)
(*                                                                         *)
(* The store is the one behind HTTP: it outlives the process, and a call   *)
(* of it may fail, which the code takes for an absent key or ignores.      *)
(***************************************************************************)
EXTENDS Integers, FiniteSets, Sequences

CONSTANTS
    Thread, Sched,      \* what fires rules, and the scheduler's loop
    Who,                \* whom timed effects are about
    Node,               \* nodes of flows
    MaxUse,             \* the most a call may cost, per dimension
    Cap,                \* the caps, 0 for none
    maxSteps, maxWebhookRetries,
    duration,           \* of timed effects, in ticks
    Bounds              \* the instances

Dim == {"input", "output"}
Kind == {"llm", "classify", "effect", "webhook", "flow"}
NodeType == {"plain", "llm", "webhook"}

ASSUME ThreadAssumption == Sched \in Thread /\ IsFiniteSet(Thread)
ASSUME BudgetAssumption ==
    /\ MaxUse \in [Dim -> Nat] /\ Cap \in [Dim -> Nat]
    /\ \A b \in Bounds : \A u \in b.uses :
          u \in [Dim -> Nat] /\ \A d \in Dim : u[d] <= MaxUse[d]

(* An instance: the threads, the kinds of rules and those on schedules, what *)
(* calls cost and the account reports, restarts to expect, and a flow: where *)
(* it starts, each node's type and what its ports lead to.                 *)
ASSUME BoundsAssumption ==
    /\ maxSteps \in Nat /\ maxWebhookRetries \in Nat /\ duration \in Nat \ {0}
    /\ \A b \in Bounds :
          /\ b.threads \subseteq Thread /\ b.kinds \cup b.schedules \subseteq Kind
          /\ b.restarts \in Nat /\ b.baselines \subseteq [Dim -> Nat]
          /\ b.entry \in Seq(Node) /\ b.type \in [Node -> NodeType]
          /\ \A n \in Node : b.ports[n] \subseteq Seq(Node)

VARIABLES
    bounds,          \* the instance
    restarts,
    place, kind,     \* where each thread is, and the kind of rule it fires
    agenda,          \* kinds of schedules due at the scheduler's tick
    whom,            \* whom its effect is about
    queue, node,     \* its walk of a flow: nodes to come, and the one at hand
    steps, attempt,  \* nodes taken, and failed posts
    muted,           \* whom a timed effect is in force on, as the server has it
    lifts, liftsLoaded,   \* the engine's pending lifts
    stored,          \* ... as the store has them
    due,             \* what the sweep is lifting
    excused,         \* history: whose lift a fault has lost
    spent, baseline  \* the budget: recorded here, and reported by the account

walkVars == <<queue, node, steps, attempt>>
liftVars == <<lifts, liftsLoaded, stored, due>>
budgetVars == <<spent, baseline>>
vars == <<bounds, restarts, place, kind, agenda, whom, walkVars, muted, excused,
          liftVars, budgetVars>>

Places == {"idle", "tick", "lifting", "ask", "asking", "apply", "schedule",
           "step", "post", "backoff"}

(* A lift and the ticks until it is due.  Lifts that fall together are one. *)
Lift == [who : Who, left : 0..duration]

TypeOK ==
    /\ bounds \in Bounds /\ restarts \in Nat
    /\ place \in [Thread -> Places] /\ kind \in [Thread -> Kind]
    /\ agenda \subseteq Kind /\ whom \in [Thread -> SUBSET Who]
    /\ queue \in [Thread -> Seq(Node)] /\ node \in [Thread -> SUBSET Node]
    /\ steps \in [Thread -> 0..maxSteps] /\ attempt \in [Thread -> 0..maxWebhookRetries]
    /\ muted \subseteq Who /\ excused \subseteq Who
    /\ lifts \subseteq Lift /\ stored \subseteq Lift /\ due \subseteq Lift
    /\ liftsLoaded \in BOOLEAN
    /\ spent \in [Dim -> Nat] /\ baseline \in bounds.baselines

Init ==
    /\ bounds \in Bounds /\ restarts = 0
    /\ place = [p \in Thread |-> "idle"] /\ kind = [p \in Thread |-> "llm"]
    /\ agenda = {} /\ whom = [p \in Thread |-> {}]
    /\ queue = [p \in Thread |-> <<>>] /\ node = [p \in Thread |-> {}]
    /\ steps = [p \in Thread |-> 0] /\ attempt = [p \in Thread |-> 0]
    /\ muted = {} /\ lifts = {} /\ stored = {} /\ due = {} /\ excused = {}
    /\ liftsLoaded = FALSE
    /\ spent = [d \in Dim |-> 0] /\ baseline \in bounds.baselines

GoTo(p, there) == place' = [place EXCEPT ![p] = there]

Nearer(l) == [l EXCEPT !.left = IF @ = 0 THEN 0 ELSE @ - 1]

(* Where a thread is between rules.                                        *)
Between(p) == IF p = Sched THEN "tick" ELSE "idle"

(* The rule is done, and nothing of its work remains.                      *)
Done(p) ==
    /\ GoTo(p, Between(p)) /\ kind' = [kind EXCEPT ![p] = "llm"]
    /\ whom' = [whom EXCEPT ![p] = {}]
    /\ queue' = [queue EXCEPT ![p] = <<>>] /\ node' = [node EXCEPT ![p] = {}]
    /\ steps' = [steps EXCEPT ![p] = 0] /\ attempt' = [attempt EXCEPT ![p] = 0]

-----------------------------------------------------------------------------
(* Firing.                                                                 *)

(* The ticker: what is due is taken, and each schedule moved on.           *)
Tick ==
    /\ Sched \in bounds.threads /\ place[Sched] = "idle"
    /\ GoTo(Sched, "tick")
    /\ agenda' \in SUBSET bounds.schedules
    /\ lifts' = {Nearer(l) : l \in lifts} /\ stored' = {Nearer(l) : l \in stored}
    /\ UNCHANGED <<bounds, restarts, kind, whom, walkVars, muted, excused, liftsLoaded, due,
                   budgetVars>>

Work == [llm |-> "ask", classify |-> "ask", effect |-> "apply", webhook |-> "post",
         flow |-> "step"]

(* What comes matches rules of some kinds, or its tick has found them due. *)
Matches(p) == IF p = Sched THEN agenda ELSE bounds.kinds

(* A flow starts at the nodes no edge leads to, and those its trigger names. *)
entryNodes(k) == IF k = "flow" THEN bounds.entry ELSE <<>>

Fire(p, k) ==
    /\ p \in bounds.threads /\ place[p] = Between(p) /\ k \in Matches(p)
    /\ agenda' = IF p = Sched THEN agenda \ {k} ELSE agenda
    /\ kind' = [kind EXCEPT ![p] = k]
    /\ GoTo(p, Work[k])
    /\ queue' = [queue EXCEPT ![p] = entryNodes(k)]
    /\ UNCHANGED <<bounds, restarts, whom, node, steps, attempt, muted, excused>>
    /\ UNCHANGED <<liftVars, budgetVars>>

-----------------------------------------------------------------------------
(* A flow's walk, and webhooks.                                            *)

(* A node that acts at once: it names a port, stops its branch, or fails.  *)
PlainNode(p, n) ==
    /\ bounds.type[n] = "plain"
    /\ \E next \in bounds.ports[n] \cup {<<>>} : queue' = [queue EXCEPT ![p] = Tail(@) \o next]
    /\ UNCHANGED <<place, node, attempt>>

(* A node that makes a call.                                               *)
CallNode(p, n) ==
    /\ bounds.type[n] # "plain" /\ GoTo(p, Work[bounds.type[n]])
    /\ queue' = [queue EXCEPT ![p] = Tail(@)]
    /\ node' = [node EXCEPT ![p] = {n}] /\ attempt' = [attempt EXCEPT ![p] = 0]

(* The next node, unless the ceiling is reached.                           *)
Step(p) ==
    /\ place[p] = "step" /\ queue[p] # <<>> /\ steps[p] < maxSteps
    /\ steps' = [steps EXCEPT ![p] = @ + 1]
    /\ PlainNode(p, Head(queue[p])) \/ CallNode(p, Head(queue[p]))
    /\ UNCHANGED <<bounds, restarts, kind, agenda, whom, muted, excused, liftVars, budgetVars>>

(* A node that waited is done.  After an error nothing follows it.         *)
Walk(p, ok) ==
    /\ GoTo(p, "step") /\ node' = [node EXCEPT ![p] = {}]
    /\ \E n \in node[p] : \E next \in IF ok THEN bounds.ports[n] ELSE {<<>>} :
          queue' = [queue EXCEPT ![p] = @ \o next]
    /\ UNCHANGED <<kind, whom, steps, attempt>>

(* What a rule goes on with after a call, or a flow with after a node.     *)
Goes(p, ok) == IF kind[p] = "flow" THEN Walk(p, ok) ELSE Done(p)

WalkEnds(p) ==
    /\ place[p] = "step" /\ (queue[p] = <<>> \/ steps[p] >= maxSteps)
    /\ Done(p)
    /\ UNCHANGED <<bounds, restarts, agenda, muted, excused, liftVars, budgetVars>>

(* A webhook is posted: a skill's once, whatever comes of it; a node's again *)
(* if that can help and a retry is left.  Its failure does not stop a flow. *)
Post(p) ==
    /\ place[p] = "post"
    /\ \/ Goes(p, TRUE)
       \/ /\ kind[p] = "flow" /\ attempt[p] < maxWebhookRetries
          /\ GoTo(p, "backoff") /\ attempt' = [attempt EXCEPT ![p] = @ + 1]
          /\ UNCHANGED <<kind, whom, queue, node, steps>>
    /\ UNCHANGED <<bounds, restarts, agenda, muted, excused, liftVars, budgetVars>>

(* The wait ends by its timer, or gives up with the context.               *)
Backoff(p) ==
    /\ place[p] = "backoff"
    /\ \/ GoTo(p, "post") /\ UNCHANGED <<kind, whom, walkVars>>
       \/ Goes(p, TRUE)
    /\ UNCHANGED <<bounds, restarts, agenda, muted, excused, liftVars, budgetVars>>

-----------------------------------------------------------------------------
(* The model behind the budget.                                            *)

(* Mutant: the cap itself may be passed.                                   *)
Allow_mutant == \A d \in Dim : Cap[d] > 0 => baseline[d] + spent[d] <= Cap[d]

(* Under both caps, as of now: calls on their way are not counted.         *)
Allow == \A d \in Dim : Cap[d] > 0 => baseline[d] + spent[d] < Cap[d]

Ask(p) ==
    /\ place[p] = "ask"
    /\ \/ Allow /\ GoTo(p, "asking") /\ UNCHANGED <<kind, whom, walkVars>>
       \/ ~Allow /\ Goes(p, FALSE)
    /\ UNCHANGED <<bounds, restarts, agenda, muted, excused, liftVars, budgetVars>>

(* The provider answers, and what that cost is recorded.  A verdict may    *)
(* call for an effect.                                                     *)
Answers(p, u) ==
    /\ place[p] = "asking"
    /\ spent' = [d \in Dim |-> spent[d] + u[d]]
    /\ \/ Goes(p, TRUE)
       \/ kind[p] = "classify" /\ GoTo(p, "apply") /\ UNCHANGED <<kind, whom, walkVars>>
    /\ UNCHANGED <<bounds, restarts, agenda, muted, excused, liftVars, baseline>>

AskFails(p) ==
    /\ place[p] = "asking" /\ Goes(p, FALSE)
    /\ UNCHANGED <<bounds, restarts, agenda, muted, excused, liftVars, budgetVars>>

(* What was recorded longer ago than the window no longer counts.          *)
Prune ==
    /\ \E d \in Dim : spent[d] > 0
    /\ spent' \in {s \in [Dim -> 0..(spent["input"] + spent["output"])] :
                      \A d \in Dim : s[d] <= spent[d]}
    /\ UNCHANGED <<bounds, restarts, place, kind, agenda, whom, walkVars, muted, excused>>
    /\ UNCHANGED <<liftVars, baseline>>

SetBaseline ==
    /\ baseline' \in bounds.baselines
    /\ UNCHANGED <<bounds, restarts, place, kind, agenda, whom, walkVars, muted, excused>>
    /\ UNCHANGED <<liftVars, spent>>

-----------------------------------------------------------------------------
(* Timed effects.                                                          *)

(* The effect is set on someone, for a time; or it fails, is none of those  *)
(* that can be lifted, or has no channel.                                  *)
Apply(p) ==
    /\ place[p] = "apply"
    /\ \/ /\ \E w \in Who : /\ muted' = muted \cup {w} /\ excused' = excused \ {w}
                            /\ whom' = [whom EXCEPT ![p] = {w}]
          /\ GoTo(p, "schedule") /\ UNCHANGED <<kind, walkVars>>
       \/ Done(p) /\ UNCHANGED <<muted, excused>>
    /\ UNCHANGED <<bounds, restarts, agenda, liftVars, budgetVars>>

(* What the engine holds once the pending lifts have been loaded, and whose *)
(* are lost: the load is tried once, and an error is taken for none.       *)
Hydrated(got) == IF liftsLoaded \/ ~got THEN lifts ELSE stored
Forgotten(got) == IF liftsLoaded \/ got THEN {} ELSE {l.who : l \in stored}

(* The set is written to the store, or that fails.                         *)
persistLifts(ls) == stored' \in {ls, stored}

(* Mutant: the first lift is added without loading what the store has.     *)
ScheduleLift_mutant(p) ==
    /\ place[p] = "schedule"
    /\ lifts' = lifts \cup [who : whom[p], left : {duration}] /\ persistLifts(lifts')
    /\ Done(p)
    /\ UNCHANGED <<bounds, restarts, agenda, muted, excused, due, liftsLoaded, budgetVars>>

ScheduleLift(p) ==
    /\ place[p] = "schedule"
    /\ \E got \in BOOLEAN :
          LET ls == Hydrated(got) \cup [who : whom[p], left : {duration}] IN
             /\ lifts' = ls /\ persistLifts(ls)
             /\ excused' = excused \cup Forgotten(got)
    /\ liftsLoaded' = TRUE
    /\ Done(p)
    /\ UNCHANGED <<bounds, restarts, agenda, muted, due, budgetVars>>

(* The sweep takes the lifts that are due, and stores the rest first.      *)
Sweep ==
    /\ place[Sched] = "tick" /\ agenda = {}
    /\ \E got \in BOOLEAN :
          LET ls == Hydrated(got) IN
             /\ due' = {l \in ls : l.left = 0} /\ lifts' = ls \ due'
             /\ IF due' = {} THEN UNCHANGED stored ELSE persistLifts(lifts')
             /\ GoTo(Sched, IF due' = {} THEN "idle" ELSE "lifting")
             /\ excused' = excused \cup Forgotten(got)
    /\ liftsLoaded' = TRUE
    /\ UNCHANGED <<bounds, restarts, kind, agenda, whom, walkVars, muted, budgetVars>>

(* One mode is taken back, or the connector refuses; there is no second try. *)
LiftOne ==
    /\ place[Sched] = "lifting"
    /\ \E l \in due :
          /\ due' = due \ {l}
          /\ \/ muted' = muted \ {l.who} /\ excused' = excused \ {l.who}
             \/ excused' = excused \cup {l.who} /\ UNCHANGED muted
    /\ GoTo(Sched, IF due' = {} THEN "idle" ELSE "lifting")
    /\ UNCHANGED <<bounds, restarts, kind, agenda, whom, walkVars, lifts, liftsLoaded, stored,
                   budgetVars>>

-----------------------------------------------------------------------------
(* Whose lift is in memory only, or has yet to be made.                    *)
Losable == {w \in Who : \/ \E p \in Thread : w \in whom[p]
                        \/ \E l \in (lifts \cup due) \ stored : l.who = w}

(* The process restarts: memory is gone, and modes set without a stored lift *)
(* stay.                                                                   *)
Restart ==
    /\ restarts < bounds.restarts /\ restarts' = restarts + 1
    /\ place' = [p \in Thread |-> "idle"] /\ kind' = [p \in Thread |-> "llm"]
    /\ whom' = [p \in Thread |-> {}]
    /\ queue' = [p \in Thread |-> <<>>] /\ node' = [p \in Thread |-> {}]
    /\ steps' = [p \in Thread |-> 0] /\ attempt' = [p \in Thread |-> 0]
    /\ agenda' = {} /\ lifts' = {} /\ due' = {} /\ liftsLoaded' = FALSE
    /\ excused' = excused \cup Losable
    /\ spent' = [d \in Dim |-> 0] /\ baseline' \in bounds.baselines
    /\ UNCHANGED <<bounds, muted, stored>>

Works(p) ==
    \/ Step(p) \/ WalkEnds(p) \/ Post(p) \/ Backoff(p)
    \/ Ask(p) \/ AskFails(p) \/ \E u \in bounds.uses : Answers(p, u)
    \/ Apply(p) \/ ScheduleLift(p)

Sweeps == Tick \/ Sweep \/ LiftOne \/ \E k \in Kind : Fire(Sched, k)

Next ==
    \/ \E p \in Thread : Works(p) \/ \E k \in Kind : Fire(p, k)
    \/ Tick \/ Sweep \/ LiftOne
    \/ Prune \/ SetBaseline \/ Restart

Spec == Init /\ [][Next]_vars

-----------------------------------------------------------------------------
(* What is promised.                                                       *)

Asking == {p \in Thread : place[p] = "asking"}

(* The cap of the budget is soft: Allow, the provider's answer and Record are
   three steps, so that calls in flight together all pass it.  What is recorded,
   and what calls on their way can still add, stays below a cap by less than one
   call of every thread (Ask in budgeted.go).                              *)
OvershootIsBounded ==
    \A d \in Dim :
       Cap[d] > 0 => spent[d] + MaxUse[d] * Cardinality(Asking)
                        < Cap[d] + MaxUse[d] * Cardinality(Thread)

(* A timed effect ends, over restarts too, unless a fault took its lift: the
   connector refused, the store did not answer, or the process went down between
   two of the calls that keep it (SweepLifts: "timed effects auto-lift ... and
   survive a restart").                                                    *)
LiftComes == \A w \in Who : w \in muted ~> w \notin muted \/ w \in excused

(* No lift is lost on the way to that: whoever a timed effect is in force on is about
   to be scheduled, or is among the pending lifts or those the sweep has taken, or,
   until these are loaded, in the store (ensureLiftsLoaded, scheduleLift, SweepLifts).  *)
LiftIsKept ==
    \A w \in muted \ excused :
       \/ \E p \in Thread : w \in whom[p]
       \/ \E l \in lifts \cup due : l.who = w
       \/ ~liftsLoaded /\ \E l \in stored : l.who = w

=============================================================================
