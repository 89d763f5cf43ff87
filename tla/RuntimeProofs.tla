---------------------------- MODULE RuntimeProofs ----------------------------
(***************************************************************************)
(* What the engine of skills promises by itself holds in the runtime, for  *)
(* each step of the runtime is one of the engine's or leaves it alone: the *)
(* budget is overdrawn by little, and no timed effect loses its lift.  The *)
(* history stores what is heard of twice once, for every number of         *)
(* messages, every window and however many keys are remembered; who pages  *)
(* back through it misses nothing, for every cap and size of a page.  What *)
(* the refreshers remember as applied is in force; and what Run pushes at  *)
(* its end is the last state, whatever is wired and whoever ends it.       *)
(***************************************************************************)
EXTENDS Runtime, TLAPS, FiniteSetTheorems, SequenceTheorems

-----------------------------------------------------------------------------
(* The engine by itself: the types of its state.                           *)

(* The components of an instance, each on its own.                         *)
LEMMA BoundsFacts ==
    ASSUME NEW b \in Bounds
    PROVE  /\ b.threads \subseteq Thread /\ b.kinds \subseteq Kind
           /\ b.schedules \subseteq Kind /\ b.restarts \in Nat
           /\ b.baselines \subseteq [Dim -> Nat]
           /\ b.entry \in Seq(Node) /\ b.type \in [Node -> NodeType]
           /\ \A n \in Node : b.ports[n] \subseteq Seq(Node)
           /\ \A u \in b.uses : u \in [Dim -> Nat] /\ \A d \in Dim : u[d] <= MaxUse[d]
BY BoundsAssumption, BudgetAssumption

(* What a thread is at after its rule, or a node of its flow, is done.     *)
LEMMA DoneType ==
    ASSUME TypeOK, NEW p \in Thread, Done(p)
    PROVE  /\ place' \in [Thread -> Places] /\ kind' \in [Thread -> Kind]
           /\ whom' \in [Thread -> SUBSET Who]
           /\ queue' \in [Thread -> Seq(Node)] /\ node' \in [Thread -> SUBSET Node]
           /\ steps' \in [Thread -> 0..maxSteps]
           /\ attempt' \in [Thread -> 0..maxWebhookRetries]
           /\ place' = [place EXCEPT ![p] = Between(p)]
<1>1. Between(p) \in Places
  BY DEF Between, Places
<1>2. maxSteps \in Nat /\ maxWebhookRetries \in Nat
  BY BoundsAssumption
<1>3. place' \in [Thread -> Places] /\ place' = [place EXCEPT ![p] = Between(p)]
  BY <1>1 DEF TypeOK, Done, GoTo
<1>4. kind' \in [Thread -> Kind] /\ whom' \in [Thread -> SUBSET Who]
  BY DEF TypeOK, Done, Kind
<1>5. queue' \in [Thread -> Seq(Node)] /\ node' \in [Thread -> SUBSET Node]
  BY DEF TypeOK, Done
<1>6. steps' \in [Thread -> 0..maxSteps] /\ attempt' \in [Thread -> 0..maxWebhookRetries]
  BY <1>2 DEF TypeOK, Done
<1> QED BY <1>3, <1>4, <1>5, <1>6

LEMMA WalkType ==
    ASSUME TypeOK, NEW p \in Thread, NEW ok \in BOOLEAN, Walk(p, ok)
    PROVE  /\ place' \in [Thread -> Places] /\ kind' \in [Thread -> Kind]
           /\ whom' \in [Thread -> SUBSET Who]
           /\ queue' \in [Thread -> Seq(Node)] /\ node' \in [Thread -> SUBSET Node]
           /\ steps' \in [Thread -> 0..maxSteps]
           /\ attempt' \in [Thread -> 0..maxWebhookRetries]
           /\ place' = [place EXCEPT ![p] = "step"]
<1>1. place' \in [Thread -> Places] /\ place' = [place EXCEPT ![p] = "step"]
  BY DEF TypeOK, Walk, GoTo, Places
<1>2. node' \in [Thread -> SUBSET Node]
  BY DEF TypeOK, Walk
<1>3. UNCHANGED <<kind, whom, steps, attempt>>
  BY DEF Walk
<1>4. PICK n \in node[p] : \E next \in IF ok THEN bounds.ports[n] ELSE {<<>>} :
         queue' = [queue EXCEPT ![p] = @ \o next]
  BY DEF Walk
<1>n. PICK next \in IF ok THEN bounds.ports[n] ELSE {<<>>} :
         queue' = [queue EXCEPT ![p] = @ \o next]
  BY <1>4
<1>5. n \in Node
  BY <1>4 DEF TypeOK
<1>6. next \in Seq(Node)
  <2>1. CASE ok
    BY <2>1, <1>n, <1>5, BoundsFacts DEF TypeOK
  <2>2. CASE ~ok
    BY <2>2, <1>n
  <2> QED BY <2>1, <2>2
<1>7. queue' \in [Thread -> Seq(Node)]
  <2>1. queue[p] \in Seq(Node) /\ queue \in [Thread -> Seq(Node)]
    BY DEF TypeOK
  <2>2. queue[p] \o next \in Seq(Node)
    BY <2>1, <1>6
  <2> QED BY <1>n, <2>1, <2>2
<1> QED BY <1>1, <1>2, <1>3, <1>7 DEF TypeOK

(* Either way the thread has left the model.                               *)
LEMMA GoesType ==
    ASSUME TypeOK, NEW p \in Thread, NEW ok \in BOOLEAN, Goes(p, ok)
    PROVE  /\ place' \in [Thread -> Places] /\ kind' \in [Thread -> Kind]
           /\ whom' \in [Thread -> SUBSET Who]
           /\ queue' \in [Thread -> Seq(Node)] /\ node' \in [Thread -> SUBSET Node]
           /\ steps' \in [Thread -> 0..maxSteps]
           /\ attempt' \in [Thread -> 0..maxWebhookRetries]
           /\ \E there \in Places \ {"asking"} : place' = [place EXCEPT ![p] = there]
<1>1. CASE kind[p] = "flow"
  BY <1>1, WalkType, Zenon DEF Goes, Places
<1>2. CASE kind[p] # "flow"
  <2>1. Done(p)
    BY <1>2 DEF Goes
  <2>2. Between(p) \in Places \ {"asking"}
    BY DEF Between, Places
  <2> QED BY <2>1, <2>2, DoneType
<1> QED BY <1>1, <1>2

-----------------------------------------------------------------------------
(* Types, one lemma for each action that does more than go on.             *)

LEMMA FireType ==
    ASSUME TypeOK, NEW p \in Thread, NEW k \in Kind, Fire(p, k)
    PROVE  TypeOK'
<1>1. Work[k] \in Places
  BY DEF Kind, Work, Places
<1>2. queue' \in [Thread -> Seq(Node)]
  <2>1. bounds.entry \in Seq(Node)
    BY BoundsFacts DEF TypeOK
  <2> QED BY <2>1 DEF TypeOK, Fire, entryNodes
<1>3. agenda' \subseteq Kind
  BY DEF TypeOK, Fire
<1>4. place' \in [Thread -> Places] /\ kind' \in [Thread -> Kind]
  BY <1>1 DEF TypeOK, Fire, GoTo
<1> QED BY <1>2, <1>3, <1>4 DEF TypeOK, Fire, liftVars, budgetVars

LEMMA TickType ==
    ASSUME TypeOK, Tick
    PROVE  TypeOK'
<1>1. place' \in [Thread -> Places]
  BY ThreadAssumption DEF TypeOK, Tick, GoTo, Places
<1>2. agenda' \subseteq Kind
  BY BoundsFacts DEF TypeOK, Tick
<1>3. \A l \in Lift : Nearer(l) \in Lift
  BY BoundsAssumption DEF Lift, Nearer
<1>4. lifts' \subseteq Lift /\ stored' \subseteq Lift
  BY <1>3 DEF TypeOK, Tick
<1> QED BY <1>1, <1>2, <1>4 DEF TypeOK, Tick, walkVars, budgetVars

LEMMA StepType ==
    ASSUME TypeOK, NEW p \in Thread, Step(p)
    PROVE  TypeOK'
<1> DEFINE n == Head(queue[p])
<1>1. queue[p] \in Seq(Node) /\ queue[p] # <<>>
  BY DEF TypeOK, Step
<1>2. n \in Node /\ Tail(queue[p]) \in Seq(Node)
  BY <1>1
<1>3. steps' \in [Thread -> 0..maxSteps]
  BY BoundsAssumption DEF TypeOK, Step
<1>4. bounds.type[n] \in NodeType
  BY <1>2, BoundsFacts DEF TypeOK
<1>5. /\ place' \in [Thread -> Places] /\ queue' \in [Thread -> Seq(Node)]
      /\ node' \in [Thread -> SUBSET Node] /\ attempt' \in [Thread -> 0..maxWebhookRetries]
  <2>1. CASE bounds.type[n] = "plain"
    <3>1. PICK next \in bounds.ports[n] \cup {<<>>} :
             queue' = [queue EXCEPT ![p] = Tail(@) \o next]
      BY <2>1 DEF Step, PlainNode, CallNode
    <3>2. next \in Seq(Node)
      <4>1. bounds.ports[n] \subseteq Seq(Node) /\ <<>> \in Seq(Node)
        BY <1>2, BoundsFacts DEF TypeOK
      <4> QED BY <3>1, <4>1
    <3>3. Tail(queue[p]) \o next \in Seq(Node)
      BY <1>2, <3>2
    <3>4. queue' \in [Thread -> Seq(Node)]
      BY <3>1, <3>3 DEF TypeOK
    <3> QED BY <2>1, <3>4 DEF TypeOK, Step, PlainNode, CallNode
  <2>2. CASE bounds.type[n] # "plain"
    <3>1. /\ queue' = [queue EXCEPT ![p] = Tail(@)] /\ node' = [node EXCEPT ![p] = {n}]
          /\ attempt' = [attempt EXCEPT ![p] = 0] /\ GoTo(p, Work[bounds.type[n]])
      BY <2>2 DEF Step, PlainNode, CallNode
    <3>2. Work[bounds.type[n]] \in Places
      BY <2>2, <1>4 DEF NodeType, Work, Kind, Places
    <3>3. place' \in [Thread -> Places]
      BY <3>1, <3>2 DEF TypeOK, GoTo
    <3>4. attempt' \in [Thread -> 0..maxWebhookRetries]
      BY <3>1, BoundsAssumption DEF TypeOK
    <3> QED BY <1>2, <3>1, <3>3, <3>4 DEF TypeOK
  <2> QED BY <2>1, <2>2
<1> QED BY <1>3, <1>5 DEF TypeOK, Step, liftVars, budgetVars

LEMMA PostType ==
    ASSUME TypeOK, NEW p \in Thread, Post(p) \/ Backoff(p) \/ WalkEnds(p)
    PROVE  TypeOK'
<1>1. CASE Goes(p, TRUE) /\ (Post(p) \/ Backoff(p))
  BY <1>1, GoesType DEF TypeOK, Post, Backoff, liftVars, budgetVars
<1>2. CASE WalkEnds(p)
  BY <1>2, DoneType DEF TypeOK, WalkEnds, liftVars, budgetVars
<1>3. CASE Post(p) /\ ~Goes(p, TRUE)
  <2>1. attempt' \in [Thread -> 0..maxWebhookRetries]
    <3>1. attempt' = [attempt EXCEPT ![p] = @ + 1] /\ attempt[p] < maxWebhookRetries
      BY <1>3 DEF Post
    <3>2. attempt[p] \in 0..maxWebhookRetries /\ maxWebhookRetries \in Nat
      BY BoundsAssumption DEF TypeOK
    <3>3. attempt[p] + 1 \in 0..maxWebhookRetries
      BY <3>1, <3>2
    <3> QED BY <3>1, <3>3 DEF TypeOK
  <2>2. place' \in [Thread -> Places]
    BY <1>3 DEF TypeOK, Post, GoTo, Places
  <2> QED BY <1>3, <2>1, <2>2 DEF TypeOK, Post, liftVars, budgetVars
<1>4. CASE Backoff(p) /\ ~Goes(p, TRUE)
  <2>1. place' \in [Thread -> Places]
    BY <1>4 DEF TypeOK, Backoff, GoTo, Places
  <2> QED BY <1>4, <2>1 DEF TypeOK, Backoff, walkVars, liftVars, budgetVars
<1> QED BY <1>1, <1>2, <1>3, <1>4

LEMMA AskType ==
    ASSUME TypeOK, NEW p \in Thread, Ask(p) \/ AskFails(p)
    PROVE  TypeOK'
<1>1. CASE Goes(p, FALSE)
  BY <1>1, GoesType DEF TypeOK, Ask, AskFails, liftVars, budgetVars
<1>2. CASE ~Goes(p, FALSE)
  <2>1. Ask(p) /\ GoTo(p, "asking") /\ UNCHANGED <<kind, whom, walkVars>>
    BY <1>2 DEF Ask, AskFails
  <2>2. place' \in [Thread -> Places]
    BY <2>1 DEF TypeOK, GoTo, Places
  <2> QED BY <2>1, <2>2 DEF TypeOK, Ask, walkVars, liftVars, budgetVars
<1> QED BY <1>1, <1>2

LEMMA AnswersType ==
    ASSUME TypeOK, NEW p \in Thread, NEW u \in bounds.uses, Answers(p, u)
    PROVE  TypeOK'
<1>1. spent' \in [Dim -> Nat]
  <2>1. u \in [Dim -> Nat]
    BY BoundsFacts DEF TypeOK
  <2> QED BY <2>1 DEF TypeOK, Answers
<1>2. CASE Goes(p, TRUE)
  BY <1>1, <1>2, GoesType DEF TypeOK, Answers, liftVars
<1>3. CASE ~Goes(p, TRUE)
  <2>1. GoTo(p, "apply") /\ UNCHANGED <<kind, whom, walkVars>>
    BY <1>3 DEF Answers
  <2>2. place' \in [Thread -> Places]
    BY <2>1 DEF TypeOK, GoTo, Places
  <2> QED BY <1>1, <2>1, <2>2 DEF TypeOK, Answers, walkVars, liftVars
<1> QED BY <1>2, <1>3

LEMMA ApplyType ==
    ASSUME TypeOK, NEW p \in Thread, Apply(p)
    PROVE  TypeOK'
<1>1. CASE Done(p) /\ UNCHANGED <<muted, excused>>
  BY <1>1, DoneType DEF TypeOK, Apply, liftVars, budgetVars
<1>2. CASE ~(Done(p) /\ UNCHANGED <<muted, excused>>)
  <2>1. PICK w \in Who : /\ muted' = muted \cup {w} /\ excused' = excused \ {w}
                         /\ whom' = [whom EXCEPT ![p] = {w}]
    BY <1>2 DEF Apply
  <2>2. GoTo(p, "schedule") /\ UNCHANGED <<kind, walkVars>>
    BY <1>2 DEF Apply
  <2>3. place' \in [Thread -> Places]
    BY <2>2 DEF TypeOK, GoTo, Places
  <2> QED BY <2>1, <2>2, <2>3 DEF TypeOK, Apply, walkVars, liftVars, budgetVars
<1> QED BY <1>1, <1>2

LEMMA ScheduleLiftType ==
    ASSUME TypeOK, NEW p \in Thread, ScheduleLift(p)
    PROVE  TypeOK'
<1>1. PICK hit \in BOOLEAN :
         LET ls == Hydrated(hit) \cup [who : whom[p], left : {duration}] IN
            /\ lifts' = ls /\ persistLifts(ls)
            /\ excused' = excused \cup Forgotten(hit)
  BY DEF ScheduleLift
<1>2. Hydrated(hit) \subseteq Lift /\ Forgotten(hit) \subseteq Who
  BY DEF TypeOK, Hydrated, Forgotten, Lift
<1>3. [who : whom[p], left : {duration}] \subseteq Lift
  <2>1. whom[p] \subseteq Who /\ duration \in 0..duration
    BY BoundsAssumption DEF TypeOK
  <2> QED BY <2>1 DEF Lift
<1>4. lifts' \subseteq Lift /\ stored' \subseteq Lift /\ excused' \subseteq Who
  BY <1>1, <1>2, <1>3 DEF TypeOK, persistLifts
<1> QED BY <1>4, DoneType DEF TypeOK, ScheduleLift, budgetVars

LEMMA SweepType ==
    ASSUME TypeOK, Sweep \/ LiftOne
    PROVE  TypeOK'
<1>1. CASE Sweep
  <2>1. PICK hit \in BOOLEAN :
           /\ due' = {l \in Hydrated(hit) : l.left = 0} /\ lifts' = Hydrated(hit) \ due'
           /\ IF due' = {} THEN UNCHANGED stored ELSE persistLifts(lifts')
           /\ GoTo(Sched, IF due' = {} THEN "idle" ELSE "lifting")
           /\ excused' = excused \cup Forgotten(hit)
    BY <1>1 DEF Sweep
  <2>2. Hydrated(hit) \subseteq Lift /\ Forgotten(hit) \subseteq Who
    BY DEF TypeOK, Hydrated, Forgotten, Lift
  <2>3. due' \subseteq Lift /\ lifts' \subseteq Lift /\ excused' \subseteq Who
    BY <2>1, <2>2 DEF TypeOK
  <2>4. stored' \subseteq Lift
    BY <2>1, <2>3 DEF TypeOK, persistLifts
  <2>5. place' \in [Thread -> Places]
    BY <2>1 DEF TypeOK, GoTo, Places
  <2> QED BY <1>1, <2>3, <2>4, <2>5 DEF TypeOK, Sweep, walkVars, budgetVars
<1>2. CASE LiftOne
  <2>1. PICK l \in due :
           /\ due' = due \ {l}
           /\ \/ muted' = muted \ {l.who} /\ excused' = excused \ {l.who}
              \/ excused' = excused \cup {l.who} /\ UNCHANGED muted
    BY <1>2 DEF LiftOne
  <2>2. due' \subseteq Lift /\ muted' \subseteq Who /\ excused' \subseteq Who
    BY <2>1 DEF TypeOK, Lift
  <2>3. place' \in [Thread -> Places]
    BY <1>2 DEF TypeOK, LiftOne, GoTo, Places
  <2> QED BY <1>2, <2>2, <2>3 DEF TypeOK, LiftOne, walkVars, budgetVars
<1> QED BY <1>1, <1>2

LEMMA RestType ==
    ASSUME TypeOK, Prune \/ SetBaseline \/ Restart
    PROVE  TypeOK'
<1>1. CASE Prune
  <2>1. spent' \in [Dim -> Nat]
    BY <1>1 DEF TypeOK, Prune, Dim
  <2> QED BY <1>1, <2>1 DEF TypeOK, Prune, walkVars, liftVars
<1>2. CASE SetBaseline
  BY <1>2 DEF TypeOK, SetBaseline, walkVars, liftVars
<1>3. CASE Restart
  <2>1. /\ place' \in [Thread -> Places] /\ kind' \in [Thread -> Kind]
        /\ whom' \in [Thread -> SUBSET Who] /\ queue' \in [Thread -> Seq(Node)]
        /\ node' \in [Thread -> SUBSET Node] /\ steps' \in [Thread -> 0..maxSteps]
        /\ attempt' \in [Thread -> 0..maxWebhookRetries]
    BY <1>3, BoundsAssumption DEF Restart, Places, Kind
  <2>2. excused' \subseteq Who
    BY <1>3 DEF TypeOK, Restart, Losable
  <2>3. spent' \in [Dim -> Nat] /\ baseline' \in bounds.baselines /\ restarts' \in Nat
    BY <1>3 DEF Restart, TypeOK
  <2>4. /\ agenda' = {} /\ lifts' = {} /\ due' = {} /\ liftsLoaded' = FALSE
        /\ UNCHANGED <<bounds, muted, stored>>
    BY <1>3 DEF Restart
  <2> QED BY <2>1, <2>2, <2>3, <2>4 DEF TypeOK
<1> QED BY <1>1, <1>2, <1>3

LEMMA InitType == Init => TypeOK
<1> SUFFICES ASSUME Init PROVE TypeOK
  OBVIOUS
<1>1. maxSteps \in Nat /\ maxWebhookRetries \in Nat
  BY BoundsAssumption
<1>2. steps \in [Thread -> 0..maxSteps] /\ attempt \in [Thread -> 0..maxWebhookRetries]
  BY <1>1 DEF Init
<1>3. /\ place \in [Thread -> Places] /\ kind \in [Thread -> Kind]
      /\ whom \in [Thread -> SUBSET Who] /\ node \in [Thread -> SUBSET Node]
      /\ queue \in [Thread -> Seq(Node)]
  BY DEF Init, Places, Kind
<1>4. spent \in [Dim -> Nat]
  BY DEF Init
<1> QED BY <1>2, <1>3, <1>4 DEF Init, TypeOK

LEMMA NextType == TypeOK /\ [Next]_vars => TypeOK'
<1> SUFFICES ASSUME TypeOK, [Next]_vars PROVE TypeOK'
  OBVIOUS
<1>1. CASE UNCHANGED vars
  BY <1>1 DEF TypeOK, vars, walkVars, liftVars, budgetVars
<1>2. CASE \E p \in Thread : Works(p)
  BY <1>2, StepType, PostType, AskType, AnswersType, ApplyType, ScheduleLiftType DEF Works
<1>3. CASE \E p \in Thread : \E k \in Kind : Fire(p, k)
  BY <1>3, FireType
<1>4. CASE Tick \/ Sweep \/ LiftOne \/ Prune \/ SetBaseline \/ Restart
  BY <1>4, TickType, SweepType, RestType
<1> QED BY <1>1, <1>2, <1>3, <1>4 DEF Next

(* The state is of its types: a flow never runs past its ceiling, and a    *)
(* webhook node never past its retries (maxSteps and maxWebhookRetries in    *)
(* src/internal/flow).                                                     *)
THEOREM TypeCorrect == Spec => []TypeOK
BY InitType, NextType, PTL DEF Spec

-----------------------------------------------------------------------------
(* The budget.                                                             *)

(* What a thread does changes who is at the model: no more than one joins or *)
(* leaves, and only Ask joins.                                             *)
LEMMA AskingFinite ==
    ASSUME place \in [Thread -> Places]
    PROVE  /\ IsFiniteSet(Asking) /\ Cardinality(Asking) \in Nat
           /\ Cardinality(Asking) <= Cardinality(Thread) /\ Cardinality(Thread) \in Nat
<1>1. Asking \subseteq Thread /\ IsFiniteSet(Thread)
  BY ThreadAssumption DEF Asking
<1> QED BY <1>1, FS_Subset, FS_CardinalityType

(* Nobody joins and nothing more is recorded: the bound stays.             *)
LEMMA NoneJoins ==
    ASSUME TypeOK, TypeOK', OvershootIsBounded, Asking' \subseteq Asking,
           \A d \in Dim : spent'[d] <= spent[d]
    PROVE  OvershootIsBounded'
<1>1. Cardinality(Asking') <= Cardinality(Asking)
  BY AskingFinite, FS_Subset DEF TypeOK
<1>2. Cardinality(Asking') \in Nat /\ Cardinality(Asking) \in Nat /\ Cardinality(Thread) \in Nat
  BY AskingFinite, AskingFinite, <1>1, FS_Subset, FS_CardinalityType DEF TypeOK
<1> SUFFICES ASSUME NEW d \in Dim, Cap[d] > 0
             PROVE  spent'[d] + MaxUse[d] * Cardinality(Asking')
                       < Cap[d] + MaxUse[d] * Cardinality(Thread)
  BY DEF OvershootIsBounded
<1>3. /\ MaxUse[d] \in Nat /\ Cap[d] \in Nat /\ spent[d] \in Nat /\ spent'[d] \in Nat
      /\ spent'[d] <= spent[d]
  BY BudgetAssumption DEF TypeOK
<1>4. MaxUse[d] * Cardinality(Asking') <= MaxUse[d] * Cardinality(Asking)
  BY <1>1, <1>2, <1>3
<1>5. spent[d] + MaxUse[d] * Cardinality(Asking) < Cap[d] + MaxUse[d] * Cardinality(Thread)
  BY DEF OvershootIsBounded
<1>6. /\ MaxUse[d] * Cardinality(Asking') \in Nat /\ MaxUse[d] * Cardinality(Asking) \in Nat
      /\ MaxUse[d] * Cardinality(Thread) \in Nat
  BY <1>2, <1>3
<1> QED BY <1>3, <1>4, <1>5, <1>6

(* A thread goes anywhere but to the model.                                *)
LEMMA GoesElsewhere ==
    ASSUME TypeOK, NEW p \in Thread, NEW there \in Places \ {"asking"},
           place' = [place EXCEPT ![p] = there]
    PROVE  Asking' = Asking \ {p}
BY DEF TypeOK, Asking

LEMMA WorksElsewhere ==
    ASSUME TypeOK, NEW p \in Thread,
           \/ Step(p) \/ WalkEnds(p) \/ Post(p) \/ Backoff(p) \/ AskFails(p)
           \/ Apply(p) \/ ScheduleLift(p) \/ \E k \in Kind : Fire(p, k)
    PROVE  Asking' \subseteq Asking /\ UNCHANGED spent
<1>1. CASE Step(p)
  <2> DEFINE n == Head(queue[p])
  <2>1. CASE bounds.type[n] = "plain"
    BY <1>1, <2>1 DEF Step, PlainNode, CallNode, Asking, budgetVars
  <2>2. CASE bounds.type[n] # "plain"
    <3>1. n \in Node
      BY <1>1 DEF TypeOK, Step
    <3>2. bounds.type[n] \in NodeType
      BY <3>1, BoundsFacts DEF TypeOK
    <3>3. Work[bounds.type[n]] \in Places \ {"asking"}
      BY <2>2, <3>2 DEF NodeType, Work, Kind, Places
    <3>4. place' = [place EXCEPT ![p] = Work[bounds.type[n]]] /\ UNCHANGED spent
      BY <1>1, <2>2 DEF Step, PlainNode, CallNode, GoTo, budgetVars
    <3> QED BY <3>3, <3>4, GoesElsewhere
  <2> QED BY <2>1, <2>2
<1>2. CASE WalkEnds(p) \/ ScheduleLift(p) \/ (Apply(p) /\ Done(p))
  <2>1. Between(p) \in Places \ {"asking"}
    BY DEF Between, Places
  <2>2. Done(p) /\ UNCHANGED spent
    <3>1. CASE WalkEnds(p)
      BY <3>1 DEF WalkEnds, budgetVars
    <3>2. CASE ScheduleLift(p)
      BY <3>2 DEF ScheduleLift, budgetVars
    <3>3. CASE Apply(p) /\ Done(p)
      BY <3>3 DEF Apply, budgetVars
    <3> QED BY <1>2, <3>1, <3>2, <3>3
  <2>3. place' = [place EXCEPT ![p] = Between(p)]
    BY <2>2 DEF Done, GoTo
  <2> QED BY <2>1, <2>2, <2>3, GoesElsewhere
<1>3. CASE Apply(p) /\ ~Done(p)
  BY <1>3, GoesElsewhere DEF Apply, GoTo, budgetVars, Places
<1>4. CASE (Post(p) \/ Backoff(p) \/ AskFails(p)) /\ \E ok \in BOOLEAN : Goes(p, ok)
  <2>1. \E there \in Places \ {"asking"} : place' = [place EXCEPT ![p] = there]
    BY <1>4, GoesType
  <2>2. UNCHANGED spent
    BY <1>4 DEF Post, Backoff, AskFails, budgetVars
  <2> QED BY <2>1, <2>2, GoesElsewhere
<1>5. CASE (Post(p) \/ Backoff(p) \/ AskFails(p)) /\ ~\E ok \in BOOLEAN : Goes(p, ok)
  BY <1>5, GoesElsewhere DEF Post, Backoff, AskFails, GoTo, budgetVars, Places
<1>6. CASE \E k \in Kind : Fire(p, k)
  <2>1. PICK k \in Kind : Fire(p, k)
    BY <1>6
  <2>2. Work[k] \in Places \ {"asking"}
    BY DEF Kind, Work, Places
  <2>3. place' = [place EXCEPT ![p] = Work[k]] /\ UNCHANGED spent
    BY <2>1 DEF Fire, GoTo, budgetVars
  <2> QED BY <2>2, <2>3, GoesElsewhere
<1> QED BY <1>1, <1>2, <1>3, <1>4, <1>5, <1>6

(* One more is at the model, and before it what is recorded was below the cap. *)
LEMMA AskKeepsBound ==
    ASSUME TypeOK, TypeOK', OvershootIsBounded, NEW p \in Thread, Ask(p)
    PROVE  OvershootIsBounded'
<1>1. CASE ~Allow
  <2>1. Goes(p, FALSE) /\ UNCHANGED spent
    BY <1>1 DEF Ask, budgetVars
  <2>2. Asking' \subseteq Asking
    BY <2>1, GoesType, GoesElsewhere
  <2>3. \A d \in Dim : spent'[d] <= spent[d]
    BY <2>1 DEF TypeOK
  <2> QED BY <2>2, <2>3, NoneJoins
<1>2. CASE Allow
  <2> SUFFICES ASSUME NEW d \in Dim, Cap[d] > 0
               PROVE  spent'[d] + MaxUse[d] * Cardinality(Asking')
                         < Cap[d] + MaxUse[d] * Cardinality(Thread)
    BY DEF OvershootIsBounded
  <2>1. UNCHANGED spent
    BY DEF Ask, budgetVars
  <2>2. Cardinality(Asking') <= Cardinality(Thread)
    BY ThreadAssumption, FS_Subset DEF Asking
  <2>3. Cardinality(Asking') \in Nat /\ Cardinality(Thread) \in Nat
    BY ThreadAssumption, FS_Subset, FS_CardinalityType DEF Asking
  <2>4. baseline[d] \in Nat /\ spent[d] \in Nat /\ MaxUse[d] \in Nat /\ Cap[d] \in Nat
    BY BudgetAssumption, BoundsFacts DEF TypeOK
  <2>5. baseline[d] + spent[d] < Cap[d]
    BY <1>2 DEF Allow
  <2>6. MaxUse[d] * Cardinality(Asking') <= MaxUse[d] * Cardinality(Thread)
    BY <2>2, <2>3, <2>4
  <2>7. /\ MaxUse[d] * Cardinality(Asking') \in Nat
        /\ MaxUse[d] * Cardinality(Thread) \in Nat
    BY <2>3, <2>4
  <2> QED BY <2>1, <2>4, <2>5, <2>6, <2>7
<1> QED BY <1>1, <1>2

(* What a call may have cost is recorded once the call is over.            *)
LEMMA AnswerKeepsBound ==
    ASSUME TypeOK, TypeOK', OvershootIsBounded, NEW p \in Thread, NEW u \in bounds.uses,
           Answers(p, u)
    PROVE  OvershootIsBounded'
<1>1. p \in Asking /\ Asking' = Asking \ {p}
  <2>1. \E there \in Places \ {"asking"} : place' = [place EXCEPT ![p] = there]
    <3>1. CASE Goes(p, TRUE)
      BY <3>1, GoesType
    <3>2. CASE ~Goes(p, TRUE)
      BY <3>2 DEF Answers, GoTo, Places
    <3> QED BY <3>1, <3>2
  <2> QED BY <2>1, GoesElsewhere DEF Answers, Asking
<1>2. Cardinality(Asking') = Cardinality(Asking) - 1 /\ Cardinality(Asking) \in Nat
  BY <1>1, AskingFinite, FS_RemoveElement DEF TypeOK
<1>3. Cardinality(Thread) \in Nat
  BY ThreadAssumption, FS_CardinalityType
<1> SUFFICES ASSUME NEW d \in Dim, Cap[d] > 0
             PROVE  spent'[d] + MaxUse[d] * Cardinality(Asking')
                       < Cap[d] + MaxUse[d] * Cardinality(Thread)
  BY DEF OvershootIsBounded
<1>4. u[d] \in Nat /\ u[d] <= MaxUse[d] /\ spent[d] \in Nat /\ MaxUse[d] \in Nat /\ Cap[d] \in Nat
  BY BudgetAssumption, BoundsFacts DEF TypeOK
<1>5. spent'[d] = spent[d] + u[d]
  BY DEF Answers
<1>6. MaxUse[d] * Cardinality(Asking') = MaxUse[d] * Cardinality(Asking) - MaxUse[d]
  BY <1>2, <1>4
<1>7. spent[d] + MaxUse[d] * Cardinality(Asking) < Cap[d] + MaxUse[d] * Cardinality(Thread)
  BY DEF OvershootIsBounded
<1>8. MaxUse[d] * Cardinality(Asking) \in Nat /\ MaxUse[d] * Cardinality(Thread) \in Nat
  BY <1>2, <1>3, <1>4
<1> QED BY <1>4, <1>5, <1>6, <1>7, <1>8

LEMMA InitBound == Init => OvershootIsBounded
<1> SUFFICES ASSUME Init, NEW d \in Dim, Cap[d] > 0
             PROVE  spent[d] + MaxUse[d] * Cardinality(Asking)
                       < Cap[d] + MaxUse[d] * Cardinality(Thread)
  BY DEF OvershootIsBounded
<1>1. Asking = {} /\ spent[d] = 0
  BY DEF Init, Asking
<1>2. Cardinality(Asking) = 0 /\ Cardinality(Thread) \in Nat
  BY <1>1, FS_EmptySet, ThreadAssumption, FS_CardinalityType
<1>3. MaxUse[d] \in Nat /\ Cap[d] \in Nat
  BY BudgetAssumption
<1>4. MaxUse[d] * Cardinality(Thread) \in Nat /\ MaxUse[d] * Cardinality(Asking) = 0
  BY <1>2, <1>3
<1> QED BY <1>1, <1>3, <1>4

LEMMA NextBound == TypeOK /\ TypeOK' /\ OvershootIsBounded /\ [Next]_vars => OvershootIsBounded'
<1> SUFFICES ASSUME TypeOK, TypeOK', OvershootIsBounded, [Next]_vars PROVE OvershootIsBounded'
  OBVIOUS
<1>1. CASE \E p \in Thread : Ask(p)
  BY <1>1, AskKeepsBound
<1>2. CASE \E p \in Thread : \E u \in bounds.uses : Answers(p, u)
  BY <1>2, AnswerKeepsBound
<1>3. ASSUME NEW p \in Thread, \E k \in Kind : Fire(p, k) PROVE OvershootIsBounded'
  <2>1. Asking' \subseteq Asking /\ UNCHANGED spent
    BY <1>3, WorksElsewhere
  <2> QED BY <2>1, NoneJoins DEF TypeOK
<1>4. ASSUME NEW p \in Thread, Works(p), ~Ask(p), ~\E u \in bounds.uses : Answers(p, u)
      PROVE  OvershootIsBounded'
  <2>1. Asking' \subseteq Asking /\ UNCHANGED spent
    BY <1>4, WorksElsewhere DEF Works
  <2> QED BY <2>1, NoneJoins DEF TypeOK
<1>5. CASE Tick \/ Sweep \/ LiftOne
  <2>1. \E there \in Places \ {"asking"} : place' = [place EXCEPT ![Sched] = there]
    BY <1>5 DEF Tick, Sweep, LiftOne, GoTo, Places
  <2>2. Asking' \subseteq Asking /\ UNCHANGED spent
    BY <1>5, <2>1, ThreadAssumption, GoesElsewhere DEF Tick, Sweep, LiftOne, budgetVars
  <2> QED BY <2>2, NoneJoins DEF TypeOK
<1>6. CASE Prune \/ SetBaseline \/ Restart \/ UNCHANGED vars
  <2>1. Asking' \subseteq Asking
    BY <1>6 DEF Asking, Prune, SetBaseline, Restart, vars
  <2>2. \A d \in Dim : spent'[d] <= spent[d]
    BY <1>6 DEF TypeOK, Prune, SetBaseline, Restart, vars, budgetVars
  <2> QED BY <2>1, <2>2, NoneJoins
<1> QED BY <1>1, <1>2, <1>3, <1>4, <1>5, <1>6 DEF Next

(* However many threads are at the model at once, a cap is passed by less than *)
(* one call of each (BudgetedProvider.Ask).                                *)
THEOREM BudgetHolds == Spec => []OvershootIsBounded
<1>1. Init => TypeOK /\ OvershootIsBounded
  BY InitType, InitBound
<1>2. TypeOK /\ OvershootIsBounded /\ [Next]_vars => (TypeOK /\ OvershootIsBounded)'
  BY NextType, NextBound
<1> QED BY <1>1, <1>2, PTL DEF Spec

-----------------------------------------------------------------------------
(* The lifts of timed effects.  Only who is about to schedule a lift has someone in
   hand; the sweep has lifts only while it carries them out; and none is held before
   those in the store are loaded.                                          *)

HandsOK == \A p \in Thread : whom[p] # {} => place[p] = "schedule"
SweepOK == due # {} => place[Sched] = "lifting"
UnloadedOK == ~liftsLoaded => lifts = {} /\ due = {}

LiftTypes ==
    /\ place \in [Thread -> Places] /\ whom \in [Thread -> SUBSET Who]
    /\ lifts \subseteq Lift /\ due \subseteq Lift /\ stored \subseteq Lift

LiftInv == HandsOK /\ SweepOK /\ UnloadedOK /\ LiftIsKept

LEMMA LiftStarts == Init => LiftInv
  BY DEF Init, LiftInv, HandsOK, SweepOK, UnloadedOK, LiftIsKept

(* A step of a thread that has no one in hand, and is not the sweep.       *)
EmptyHanded(p) ==
    /\ place[p] \notin {"schedule", "lifting"}
    /\ \A q \in Thread : q # p => place'[q] = place[q]
    /\ UNCHANGED whom \/ whom' = [whom EXCEPT ![p] = {}]
    /\ UNCHANGED <<muted, excused, liftVars>>

LEMMA EmptyHandedKeeps ==
  ASSUME LiftTypes, LiftInv, NEW p \in Thread, EmptyHanded(p)
  PROVE  LiftInv'
<1>1. whom[p] = {}
  BY DEF EmptyHanded, LiftInv, HandsOK
<1>2. \A q \in Thread : whom'[q] = whom[q]
  BY <1>1 DEF EmptyHanded, LiftTypes
<1>3. \A q \in Thread : q # p => place'[q] = place[q]
  BY DEF EmptyHanded
<1>4. HandsOK'
  BY <1>1, <1>2, <1>3 DEF LiftInv, HandsOK
<1>5. SweepOK'
  BY <1>3, ThreadAssumption DEF EmptyHanded, liftVars, LiftInv, SweepOK
<1>6. UnloadedOK' /\ LiftIsKept'
  BY <1>2 DEF EmptyHanded, liftVars, LiftInv, UnloadedOK, LiftIsKept
<1> QED BY <1>4, <1>5, <1>6 DEF LiftInv

LEMMA GoesAlone ==
  ASSUME LiftTypes, NEW p \in Thread, NEW there, GoTo(p, there)
  PROVE  \A q \in Thread : q # p => place'[q] = place[q]
  BY DEF GoTo, LiftTypes

LEMMA DoneEmptyHanded ==
  ASSUME LiftTypes, NEW p \in Thread, Done(p)
  PROVE  /\ \A q \in Thread : q # p => place'[q] = place[q]
         /\ whom' = [whom EXCEPT ![p] = {}]
  BY GoesAlone DEF Done

LEMMA GoesEmptyHanded ==
  ASSUME LiftTypes, NEW p \in Thread, NEW ok \in BOOLEAN, Goes(p, ok)
  PROVE  /\ \A q \in Thread : q # p => place'[q] = place[q]
         /\ UNCHANGED whom \/ whom' = [whom EXCEPT ![p] = {}]
  BY DoneEmptyHanded, GoesAlone DEF Goes, Walk

(* Firing, the walk of a flow, webhooks and calls have no one in hand.     *)
LEMMA OthersEmptyHanded ==
  ASSUME LiftTypes, NEW p \in Thread,
         \/ \E k \in Kind : Fire(p, k)
         \/ Step(p) \/ WalkEnds(p) \/ Post(p) \/ Backoff(p)
         \/ Ask(p) \/ AskFails(p) \/ \E u \in bounds.uses : Answers(p, u)
  PROVE  EmptyHanded(p)
<1> USE DEF EmptyHanded, liftVars
<1>1. ASSUME NEW k \in Kind, Fire(p, k) PROVE EmptyHanded(p)
  BY <1>1, GoesAlone DEF Fire, Between
<1>2. CASE Step(p)
  BY <1>2, GoesAlone DEF Step, PlainNode, CallNode
<1>3. CASE WalkEnds(p)
  BY <1>3, DoneEmptyHanded DEF WalkEnds
<1>4. CASE Post(p)
  BY <1>4, GoesEmptyHanded, GoesAlone DEF Post
<1>5. CASE Backoff(p)
  BY <1>5, GoesEmptyHanded, GoesAlone DEF Backoff
<1>6. CASE Ask(p) \/ AskFails(p)
  BY <1>6, GoesEmptyHanded, GoesAlone DEF Ask, AskFails
<1>7. ASSUME NEW u \in bounds.uses, Answers(p, u) PROVE EmptyHanded(p)
  BY <1>7, GoesEmptyHanded, GoesAlone DEF Answers
<1> QED BY <1>1, <1>2, <1>3, <1>4, <1>5, <1>6, <1>7

(* Who has an effect set on someone has them in hand, ...                  *)
LEMMA ApplyKeepsLifts ==
  ASSUME LiftTypes, LiftInv, NEW p \in Thread, Apply(p)
  PROVE  LiftInv'
<1>1. CASE Done(p) /\ UNCHANGED <<muted, excused>>
  <2>1. EmptyHanded(p)
    BY <1>1, DoneEmptyHanded DEF Apply, EmptyHanded
  <2> QED BY <2>1, EmptyHandedKeeps
<1>2. ASSUME NEW w \in Who, muted' = muted \cup {w}, excused' = excused \ {w},
             whom' = [whom EXCEPT ![p] = {w}], GoTo(p, "schedule")
      PROVE  LiftInv'
  <2>1. UNCHANGED liftVars /\ place[p] = "apply"
    BY DEF Apply
  <2>2. whom[p] = {}
    BY <2>1 DEF LiftInv, HandsOK
  <2>3. whom'[p] = {w} /\ \A q \in Thread : q # p => whom'[q] = whom[q]
    BY <1>2 DEF LiftTypes
  <2>4. place'[p] = "schedule" /\ \A q \in Thread : q # p => place'[q] = place[q]
    BY <1>2 DEF GoTo, LiftTypes
  <2>5. HandsOK' /\ SweepOK' /\ UnloadedOK'
    BY <2>1, <2>3, <2>4, ThreadAssumption
    DEF liftVars, LiftInv, HandsOK, SweepOK, UnloadedOK
  <2>6. LiftIsKept'
    BY <1>2, <2>1, <2>2, <2>3 DEF liftVars, LiftInv, LiftIsKept
  <2> QED BY <2>5, <2>6 DEF LiftInv
<1> QED BY <1>1, <1>2 DEF Apply

(* ... until their lift is among the others, which are loaded before.      *)
LEMMA ScheduleKeepsLifts ==
  ASSUME LiftTypes, LiftInv, NEW p \in Thread, ScheduleLift(p)
  PROVE  LiftInv'
<1>1. PICK loaded \in BOOLEAN :
         /\ lifts' = Hydrated(loaded) \cup [who : whom[p], left : {duration}]
         /\ excused' = excused \cup Forgotten(loaded)
  BY DEF ScheduleLift
<1>2. /\ liftsLoaded' = TRUE /\ UNCHANGED <<muted, due>> /\ place[p] = "schedule"
      /\ whom' = [whom EXCEPT ![p] = {}] /\ GoTo(p, Between(p))
  BY DEF ScheduleLift, Done
<1>3. whom'[p] = {} /\ \A q \in Thread : q # p => whom'[q] = whom[q]
  BY <1>2 DEF LiftTypes
<1>4. \A q \in Thread : q # p => place'[q] = place[q]
  BY <1>2 DEF GoTo, LiftTypes
<1>5. HandsOK' /\ SweepOK' /\ UnloadedOK'
  BY <1>2, <1>3, <1>4, ThreadAssumption DEF LiftInv, HandsOK, SweepOK, UnloadedOK
<1>6. ASSUME NEW w \in (muted \ excused)'
      PROVE  (\E q \in Thread : w \in whom'[q]) \/ \E l \in lifts' \cup due' : l.who = w
  <2>1. w \in muted \ excused /\ w \notin Forgotten(loaded)
    BY <1>1, <1>2, <1>6
  <2>2. CASE w \in whom[p]
    <3>1. [who |-> w, left |-> duration] \in lifts'
      BY <1>1, <2>2
    <3> QED BY <3>1
  <2>3. CASE \E q \in Thread : w \in whom[q] /\ q # p
    BY <1>3, <2>3
  <2>4. CASE \E l \in lifts \cup due : l.who = w
    <3>1. lifts \subseteq Hydrated(loaded)
      BY DEF Hydrated, LiftInv, UnloadedOK
    <3> QED BY <1>1, <1>2, <2>4, <3>1
  <2>5. CASE ~liftsLoaded /\ \E l \in stored : l.who = w
    BY <1>1, <2>1, <2>5 DEF Hydrated, Forgotten
  <2> QED BY <2>1, <2>2, <2>3, <2>4, <2>5 DEF LiftInv, LiftIsKept
<1> QED BY <1>5, <1>6 DEF LiftInv, LiftIsKept

(* Time passes for a lift, but it stays whose it is.                       *)
LEMMA TickKeepsLifts ==
  ASSUME LiftTypes, LiftInv, Tick
  PROVE  LiftInv'
<1>1. \A l \in Lift : Nearer(l).who = l.who
  BY DEF Lift, Nearer
<1>2. /\ lifts' = {Nearer(l) : l \in lifts} /\ stored' = {Nearer(l) : l \in stored}
      /\ UNCHANGED <<whom, muted, excused, liftsLoaded, due>>
      /\ place[Sched] = "idle" /\ GoTo(Sched, "tick")
  BY DEF Tick
<1>3. \A q \in Thread : q # Sched => place'[q] = place[q]
  BY <1>2 DEF GoTo, LiftTypes
<1>4. HandsOK' /\ SweepOK' /\ UnloadedOK'
  BY <1>2, <1>3, ThreadAssumption DEF LiftInv, HandsOK, SweepOK, UnloadedOK
<1>5. LiftIsKept'
  <2>1. \A w : (\E l \in lifts : l.who = w) => \E l \in lifts' : l.who = w
    BY <1>1, <1>2 DEF LiftTypes
  <2>2. \A w : (\E l \in stored : l.who = w) => \E l \in stored' : l.who = w
    BY <1>1, <1>2 DEF LiftTypes
  <2> QED BY <1>2, <2>1, <2>2 DEF LiftInv, LiftIsKept
<1> QED BY <1>4, <1>5 DEF LiftInv

(* The sweep takes the lifts that are due; the rest stay.                  *)
LEMMA SweepKeepsLifts ==
  ASSUME LiftTypes, LiftInv, Sweep
  PROVE  LiftInv'
<1>1. PICK loaded \in BOOLEAN :
         /\ due' = {l \in Hydrated(loaded) : l.left = 0} /\ lifts' = Hydrated(loaded) \ due'
         /\ GoTo(Sched, IF due' = {} THEN "idle" ELSE "lifting")
         /\ excused' = excused \cup Forgotten(loaded)
  BY DEF Sweep
<1>2. liftsLoaded' = TRUE /\ UNCHANGED <<muted, whom>> /\ place[Sched] = "tick"
  BY DEF Sweep
<1>3. due = {} /\ whom[Sched] = {}
  BY <1>2, ThreadAssumption DEF LiftInv, HandsOK, SweepOK
<1>4. /\ place'[Sched] = IF due' = {} THEN "idle" ELSE "lifting"
      /\ \A q \in Thread : q # Sched => place'[q] = place[q]
  BY <1>1, ThreadAssumption DEF GoTo, LiftTypes
<1>5. HandsOK' /\ SweepOK' /\ UnloadedOK'
  BY <1>2, <1>3, <1>4 DEF LiftInv, HandsOK, SweepOK, UnloadedOK
<1>6. lifts' \cup due' = Hydrated(loaded) /\ lifts \subseteq Hydrated(loaded)
  BY <1>1 DEF Hydrated, LiftInv, UnloadedOK
<1>7. ASSUME NEW w \in (muted \ excused)'
      PROVE  (\E q \in Thread : w \in whom'[q]) \/ \E l \in lifts' \cup due' : l.who = w
  <2>1. w \in muted \ excused /\ w \notin Forgotten(loaded)
    BY <1>1, <1>2, <1>7
  <2>2. CASE ~liftsLoaded /\ \E l \in stored : l.who = w
    BY <1>6, <2>1, <2>2 DEF Hydrated, Forgotten
  <2> QED BY <1>2, <1>3, <1>6, <2>1, <2>2 DEF LiftInv, LiftIsKept
<1> QED BY <1>5, <1>7 DEF LiftInv, LiftIsKept

(* One is carried out, or refused.                                         *)
LEMMA LiftOneKeepsLifts ==
  ASSUME LiftTypes, LiftInv, LiftOne
  PROVE  LiftInv'
<1>1. PICK l \in due :
         /\ due' = due \ {l}
         /\ \/ muted' = muted \ {l.who} /\ excused' = excused \ {l.who}
            \/ excused' = excused \cup {l.who} /\ UNCHANGED muted
  BY DEF LiftOne
<1>2. /\ GoTo(Sched, IF due' = {} THEN "idle" ELSE "lifting") /\ place[Sched] = "lifting"
      /\ UNCHANGED <<whom, lifts, liftsLoaded, stored>>
  BY DEF LiftOne
<1>3. /\ place'[Sched] = IF due' = {} THEN "idle" ELSE "lifting"
      /\ \A q \in Thread : q # Sched => place'[q] = place[q]
  BY <1>2, ThreadAssumption DEF GoTo, LiftTypes
<1>4. HandsOK' /\ SweepOK' /\ UnloadedOK'
  BY <1>1, <1>2, <1>3, ThreadAssumption DEF LiftInv, HandsOK, SweepOK, UnloadedOK
<1>5. \A w \in (muted \ excused)' : w \in muted \ excused /\ w # l.who
  BY <1>1
<1>6. LiftIsKept'
  BY <1>1, <1>2, <1>5 DEF LiftInv, LiftIsKept
<1> QED BY <1>4, <1>6 DEF LiftInv

(* After a restart what the store has is loaded again; what it has not is lost. *)
LEMMA RestartKeepsLifts ==
  ASSUME LiftTypes, LiftInv, Restart
  PROVE  LiftInv'
<1>1. /\ lifts' = {} /\ due' = {} /\ liftsLoaded' = FALSE /\ UNCHANGED <<muted, stored>>
      /\ whom' = [q \in Thread |-> {}] /\ excused' = excused \cup Losable
  BY DEF Restart
<1>2. HandsOK' /\ SweepOK' /\ UnloadedOK'
  BY <1>1 DEF HandsOK, SweepOK, UnloadedOK
<1>3. ASSUME NEW w \in (muted \ excused)' PROVE \E l \in stored : l.who = w
  <2>1. w \in muted \ excused /\ w \notin Losable
    BY <1>1, <1>3
  <2>2. w \in Who \/ \E l \in stored : l.who = w
    BY <2>1 DEF LiftInv, LiftIsKept, LiftTypes, Lift
  <2>3. CASE w \in Who
    BY <2>1, <2>3 DEF Losable, LiftInv, LiftIsKept
  <2> QED BY <2>2, <2>3
<1>4. LiftIsKept'
  BY <1>1, <1>3 DEF LiftIsKept
<1> QED BY <1>2, <1>4 DEF LiftInv

LEMMA LiftKeeps == TypeOK /\ LiftInv /\ [Next]_vars => LiftInv'
<1> SUFFICES ASSUME TypeOK, LiftInv, [Next]_vars PROVE LiftInv'
  OBVIOUS
<1>1. LiftTypes
  BY DEF TypeOK, LiftTypes
<1>2. ASSUME NEW p \in Thread, \E k \in Kind : Fire(p, k) PROVE LiftInv'
  BY <1>1, <1>2, OthersEmptyHanded, EmptyHandedKeeps
<1>3. ASSUME NEW p \in Thread, Works(p) PROVE LiftInv'
  BY <1>1, <1>3, OthersEmptyHanded, EmptyHandedKeeps, ApplyKeepsLifts, ScheduleKeepsLifts
  DEF Works
<1>4. CASE Tick \/ Sweep \/ LiftOne \/ Restart
  BY <1>1, <1>4, TickKeepsLifts, SweepKeepsLifts, LiftOneKeepsLifts, RestartKeepsLifts
<1>5. CASE Prune \/ SetBaseline \/ UNCHANGED vars
  BY <1>5 DEF Prune, SetBaseline, vars, liftVars, LiftInv, HandsOK, SweepOK, UnloadedOK,
              LiftIsKept
<1> QED BY <1>2, <1>3, <1>4, <1>5 DEF Next

(* The engine by itself loses no lift.                                     *)
THEOREM EngineKeepsLifts == Spec => []LiftIsKept
<1>1. LiftInv => LiftIsKept
  BY DEF LiftInv
<1> QED
  BY <1>1, InitType, NextType, LiftStarts, LiftKeeps, PTL DEF Spec

-----------------------------------------------------------------------------
(* The parts of a step.                                                    *)

LEMMA SkillsStep == RuntimeNext => [Next]_vars
<1> SUFFICES ASSUME RuntimeNext PROVE [Next]_vars
  OBVIOUS
<1>1. ASSUME NEW r \in Refresher, Publish(r) PROVE [Next]_vars
  BY <1>1 DEF Publish
<1>2. ASSUME NEW s \in UsersOwn, UserChanges(s) PROVE [Next]_vars
  BY <1>2 DEF UserChanges
<1>3. CASE CommandRefresh \/ FlowRefresh \/ ConfigRefresh
  BY <1>3 DEF CommandRefresh, FlowRefresh, ConfigRefresh, Refreshes
<1>4. CASE BudgetRefresh
  BY <1>4 DEF BudgetRefresh, Next
<1>5. CASE SchedulerEnds \/ Interrupt \/ RunNext
  BY <1>5 DEF SchedulerEnds, Interrupt, RunNext, First, Second, waitRefresh, Flush, RunStep
<1>6. ASSUME NEW h \in Half, HalfReturns(h) PROVE [Next]_vars
  BY <1>6 DEF HalfReturns, RunStep
<1>7. ASSUME NEW p \in Thread, WorksOn(p) PROVE [Next]_vars
  BY <1>7 DEF WorksOn, Next
<1>8. CASE SweepsIn
  BY <1>8, ThreadAssumption DEF SweepsIn, Next
<1>9. CASE Reboot
  BY <1>9 DEF Reboot, Next
<1>10. CASE SkillStep /\ (Prune \/ \E p \in Thread \ {Sched} : \E k \in Kind : Fire(p, k))
  BY <1>10 DEF Next
<1>11. CASE HistoryNext /\ UNCHANGED <<vars, rigVars>>
  BY <1>11
<1> QED
  BY <1>1, <1>2, <1>3, <1>4, <1>5, <1>6, <1>7, <1>8, <1>9, <1>10, <1>11 DEF RuntimeNext

LEMMA HistoryStep == RuntimeNext => [HistoryNext]_historyVars
<1> SUFFICES ASSUME RuntimeNext PROVE [HistoryNext]_historyVars
  OBVIOUS
<1>1. ASSUME NEW r \in Refresher, Publish(r) PROVE [HistoryNext]_historyVars
  BY <1>1 DEF Publish
<1>2. ASSUME NEW s \in UsersOwn, UserChanges(s) PROVE [HistoryNext]_historyVars
  BY <1>2 DEF UserChanges
<1>3. CASE CommandRefresh \/ FlowRefresh \/ ConfigRefresh
  BY <1>3 DEF CommandRefresh, FlowRefresh, ConfigRefresh, Refreshes
<1>4. CASE BudgetRefresh
  BY <1>4 DEF BudgetRefresh
<1>5. CASE SchedulerEnds \/ Interrupt \/ RunNext
  BY <1>5 DEF SchedulerEnds, Interrupt, RunNext, First, Second, waitRefresh, Flush, RunStep
<1>6. ASSUME NEW h \in Half, HalfReturns(h) PROVE [HistoryNext]_historyVars
  BY <1>6 DEF HalfReturns, RunStep
<1>7. ASSUME NEW p \in Thread, WorksOn(p) PROVE [HistoryNext]_historyVars
  BY <1>7 DEF WorksOn, SkillStep
<1>8. CASE SweepsIn
  BY <1>8 DEF SweepsIn, SkillStep
<1>9. CASE Reboot
  BY <1>9 DEF Reboot
<1>10. CASE SkillStep /\ (Prune \/ \E p \in Thread \ {Sched} : \E k \in Kind : Fire(p, k))
  BY <1>10 DEF SkillStep
<1>11. CASE HistoryNext /\ UNCHANGED <<vars, rigVars>>
  BY <1>11
<1> QED
  BY <1>1, <1>2, <1>3, <1>4, <1>5, <1>6, <1>7, <1>8, <1>9, <1>10, <1>11 DEF RuntimeNext

(* The runtime implements the engine: its skills and its budget take no steps
   but those that SkillEngine has (WireCore, Run in runtime.go).           *)
THEOREM RunsTheEngine == RuntimeSpec => Spec
<1>1. RuntimeInit => Init
  BY DEF RuntimeInit
<1>2. [RuntimeNext]_runtimeVars => [Next]_vars
  BY SkillsStep DEF runtimeVars
<1> QED
  BY <1>1, <1>2, PTL DEF RuntimeSpec, Spec

(* So the budget of the runtime is overdrawn by less than a call of every thread,
   refreshers, restarts and its end included (budgeted.go, budgetrefresh).  *)
THEOREM RuntimeBudgetHolds == RuntimeSpec => []OvershootIsBounded
  BY RunsTheEngine, BudgetHolds, PTL

(* Nor does the runtime lose the lift of a timed effect, restarts included, but to
   the faults that LiftIsKept names (ensureLiftsLoaded, SweepLifts in engine.go).  *)
THEOREM LiftIsKeptHolds == RuntimeSpec => []LiftIsKept
  BY RunsTheEngine, EngineKeepsLifts, PTL

-----------------------------------------------------------------------------
(* The history.  What FirstSight has decided of, and for.                  *)

Judged(x) == at[x] \in {"first", "done"}
Winner(x) == at[x] = "first" \/ x \in kept

HistoryTypes ==
    /\ now \in Nat /\ at \in [Sighting -> HandlerPlaces]
    /\ DOMAIN key = Sighting /\ stamp \in [Sighting -> Nat]
    /\ \A x \in kept : x \in Sighting /\ at[x] = "done"
    /\ \A e \in seen : e.time \in Nat

(* The clock waits for who has looked at it.                               *)
Timely ==
    /\ \A x \in Sighting : at[x] = "stamped" => stamp[x] = now
    /\ \A x \in Sighting : Judged(x) => stamp[x] <= now

(* What was judged within the window is remembered, and only what was judged. *)
Remembered ==
    \A x \in Sighting :
       Judged(x) => \/ now - stamp[x] >= storeDedupeWindow
                    \/ \E e \in seen : e.key = key[x] /\ e.time >= stamp[x]
Founded ==
    \A e \in seen : \E y \in Sighting :
       Judged(y) /\ key[y] = e.key /\ stamp[y] = e.time

(* The two halves of the promise.                                          *)
Apart ==
    \A x \in Sighting, y \in Sighting :
       Winner(x) /\ Winner(y) /\ x # y => ~Alike(x, y)
Excluded ==
    \A x \in Sighting :
       at[x] = "done" /\ x \notin kept =>
          \E y \in Sighting \ {x} :
             Judged(y) /\ key[y] = key[x] /\ stamp[x] - stamp[y] < storeDedupeWindow

HistoryInv == HistoryTypes /\ Timely /\ Remembered /\ Founded /\ Apart /\ Excluded

KnownBook == book \in Books

LEMMA HistoryStarts == HistoryInit => HistoryInv /\ KnownBook
<1> SUFFICES ASSUME HistoryInit PROVE HistoryInv /\ KnownBook
  OBVIOUS
<1>1. \A x \in Sighting : at[x] = "none" /\ ~Judged(x) /\ ~Winner(x)
  BY DEF HistoryInit, Judged, Winner
<1>2. HistoryTypes
  BY DEF HistoryInit, HistoryTypes, HandlerPlaces
<1> QED
  BY <1>1, <1>2 DEF HistoryInv, Timely, Remembered, Founded, Apart, Excluded, HistoryInit,
                    KnownBook

(* A step before the submitter's lock: nothing is judged by it, and of what is
   judged nothing changes, but for the clock, which waits for who has looked. *)
LEMMA HistoryFrame ==
    ASSUME HistoryInv, HistoryTypes', seen' = seen, kept' = kept, now' >= now,
           \A x \in Sighting : at'[x] = "stamped" => stamp'[x] = now',
           \A x \in Sighting : Judged(x)' <=> Judged(x),
           \A x \in Sighting : Judged(x) =>
               at'[x] = at[x] /\ key'[x] = key[x] /\ stamp'[x] = stamp[x]
    PROVE  HistoryInv'
<1> USE DEF HistoryInv
<1>1. Timely'
  BY DEF Timely, HistoryTypes
<1>2. Remembered'
  <2> SUFFICES ASSUME NEW x \in Sighting, Judged(x)'
               PROVE  \/ now' - stamp'[x] >= storeDedupeWindow
                      \/ \E e \in seen : e.key = key'[x] /\ e.time >= stamp'[x]
    BY DEF Remembered
  <2>1. Judged(x) /\ key'[x] = key[x] /\ stamp'[x] = stamp[x] /\ stamp[x] \in Nat
    BY DEF HistoryTypes
  <2>2. CASE now - stamp[x] >= storeDedupeWindow
    BY <2>1, <2>2, HistoryAssumption DEF HistoryTypes
  <2>3. CASE \E e \in seen : e.key = key[x] /\ e.time >= stamp[x]
    BY <2>1, <2>3
  <2> QED
    BY <2>1, <2>2, <2>3 DEF Remembered
<1>3. Founded'
  <2> SUFFICES ASSUME NEW e \in seen
               PROVE  \E y \in Sighting : Judged(y)' /\ key'[y] = e.key /\ stamp'[y] = e.time
    BY DEF Founded
  <2>1. PICK y \in Sighting : Judged(y) /\ key[y] = e.key /\ stamp[y] = e.time
    BY DEF Founded
  <2> QED
    BY <2>1
<1>4. \A x \in Sighting : Winner(x)' => Winner(x) /\ Judged(x)
  BY DEF Winner, Judged, HistoryTypes
<1>5. Apart'
  BY <1>4 DEF Apart, Alike
<1>6. Excluded'
  <2> SUFFICES ASSUME NEW x \in Sighting, at'[x] = "done", x \notin kept
               PROVE  \E y \in Sighting \ {x} :
                         /\ Judged(y)' /\ key'[y] = key'[x]
                         /\ stamp'[x] - stamp'[y] < storeDedupeWindow
    BY DEF Excluded
  <2>1. Judged(x) /\ at[x] = "done"
    BY DEF Judged
  <2>2. PICK y \in Sighting \ {x} :
           /\ Judged(y) /\ key[y] = key[x] /\ stamp[x] - stamp[y] < storeDedupeWindow
    BY <2>1 DEF Excluded
  <2> QED
    BY <2>1, <2>2
<1> QED
  BY <1>1, <1>2, <1>3, <1>5, <1>6

(* The submitter's lock.                                                   *)
LEMMA FirstSightKeeps ==
    ASSUME HistoryInv, NEW x \in Sighting, FirstSight(x)
    PROVE  HistoryInv'
<1> USE HistoryAssumption DEF HistoryInv
<1> DEFINE k == key[x]
           t == stamp[x]
           mine == [key |-> k, time |-> t]
<1>1. /\ at[x] = "stamped" /\ ~Judged(x) /\ ~Winner(x)
      /\ UNCHANGED <<now, key, stamp, kept>> /\ t = now /\ t \in Nat
  BY DEF FirstSight, clockVars, Timely, Judged, Winner, HistoryTypes
<1>2. at' = [at EXCEPT ![x] = IF Fresh(k, t) THEN "done" ELSE "first"]
  BY DEF FirstSight, At
<1>3. Judged(x)' /\ \A y \in Sighting \ {x} : at'[y] = at[y]
  BY <1>2 DEF Judged, HistoryTypes
<1>4. \A y \in Sighting : Judged(y) => Judged(y)'
  BY <1>3 DEF Judged
<1>5. seen' = Remember(k, t)
  BY DEF FirstSight
<1>6. \A e \in seen' : e \in seen \/ e = mine
  BY <1>5 DEF Remember
<1>7. mine \in seen'
  <2>1. mine.time = t /\ t - t < storeDedupeWindow
    BY <1>1
  <2> QED
    BY <1>5, <2>1 DEF Remember
<1>8. \A e \in seen : e \in seen' \/ e.key = k \/ t - e.time >= storeDedupeWindow
  <2> SUFFICES ASSUME NEW e \in seen, e.key # k, ~(t - e.time >= storeDedupeWindow)
               PROVE  e \in seen'
    OBVIOUS
  <2>1. t - e.time < storeDedupeWindow
    BY <1>1 DEF HistoryTypes
  <2> QED
    BY <1>5, <2>1 DEF Remember
<1>9. HistoryTypes'
  BY <1>1, <1>2, <1>6 DEF HistoryTypes, HandlerPlaces
<1>10. Timely'
  BY <1>1, <1>2, <1>3 DEF Timely, Judged, HistoryTypes
<1>11. Remembered'
  <2> SUFFICES ASSUME NEW y \in Sighting, Judged(y)', now - stamp[y] < storeDedupeWindow
               PROVE  \E e \in seen' : e.key = key[y] /\ e.time >= stamp[y]
    BY <1>1 DEF Remembered, HistoryTypes
  <2>1. CASE y = x
    BY <1>1, <1>7, <2>1
  <2>2. CASE y # x
    <3>1. Judged(y) /\ stamp[y] <= now
      BY <1>3, <2>2 DEF Judged, Timely
    <3>2. PICK e \in seen : e.key = key[y] /\ e.time >= stamp[y]
      BY <3>1, <1>1 DEF Remembered, HistoryTypes
    <3>3. CASE e.key = k
      BY <1>1, <1>7, <3>1, <3>2, <3>3
    <3>4. CASE t - e.time >= storeDedupeWindow
      BY <1>1, <3>2, <3>4 DEF HistoryTypes
    <3> QED
      BY <1>8, <3>2, <3>3, <3>4
  <2> QED
    BY <2>1, <2>2
<1>12. Founded'
  <2> SUFFICES ASSUME NEW e \in seen'
               PROVE  \E y \in Sighting : Judged(y)' /\ key[y] = e.key /\ stamp[y] = e.time
    BY <1>1 DEF Founded
  <2>1. CASE e = mine
    BY <1>3, <2>1
  <2>2. CASE e \in seen
    <3>1. PICK y \in Sighting : Judged(y) /\ key[y] = e.key /\ stamp[y] = e.time
      BY <2>2 DEF Founded
    <3> QED
      BY <1>4, <3>1
  <2> QED
    BY <1>6, <2>1, <2>2
<1>13. Apart'
  <2>1. ASSUME ~Fresh(k, t), NEW y \in Sighting \ {x}, Winner(y), key[y] = k
        PROVE  stamp[x] - stamp[y] >= storeDedupeWindow
    <3>1. Judged(y) /\ stamp[y] <= now /\ stamp[y] \in Nat
      BY <2>1 DEF Winner, Judged, Timely, HistoryTypes
    <3>2. CASE now - stamp[y] >= storeDedupeWindow
      BY <1>1, <3>2
    <3>3. CASE \E e \in seen : e.key = key[y] /\ e.time >= stamp[y]
      <4>1. PICK e \in seen : e.key = k /\ e.time >= stamp[y]
        BY <2>1, <3>3
      <4>2. e.time \in Nat /\ t - e.time >= storeDedupeWindow
        BY <1>1, <2>1, <4>1 DEF Fresh, HistoryTypes
      <4> QED
        BY <1>1, <3>1, <4>1, <4>2
    <3> QED
      BY <3>1, <3>2, <3>3 DEF Remembered
  <2>2. \A y \in Sighting \ {x} : Winner(y)' => Winner(y)
    BY <1>1, <1>3 DEF Winner
  <2>3. Winner(x)' => ~Fresh(k, t)
    BY <1>1, <1>2 DEF Winner, HistoryTypes
  <2> SUFFICES ASSUME NEW y \in Sighting, NEW z \in Sighting,
                      Winner(y)', Winner(z)', y # z
               PROVE  ~Alike(y, z)
    BY <1>1 DEF Apart, Alike
  <2>4. CASE y = x
    BY <1>1, <2>1, <2>2, <2>3, <2>4 DEF Alike, HistoryTypes
  <2>5. CASE z = x
    BY <1>1, <2>1, <2>2, <2>3, <2>5 DEF Alike, HistoryTypes
  <2>6. CASE y # x /\ z # x
    BY <2>2, <2>6 DEF Apart
  <2> QED
    BY <2>4, <2>5, <2>6
<1>14. Excluded'
  <2> SUFFICES ASSUME NEW y \in Sighting, at'[y] = "done", y \notin kept
               PROVE  \E z \in Sighting \ {y} :
                         /\ Judged(z)' /\ key[z] = key[y]
                         /\ stamp[y] - stamp[z] < storeDedupeWindow
    BY <1>1 DEF Excluded
  <2>1. CASE y = x
    <3>1. PICK e \in seen : e.key = k /\ t - e.time < storeDedupeWindow
      BY <1>2, <2>1 DEF Fresh, HistoryTypes
    <3>2. PICK z \in Sighting : Judged(z) /\ key[z] = e.key /\ stamp[z] = e.time
      BY DEF Founded
    <3> QED
      BY <1>1, <1>4, <2>1, <3>1, <3>2
  <2>2. CASE y # x
    <3>1. PICK z \in Sighting \ {y} :
             Judged(z) /\ key[z] = key[y] /\ stamp[y] - stamp[z] < storeDedupeWindow
      BY <1>3, <2>2 DEF Excluded
    <3> QED
      BY <1>4, <3>1
  <2> QED
    BY <2>1, <2>2
<1> QED
  BY <1>9, <1>10, <1>11, <1>12, <1>13, <1>14

(* What was first is stored.                                               *)
LEMMA SubmitKeeps ==
    ASSUME HistoryInv, NEW x \in Sighting, Submit(x)
    PROVE  HistoryInv'
<1> USE DEF HistoryInv
<1>1. /\ at[x] = "first" /\ at' = [at EXCEPT ![x] = "done"] /\ kept' = kept \cup {x}
      /\ UNCHANGED <<now, key, stamp, seen>>
  BY DEF Submit, At, clockVars
<1>2. \A y \in Sighting : (Judged(y)' <=> Judged(y)) /\ (Winner(y)' <=> Winner(y))
  BY <1>1 DEF Judged, Winner, HistoryTypes
<1>3. HistoryTypes'
  BY <1>1 DEF HistoryTypes, HandlerPlaces
<1>4. Timely' /\ Remembered'
  BY <1>1, <1>2 DEF Timely, Remembered, HistoryTypes
<1>5. Founded'
  BY <1>1, <1>2 DEF Founded
<1>6. Apart'
  BY <1>1, <1>2 DEF Apart, Alike
<1>7. Excluded'
  BY <1>1, <1>2 DEF Excluded, HistoryTypes
<1> QED
  BY <1>3, <1>4, <1>5, <1>6, <1>7

LEMMA HistoryKeeps == HistoryInv /\ [HistoryNext]_historyVars => HistoryInv'
<1> SUFFICES ASSUME HistoryInv, [HistoryNext]_historyVars PROVE HistoryInv'
  OBVIOUS
<1> USE DEF HistoryInv
<1>1. ASSUME now' = now, UNCHANGED handlerVars, kept' = kept PROVE HistoryInv'
  <2>1. HistoryTypes'
    BY <1>1 DEF HistoryTypes, handlerVars
  <2> QED
    BY <1>1, <2>1, HistoryFrame DEF handlerVars, HistoryTypes, Timely, Judged
<1>2. CASE PassTime
  <2>1. /\ now' = now + 1 /\ UNCHANGED <<at, key, stamp, seen, kept>>
        /\ \A x \in Sighting : at[x] # "stamped"
    BY <1>2 DEF PassTime, handlerVars
  <2>2. HistoryTypes' /\ now' >= now
    BY <2>1 DEF HistoryTypes
  <2> QED
    BY <2>1, <2>2, HistoryFrame DEF Judged
<1>3. CASE handlePrivmsg
  <2> DEFINE x == Echo(Head(wire).of)
  <2>1. /\ at[x] = "none" /\ at' = [at EXCEPT ![x] = "due"]
        /\ key' = [key EXCEPT ![x] = <<Head(wire).nick>>]
        /\ UNCHANGED <<now, stamp, seen, kept>>
    BY <1>3 DEF handlePrivmsg, At
  <2>2. \A y \in Sighting :
           y # x => at'[y] = at[y] /\ key'[y] = key[y]
    BY <2>1 DEF HistoryTypes
  <2>3. HistoryTypes'
    BY <2>1 DEF HistoryTypes, HandlerPlaces
  <2>4. \A y \in Sighting : at'[y] \in {"stamped", "first", "done"} => at'[y] = at[y]
    BY <2>1 DEF HistoryTypes
  <2> QED
    BY <2>1, <2>2, <2>3, <2>4, HistoryFrame DEF HistoryTypes, Timely, Judged
<1>4. ASSUME NEW m \in Msg, Say(m) PROVE HistoryInv'
  <2> DEFINE x == <<m, "sent">>
  <2>1. /\ at[x] = "none" /\ at' = [at EXCEPT ![x] = "due"]
        /\ UNCHANGED <<now, key, stamp, seen, kept>>
    BY <1>4 DEF Say, At
  <2>2. \A y \in Sighting : y # x => at'[y] = at[y]
    BY <2>1 DEF HistoryTypes
  <2>3. HistoryTypes'
    BY <2>1 DEF HistoryTypes, HandlerPlaces
  <2>4. \A y \in Sighting : at'[y] \in {"stamped", "first", "done"} => at'[y] = at[y]
    BY <2>1 DEF HistoryTypes
  <2> QED
    BY <2>1, <2>2, <2>3, <2>4, HistoryFrame DEF HistoryTypes, Timely, Judged
<1>5. ASSUME NEW x \in Sighting, Submitter(x) PROVE HistoryInv'
  <2>1. /\ at[x] = "due" /\ at' = [at EXCEPT ![x] = "stamped"]
        /\ stamp' = [stamp EXCEPT ![x] = now] /\ UNCHANGED <<now, seen, kept>>
        /\ DOMAIN key' = DOMAIN key
        /\ \A y \in Sighting \ {x} : key'[y] = key[y]
    BY <1>5 DEF Submitter, At, clockVars, HistoryTypes
  <2>2. \A y \in Sighting \ {x} : at'[y] = at[y] /\ stamp'[y] = stamp[y]
    BY <2>1 DEF HistoryTypes
  <2>3. at'[x] = "stamped" /\ stamp'[x] = now
    BY <2>1 DEF HistoryTypes
  <2>4. HistoryTypes'
    BY <2>1, <2>2 DEF HistoryTypes, HandlerPlaces
  <2>5. \A y \in Sighting : at'[y] = "stamped" => stamp'[y] = now'
    BY <2>1, <2>2, <2>3 DEF Timely
  <2>6. \A y \in Sighting : Judged(y)' <=> Judged(y)
    BY <2>1, <2>2, <2>3 DEF Judged
  <2> QED
    BY <2>1, <2>2, <2>4, <2>5, <2>6, HistoryFrame DEF HistoryTypes, Judged
<1>6. CASE Rename \/ ReadNick \/ Latest \/ Older \/ NoAnswer
  BY <1>1, <1>6 DEF Rename, ReadNick, Latest, Older, NoAnswer
<1>7. CASE UNCHANGED historyVars
  BY <1>1, <1>7 DEF historyVars
<1> QED
  BY <1>2, <1>3, <1>4, <1>5, <1>6, <1>7, FirstSightKeeps, SubmitKeeps DEF HistoryNext

LEMMA HistoryHolds == HistoryInv /\ KnownBook => StoredOnce
<1> SUFFICES ASSUME HistoryInv, KnownBook PROVE StoredOnce
  OBVIOUS
<1> USE DEF HistoryInv, KnownBook
<1>1. ASSUME NEW m \in book.said, {<<m, "sent">>, Echo(m)} \subseteq kept
      PROVE  ~Alike(<<m, "sent">>, Echo(m))
  <2>1. <<m, "sent">> \in Sighting /\ Echo(m) \in Sighting /\ <<m, "sent">> # Echo(m)
    BY <1>1, BooksAssumption DEF Sighting, Echo
  <2> QED
    BY <1>1, <2>1 DEF Apart, Winner
<1> QED
  BY <1>1 DEF StoredOnce, Excluded, Judged

(* What is sent and heard again is stored once, and nothing is dropped but for
   another that came within the window: for every number of messages and of names,
   every window and however many keys are remembered (runtime.go:492-516).  *)
THEOREM StoredOnceHolds == RuntimeSpec => []StoredOnce
<1>1. RuntimeInit => HistoryInv /\ KnownBook
  BY HistoryStarts DEF RuntimeInit
<1>2. HistoryInv /\ [RuntimeNext]_runtimeVars => HistoryInv'
  BY HistoryStep, HistoryKeeps DEF runtimeVars
<1>3. KnownBook /\ [RuntimeNext]_runtimeVars => KnownBook'
  <2>1. [HistoryNext]_historyVars => book' = book
    BY DEF HistoryNext, historyVars, PassTime, Rename, ReadNick, handlePrivmsg, Latest, Older,
           NoAnswer, Say, Submitter, FirstSight, Submit
  <2> QED
    BY <2>1, HistoryStep DEF runtimeVars, KnownBook
<1> QED
  BY <1>1, <1>2, <1>3, HistoryHolds, PTL DEF RuntimeSpec

(* The least and the greatest of a finite set of numbers.                  *)
LEMMA LeastOf ==
    ASSUME NEW S \in SUBSET Nat, IsFiniteSet(S), S # {}
    PROVE  \E m \in S : \A i \in S : m <= i
<1> DEFINE Under(i) == {j \in S : j < i}
           T == {Under(i) : i \in S}
<1>0. \A i \in S : i \in Nat
  OBVIOUS
<1>1. T \subseteq FiniteSubsetsOf(Nat) /\ T # {}
  <2>1. ASSUME NEW i \in S PROVE Under(i) \in SUBSET Nat /\ IsFiniteSet(Under(i))
    <3>1. Under(i) \in SUBSET S
      OBVIOUS
    <3> QED BY <3>1, FS_Subset
  <2> QED BY <2>1 DEF FiniteSubsetsOf
<1> HIDE DEF T
<1>2. PICK X \in T : \A Y \in T : <<Y, X>> \notin StrictSubsetOrdering(Nat)
  <2>1. IsWellFoundedOn(StrictSubsetOrdering(Nat), FiniteSubsetsOf(Nat))
    BY FS_StrictSubsetOrderingWellFounded
  <2> QED BY <1>1, <2>1, WFMin
<1>3. PICK m \in S : X = Under(m)
  BY DEF T
<1>4. ASSUME NEW i \in S, i < m PROVE FALSE
  <2>1. Under(i) \in T /\ Under(i) \in SUBSET Nat /\ Under(m) \in SUBSET Nat
    BY DEF T
  <2>2. Under(i) \subseteq Under(m) /\ i \in Under(m) /\ i \notin Under(i)
    <3>1. i \in Nat /\ m \in Nat
      BY <1>0
    <3>2. \A j \in S : j < i => j < m
      BY <1>0, <1>4, <3>1
    <3>3. i < m /\ ~(i < i)
      BY <1>4, <3>1
    <3> QED BY Zenon, <1>4, <3>2, <3>3
  <2> HIDE DEF Under
  <2>3. <<Under(i), Under(m)>> \in StrictSubsetOrdering(Nat)
    BY <2>1, <2>2 DEF StrictSubsetOrdering
  <2> QED BY <1>2, <1>3, <2>1, <2>3
<1> QED BY <1>4

LEMMA GreatestOf ==
    ASSUME NEW S \in SUBSET Nat, IsFiniteSet(S), S # {}
    PROVE  \E m \in S : \A i \in S : i <= m
<1> DEFINE Over(i) == {j \in S : j > i}
           T == {Over(i) : i \in S}
<1>0. \A i \in S : i \in Nat
  OBVIOUS
<1>1. T \subseteq FiniteSubsetsOf(Nat) /\ T # {}
  <2>1. ASSUME NEW i \in S PROVE Over(i) \in SUBSET Nat /\ IsFiniteSet(Over(i))
    <3>1. Over(i) \in SUBSET S
      OBVIOUS
    <3> QED BY <3>1, FS_Subset
  <2> QED BY <2>1 DEF FiniteSubsetsOf
<1> HIDE DEF T
<1>2. PICK X \in T : \A Y \in T : <<Y, X>> \notin StrictSubsetOrdering(Nat)
  <2>1. IsWellFoundedOn(StrictSubsetOrdering(Nat), FiniteSubsetsOf(Nat))
    BY FS_StrictSubsetOrderingWellFounded
  <2> QED BY <1>1, <2>1, WFMin
<1>3. PICK m \in S : X = Over(m)
  BY DEF T
<1>4. ASSUME NEW i \in S, m < i PROVE FALSE
  <2>1. Over(i) \in T /\ Over(i) \in SUBSET Nat /\ Over(m) \in SUBSET Nat
    BY DEF T
  <2>2. Over(i) \subseteq Over(m) /\ i \in Over(m) /\ i \notin Over(i)
    <3>1. i \in Nat /\ m \in Nat
      BY <1>0
    <3>2. \A j \in S : j > i => j > m
      BY <1>0, <1>4, <3>1
    <3>3. i > m /\ ~(i > i)
      BY <1>4, <3>1
    <3> QED BY Zenon, <1>4, <3>2, <3>3
  <2> HIDE DEF Over
  <2>3. <<Over(i), Over(m)>> \in StrictSubsetOrdering(Nat)
    BY <2>1, <2>2 DEF StrictSubsetOrdering
  <2> QED BY <1>2, <1>3, <2>1, <2>3
<1> QED BY <1>4

(* Of the numbers of S those with fewer than so many greater ones: if one of S is
   not among them, they are exactly so many, and greater than it.          *)
LEMMA NewestOf ==
    ASSUME NEW S \in SUBSET Nat, IsFiniteSet(S), NEW limit \in Nat \ {0},
           NEW k \in S, ~(Cardinality({j \in S : j > k}) < limit)
    PROVE  LET page == {i \in S : Cardinality({j \in S : j > i}) < limit}
           IN  Cardinality(page) = limit /\ \A i \in page : k < i
<1> DEFINE Over(i) == {j \in S : j > i}
           page == {i \in S : Cardinality(Over(i)) < limit}
<1>0. \A i \in S : i \in Nat
  OBVIOUS
<1>1. \A i \in S : /\ Over(i) \in SUBSET S /\ IsFiniteSet(Over(i))
                   /\ Cardinality(Over(i)) \in Nat
  <2> SUFFICES ASSUME NEW i \in S PROVE IsFiniteSet(Over(i)) /\ Cardinality(Over(i)) \in Nat
    OBVIOUS
  <2>1. Over(i) \in SUBSET S
    OBVIOUS
  <2> QED BY <2>1, FS_Subset, FS_CardinalityType
<1>2. \A i, l \in S : i <= l => Cardinality(Over(l)) <= Cardinality(Over(i))
  <2> SUFFICES ASSUME NEW i \in S, NEW l \in S, i <= l
               PROVE  Cardinality(Over(l)) <= Cardinality(Over(i))
    OBVIOUS
  <2>1. Over(l) \in SUBSET Over(i)
    <3>1. \A j \in S : j > l => j > i
      BY <1>0
    <3> QED BY <3>1
  <2> QED BY <1>1, <2>1, FS_Subset
<1>3. page \in SUBSET S /\ IsFiniteSet(page) /\ page \in SUBSET Nat
  <2>1. page \in SUBSET S
    OBVIOUS
  <2> QED BY <2>1, FS_Subset
<1>4. \A i \in page, l \in S : l \notin page => l < i
  BY <1>1, <1>2
<1>5. \A i \in page : k < i
  BY <1>4
(* The greatest that is not among them has just them above it.             *)
<1>6. Cardinality(page) >= limit
  <2> DEFINE rest == S \ page
  <2>1. rest \in SUBSET S /\ rest \in SUBSET Nat /\ IsFiniteSet(rest) /\ rest # {}
    <3>1. rest \in SUBSET S /\ k \in rest
      OBVIOUS
    <3> QED BY <3>1, FS_Subset
  <2>2. PICK m \in rest : \A i \in rest : i <= m
    <3> HIDE DEF rest
    <3> QED BY <2>1, GreatestOf
  <2>3. Over(m) \in SUBSET page
    <3>1. m \in S /\ \A j \in S : j \notin page => j <= m
      BY <2>2
    <3>2. \A j \in S : j > m => j \in page
      BY <1>0, <3>1
    <3> QED BY <3>2
  <2>4. Cardinality(Over(m)) <= Cardinality(page)
    BY <1>3, <2>3, FS_Subset
  <2>5. m \in S /\ ~(Cardinality(Over(m)) < limit)
    BY <2>2
  <2>6. Cardinality(page) \in Nat
    BY <1>3, FS_CardinalityType
  <2> QED BY <1>1, <2>4, <2>5, <2>6
(* The least of them has all the others above it.                          *)
<1>7. Cardinality(page) <= limit
  <2>1. Cardinality(page) \in Nat
    BY <1>3, FS_CardinalityType
  <2>2. CASE page = {}
    <3>1. Cardinality(page) = 0
      <4> HIDE DEF page
      <4> QED BY <2>2, FS_EmptySet
    <3> QED BY <3>1
  <2>3. CASE page # {}
    <3>1. PICK m \in page : \A i \in page : m <= i
      <4> HIDE DEF page
      <4> QED BY <1>3, <2>3, LeastOf
    <3>2. page \ {m} \in SUBSET Over(m)
      <4>1. \A j \in page : j # m => j > m
        BY <1>0, <3>1
      <4> QED BY <4>1
    <3>3. Cardinality(page \ {m}) <= Cardinality(Over(m))
      BY <1>1, <3>2, FS_Subset
    <3>4. Cardinality(page \ {m}) = Cardinality(page) - 1
      BY <1>3, <3>1, FS_RemoveElement
    <3>5. Cardinality(Over(m)) < limit /\ Cardinality(Over(m)) \in Nat
      BY <1>1, <3>1
    <3> QED BY <2>1, <3>3, <3>4, <3>5
  <2> QED BY <2>2, <2>3
<1> QED
  <2>1. Cardinality(page) \in Nat
    BY <1>3, FS_CardinalityType
  <2> QED BY <1>5, <1>6, <1>7, <2>1

(* A time, and what a reader is shown of it.                               *)
LEMMA Coarse ==
    ASSUME NEW a \in Nat, NEW b \in Nat, NEW g \in Nat \ {0}, a <= b
    PROVE  a - (a % g) = b - (b % g) \/ a < b - (b % g)
<1> DEFINE p == a \div g
           q == b \div g
<1>1. /\ p \in Nat /\ q \in Nat /\ a % g \in Nat /\ b % g \in Nat
      /\ a = g * p + (a % g) /\ b = g * q + (b % g) /\ a % g < g /\ b % g < g
  OBVIOUS
<1> HIDE DEF p, q
<1>2. \A m, n \in Nat : m + 1 <= n => g * m + g <= g * n
  <2> SUFFICES ASSUME NEW m \in Nat, NEW n \in Nat, m + 1 <= n PROVE g * m + g <= g * n
    OBVIOUS
  <2>1. n - (m + 1) \in Nat /\ n = m + 1 + (n - (m + 1))
    OBVIOUS
  <2> DEFINE d == n - (m + 1)
  <2> HIDE DEF d
  <2>2. d \in Nat /\ n = m + 1 + d
    BY <2>1 DEF d
  <2>3. g * n = g * m + g + (g * d) /\ g * d \in Nat /\ g * m \in Nat
    BY <2>2
  <2> QED BY <2>3
<1>3. g * p \in Nat /\ g * q \in Nat
  BY <1>1
<1>4. CASE p = q
  BY <1>1, <1>3, <1>4
<1>5. CASE p + 1 <= q
  BY <1>1, <1>2, <1>3, <1>5
<1>6. CASE q + 1 <= p
  BY <1>1, <1>2, <1>3, <1>6
<1> QED BY <1>1, <1>4, <1>5, <1>6

LEMMA ShownIsTime == ASSUME NEW t \in Nat, NEW g \in Nat \ {0} PROVE t - (t % g) \in Nat
OBVIOUS

-----------------------------------------------------------------------------
(* Paging.  What the store and the reader hold.                            *)

Row == [of : Sighting, ts : Nat]

RowTypes ==
    /\ rows \in Seq(Row)
    /\ \A i \in 1..Len(rows) : rows[i].of \in kept
    /\ \A i, j \in 1..Len(rows) : rows[i].of = rows[j].of => i = j

ReaderTypes ==
    /\ reader \in [pc : {"idle", "asks", "ended"}, before : Int, wanted : SUBSET Sighting,
                   shown : SUBSET Sighting, edges : SUBSET Row]
    /\ reader.wanted \subseteq kept
    /\ reader.pc = "idle" => reader.wanted = {}
    /\ reader.pc = "asks" => reader.before # Always

(* A row that a newer one of an earlier time follows in the store.         *)
Overtaken(i) == \E j \in 1..Len(rows) : j > i /\ rows[j].ts < rows[i].ts

(* Whatever is wanted is shown, excused, or still older than what is asked for. *)
Paged(i) == rows[i].of \in reader.shown \/ Blurred(rows[i]) \/ Overtaken(i)

PagingInv ==
    \A i \in 1..Len(rows) :
       rows[i].of \in reader.wanted =>
          Paged(i) \/ (reader.pc = "asks" /\ rows[i].ts < reader.before)

PageInv == KnownBook /\ RowTypes /\ ReaderTypes /\ PagingInv

LEMMA PagingStarts == HistoryInit => PageInv
<1> SUFFICES ASSUME HistoryInit PROVE PageInv
  OBVIOUS
<1>1. rows = <<>> /\ Len(rows) = 0 /\ reader.wanted = {}
  BY DEF HistoryInit
<1>2. RowTypes
  BY <1>1 DEF RowTypes
<1>3. ReaderTypes
  BY <1>1 DEF ReaderTypes, HistoryInit, Always
<1> QED
  BY <1>1, <1>2, <1>3 DEF PageInv, PagingInv, KnownBook, HistoryInit

(* A step that leaves store and reader alone.                              *)
LEMMA PagingFrame ==
    ASSUME PageInv, UNCHANGED <<book, rows, kept, reader>> PROVE PageInv'
BY DEF PageInv, KnownBook, RowTypes, ReaderTypes, PagingInv, Paged, Blurred, Shown, Overtaken

(* What falls off falls off at the old end.                                *)
LEMMA KeptShifts ==
    ASSUME NEW S, NEW rs \in Seq(S)
    PROVE  /\ Kept(rs) \in Seq(S)
           /\ \E d \in Nat :
                 /\ Len(Kept(rs)) = Len(rs) - d
                 /\ \A i \in 1..Len(Kept(rs)) :
                       i + d \in 1..Len(rs) /\ Kept(rs)[i] = rs[i + d]
<1>1. perChannelCap \in Nat \ {0} /\ Len(rs) \in Nat
  BY HistoryAssumption, LenProperties
<1>2. CASE book.remote \/ Len(rs) <= perChannelCap
  <2>1. Kept(rs) = rs
    BY <1>2 DEF Kept
  <2>2. \A i \in 1..Len(rs) : i + 0 \in 1..Len(rs) /\ rs[i] = rs[i + 0]
    BY <1>1
  <2> QED BY <1>1, <2>1, <2>2
<1>3. CASE ~(book.remote \/ Len(rs) <= perChannelCap)
  <2> DEFINE d == Len(rs) - perChannelCap
             few == SubSeq(rs, d + 1, Len(rs))
  <2>1. Kept(rs) = few /\ d \in Nat /\ d + 1 \in Int /\ Len(rs) \in Int /\ d + 1 <= Len(rs)
    BY <1>1, <1>3 DEF Kept
  <2>2. \A i \in (d + 1)..Len(rs) : rs[i] \in S
    BY <1>1, <2>1, ElementOfSeq
  <2>3. /\ few \in Seq(S) /\ Len(few) = Len(rs) - (d + 1) + 1
        /\ \A i \in 1..(Len(rs) - (d + 1) + 1) : few[i] = rs[(d + 1) + i - 1]
    <3> HIDE DEF d
    <3> QED BY <2>1, <2>2, SubSeqProperties
  <2>4. Len(few) = Len(rs) - d
    BY <1>1, <2>3
  <2>5. \A i \in 1..Len(few) : i + d \in 1..Len(rs) /\ few[i] = rs[i + d]
    <3> HIDE DEF few
    <3> QED BY <1>1, <2>1, <2>3, <2>4
  <2> QED BY <2>1, <2>3, <2>4, <2>5
<1> QED BY <1>2, <1>3

(* A row that is stored now was not wanted, and moves the others together. *)
LEMMA SubmitKeepsPaging ==
    ASSUME HistoryInv, PageInv, NEW x \in Sighting, Submit(x)
    PROVE  PageInv'
<1> USE DEF PageInv
<1> DEFINE new == [of |-> x, ts |-> stamp[x]]
           all == Append(rows, new)
           n == Len(rows)
<1>1. /\ rows' = Kept(all) /\ kept' = kept \cup {x} /\ x \notin kept
      /\ UNCHANGED <<book, reader>>
  BY DEF Submit, HistoryInv, HistoryTypes
<1>2. /\ rows \in Seq(Row) /\ new \in Row /\ n \in Nat
      /\ all \in Seq(Row) /\ Len(all) = n + 1 /\ all[n + 1] = new
      /\ \A i \in 1..n : all[i] = rows[i]
  <2>1. rows \in Seq(Row) /\ new \in Row
    BY DEF RowTypes, Row, HistoryInv, HistoryTypes
  <2> QED BY <2>1, AppendProperties, LenProperties
<1> HIDE DEF all
<1>3. /\ rows' \in Seq(Row)
      /\ \E d \in Nat : /\ Len(rows') = n + 1 - d
                        /\ \A i \in 1..Len(rows') :
                              i + d \in 1..(n + 1) /\ rows'[i] = all[i + d]
  <2>1. \A S : \A rs \in Seq(S) :
           /\ Kept(rs) \in Seq(S)
           /\ \E d \in Nat :
                 /\ Len(Kept(rs)) = Len(rs) - d
                 /\ \A i \in 1..Len(Kept(rs)) :
                       i + d \in 1..Len(rs) /\ Kept(rs)[i] = rs[i + d]
    BY KeptShifts
  <2>2. \A rs \in Seq(Row) :
           /\ Kept(rs) \in Seq(Row)
           /\ \E d \in Nat :
                 /\ Len(Kept(rs)) = Len(rs) - d
                 /\ \A i \in 1..Len(Kept(rs)) :
                       i + d \in 1..Len(rs) /\ Kept(rs)[i] = rs[i + d]
    BY <2>1
  <2>3. /\ Kept(all) \in Seq(Row)
        /\ \E d \in Nat :
              /\ Len(Kept(all)) = Len(all) - d
              /\ \A i \in 1..Len(Kept(all)) :
                    i + d \in 1..Len(all) /\ Kept(all)[i] = all[i + d]
    BY <1>2, <2>2
  <2> QED BY <1>1, <1>2, <2>3
<1>4. PICK d \in Nat : /\ Len(rows') = n + 1 - d
                       /\ \A i \in 1..Len(rows') :
                             i + d \in 1..(n + 1) /\ rows'[i] = all[i + d]
  BY <1>3
<1> DEFINE m == Len(rows')
<1>5. m \in Nat
  BY <1>3, LenProperties
<1>6. \A i \in 1..m : /\ i + d \in 1..n => rows'[i] = rows[i + d]
                      /\ i + d \notin 1..n => i + d = n + 1 /\ rows'[i] = new
  BY <1>2, <1>4, <1>5
<1> HIDE DEF m, n, new
<1>7. new.of = x /\ \A i \in 1..n : rows[i].of \in kept /\ rows[i].of # x
  BY <1>1 DEF RowTypes, new, n
<1>8. \A i \in 1..m : rows'[i].of \in kept'
  BY <1>1, <1>6, <1>7
<1>9. \A i, j \in 1..m : rows'[i].of = rows'[j].of => i = j
  <2> SUFFICES ASSUME NEW i \in 1..m, NEW j \in 1..m, rows'[i].of = rows'[j].of PROVE i = j
    OBVIOUS
  <2>1. CASE i + d \in 1..n /\ j + d \in 1..n
    <3>1. i + d = j + d
      BY <1>6, <2>1 DEF RowTypes, n
    <3> QED BY <1>5, <3>1
  <2>2. CASE i + d \notin 1..n /\ j + d \notin 1..n
    BY <1>2, <1>5, <1>6, <2>2
  <2>3. CASE (i + d \in 1..n) # (j + d \in 1..n)
    BY <1>6, <1>7, <2>3
  <2> QED BY <2>1, <2>2, <2>3
<1>10. RowTypes'
  BY <1>3, <1>8, <1>9 DEF RowTypes, m
<1>11. ReaderTypes'
  BY <1>1 DEF ReaderTypes
<1>12. ASSUME NEW i \in 1..m, rows'[i].of \in reader'.wanted
       PROVE  Paged(i)' \/ (reader'.pc = "asks" /\ rows'[i].ts < reader'.before)
  <2> DEFINE k == i + d
  <2>1. k \in 1..n /\ rows'[i] = rows[k]
    BY <1>1, <1>6, <1>7, <1>12 DEF ReaderTypes
  <2> HIDE DEF k
  <2>2. Paged(k) \/ (reader.pc = "asks" /\ rows[k].ts < reader.before)
    BY <1>1, <1>12, <2>1 DEF PagingInv, n
  <2>3. ASSUME Overtaken(k) PROVE Overtaken(i)'
    <3>1. PICK j \in 1..n : j > k /\ rows[j].ts < rows[k].ts
      BY <2>3 DEF Overtaken, n
    <3>2. j - d \in 1..m /\ j - d > i /\ (j - d) + d = j
      BY <1>2, <1>4, <1>5, <2>1, <3>1 DEF k, m
    <3>3. rows'[j - d] = rows[j]
      BY <1>6, <3>1, <3>2
    <3> QED BY <2>1, <3>1, <3>2, <3>3 DEF Overtaken, m
  <2>4. ASSUME Blurred(rows[k]) PROVE Blurred(rows[i])'
    BY <1>1, <2>1, <2>4 DEF Blurred, Shown
  <2> QED BY <1>1, <2>1, <2>2, <2>3, <2>4 DEF Paged
<1>13. PagingInv'
  BY <1>12 DEF PagingInv, m
<1> QED BY <1>1, <1>10, <1>11, <1>13 DEF KnownBook

(* A page: what it does not show of what was asked for is covered by the time of
   its oldest row, overtook it, or is older still.                         *)
LEMMA PageKeepsPaging ==
    ASSUME PageInv, NEW before \in Int, Page(Recent(before, pageLimit)),
           UNCHANGED <<book, rows, kept>>,
           reader.pc = "idle" => before = Always,
           reader.pc # "idle" => reader.pc = "asks" /\ before = reader.before
    PROVE  PageInv'
<1> USE DEF PageInv
<1> DEFINE n == Len(rows)
           older == OlderThan(before)
           page == Recent(before, pageLimit)
           wanted == IF reader.pc = "idle" THEN RowsOf(1..n) ELSE reader.wanted
<1>1. /\ n \in Nat /\ rows \in Seq(Row) /\ \A i \in 1..n : rows[i] \in Row
      /\ \A i \in 1..n : rows[i].ts \in Nat /\ rows[i].of \in Sighting /\ rows[i].of \in kept
  <2>1. n \in Nat /\ rows \in Seq(Row)
    BY LenProperties DEF RowTypes
  <2>2. \A i \in 1..n : rows[i] \in Row
    BY <2>1, ElementOfSeq
  <2>3. \A r \in Row : r.ts \in Nat /\ r.of \in Sighting
    BY DEF Row
  <2> QED BY <2>1, <2>2, <2>3 DEF RowTypes
<1>2. pageLimit \in Nat \ {0} /\ book.grain \in Nat \ {0}
  BY HistoryAssumption, BooksAssumption DEF KnownBook
<1>3. older \in SUBSET (1..n) /\ older \in SUBSET Nat /\ IsFiniteSet(older)
  <2>1. older \in SUBSET (1..n) /\ 1..n \in SUBSET Nat
    BY <1>1 DEF OlderThan
  <2>2. IsFiniteSet(1..n)
    BY <1>1, FS_Interval
  <2> HIDE DEF older
  <2> QED BY <2>1, <2>2, FS_Subset
<1>4. /\ page \in SUBSET (1..n)
      /\ \A k \in older : k \notin page =>
            Cardinality(page) = pageLimit /\ \A i \in page : k < i
  <2>1. page = {i \in older : Cardinality({j \in older : j > i}) < pageLimit}
    BY DEF Recent
  <2> HIDE DEF older, page
  <2>2. \A k \in older : ~(Cardinality({j \in older : j > k}) < pageLimit) =>
            Cardinality(page) = pageLimit /\ \A i \in page : k < i
    <3> DEFINE chosen == {i \in older : Cardinality({j \in older : j > i}) < pageLimit}
    <3>1. ASSUME NEW k \in older, ~(Cardinality({j \in older : j > k}) < pageLimit)
          PROVE  Cardinality(chosen) = pageLimit /\ \A i \in chosen : k < i
      BY <1>2, <1>3, <3>1, NewestOf
    <3> QED BY <2>1, <3>1
  <2> QED BY <1>3, <2>1, <2>2
<1>5. RowTypes' /\ KnownBook'
  BY DEF RowTypes, KnownBook
<1>6. wanted \subseteq kept /\ wanted \in SUBSET Sighting /\ RowsOf(page) \in SUBSET Sighting
  <2> HIDE DEF page
  <2> QED BY <1>1, <1>4 DEF RowsOf, ReaderTypes
(* What the step does.                                                     *)
<1> HIDE DEF page, older
<1> DEFINE read == [reader EXCEPT !.shown = reader.shown \cup RowsOf(page), !.wanted = wanted]
           Readers == [pc : {"idle", "asks", "ended"}, before : Int, wanted : SUBSET Sighting,
                       shown : SUBSET Sighting, edges : SUBSET Row]
<1>7. /\ read \in Readers /\ read.wanted = wanted /\ read.edges = reader.edges
      /\ read.shown = reader.shown \cup RowsOf(page)
  <2>1. reader \in Readers
    BY DEF ReaderTypes
  <2> HIDE DEF wanted
  <2> QED BY <1>6, <2>1
<1>8. \/ Cardinality(page) # pageLimit /\ reader' = [read EXCEPT !.pc = "ended"]
      \/ /\ Cardinality(page) = pageLimit
         /\ \E i \in page :
               /\ \A j \in page : i <= j
               /\ reader' = [read EXCEPT !.pc = "asks", !.before = Shown(rows[i].ts),
                                         !.edges = @ \cup {rows[i]}]
  BY Zenon DEF Page, page
<1> HIDE DEF read, wanted
<1>9. CASE Cardinality(page) # pageLimit /\ reader' = [read EXCEPT !.pc = "ended"]
  <2>1. /\ reader' \in Readers /\ reader'.pc = "ended" /\ reader'.wanted = wanted
        /\ reader'.edges = reader.edges /\ reader'.shown = reader.shown \cup RowsOf(page)
    BY <1>7, <1>9
  <2> HIDE DEF Readers
  <2>2. ReaderTypes'
    BY <1>6, <2>1 DEF ReaderTypes, Readers
  <2>3. ASSUME NEW k \in 1..n, rows[k].of \in wanted PROVE Paged(k)'
    <3>1. CASE k \in older
      <4>1. k \in page
        BY <1>4, <1>9, <3>1
      <4> QED BY <2>1, <4>1 DEF Paged, RowsOf
    <3>2. CASE k \notin older
      <4>1. reader.pc = "asks" /\ ~(rows[k].ts < reader.before) /\ wanted = reader.wanted
        BY <3>2 DEF older, OlderThan, wanted
      <4>2. Paged(k)
        BY <2>3, <4>1 DEF PagingInv
      <4> QED BY <2>1, <4>2 DEF Paged, Blurred, Shown, Overtaken
    <3> QED BY <3>1, <3>2
  <2>4. PagingInv'
    BY <2>1, <2>3 DEF PagingInv
  <2> QED BY <1>5, <2>2, <2>4
<1>10. ASSUME NEW first \in page, \A j \in page : first <= j,
              Cardinality(page) = pageLimit,
              reader' = [read EXCEPT !.pc = "asks", !.before = Shown(rows[first].ts),
                                     !.edges = @ \cup {rows[first]}]
       PROVE  PageInv'
  <2>1. first \in 1..n /\ rows[first] \in Row /\ rows[first].ts \in Nat
    BY <1>1, <1>4
  <2>2. Shown(rows[first].ts) \in Nat
    BY <1>2, <2>1, ShownIsTime DEF Shown
  <2>3. /\ reader' \in Readers /\ reader'.pc = "asks" /\ reader'.wanted = wanted
        /\ reader'.edges = reader.edges \cup {rows[first]}
        /\ reader'.shown = reader.shown \cup RowsOf(page)
        /\ reader'.before = Shown(rows[first].ts)
    <3> DEFINE more == read.edges \cup {rows[first]}
               time == Shown(rows[first].ts)
    <3>1. more \in SUBSET Row /\ time \in Int
      BY <1>7, <2>1, <2>2
    <3>2. reader' = [read EXCEPT !.pc = "asks", !.before = time, !.edges = more]
      BY Zenon, <1>10
    <3>3. more = reader.edges \cup {rows[first]}
      BY <1>7
    <3> HIDE DEF more, time
    <3>4. /\ reader' \in Readers /\ reader'.pc = "asks" /\ reader'.wanted = wanted
          /\ reader'.shown = reader.shown \cup RowsOf(page)
          /\ reader'.before = time /\ reader'.edges = more
      BY <1>7, <3>1, <3>2
    <3> QED BY <3>3, <3>4 DEF time
  <2> HIDE DEF Readers
  <2>4. ReaderTypes'
    BY <1>6, <2>2, <2>3 DEF ReaderTypes, Readers, Always
  <2>5. ASSUME NEW k \in 1..n, rows[k].of \in wanted
        PROVE  Paged(k)' \/ rows[k].ts < reader'.before
    <3>1. CASE k \in older /\ k \notin page
      <4>1. k < first /\ rows[k].ts \in Nat
        BY <1>1, <1>4, <1>10, <3>1
      <4>2. CASE rows[first].ts < rows[k].ts
        <5>1. Overtaken(k)'
          BY <2>1, <4>1, <4>2 DEF Overtaken
        <5> QED BY <5>1 DEF Paged
      <4>3. CASE rows[k].ts <= rows[first].ts
        <5>1. \/ Shown(rows[k].ts) = Shown(rows[first].ts)
              \/ rows[k].ts < Shown(rows[first].ts)
          BY <1>2, <2>1, <4>1, <4>3, Coarse DEF Shown
        <5>2. Shown(rows[first].ts) = Shown(rows[k].ts) => Blurred(rows[k])'
          BY <2>3 DEF Blurred, Shown
        <5> QED BY <2>3, <5>1, <5>2 DEF Paged
      <4> QED BY <2>1, <4>1, <4>2, <4>3
    <3>2. CASE k \in page
      BY <2>3, <3>2 DEF Paged, RowsOf
    <3>3. CASE k \notin older
      <4>1. reader.pc = "asks" /\ ~(rows[k].ts < reader.before) /\ wanted = reader.wanted
        BY <3>3 DEF older, OlderThan, wanted
      <4>2. Paged(k)
        BY <2>5, <4>1 DEF PagingInv
      <4> QED BY <2>3, <4>2 DEF Paged, Blurred, Shown, Overtaken
    <3> QED BY <3>1, <3>2, <3>3
  <2>6. PagingInv'
    BY <2>3, <2>5 DEF PagingInv
  <2> QED BY <1>5, <2>4, <2>6
<1> QED BY <1>8, <1>9, <1>10

LEMMA PagingKeeps == HistoryInv /\ PageInv /\ [HistoryNext]_historyVars => PageInv'
<1> SUFFICES ASSUME HistoryInv, PageInv, [HistoryNext]_historyVars PROVE PageInv'
  OBVIOUS
<1>1. CASE \/ PassTime \/ Rename \/ ReadNick \/ handlePrivmsg \/ UNCHANGED historyVars
           \/ \E m \in Msg : Say(m)
           \/ \E x \in Sighting : Submitter(x) \/ FirstSight(x)
  <2>1. UNCHANGED <<book, rows, kept, reader>>
    BY <1>1 DEF PassTime, Rename, ReadNick, handlePrivmsg, Say, Submitter, FirstSight, historyVars
  <2> QED BY <2>1, PagingFrame
<1>2. CASE Latest
  BY <1>2, PageKeepsPaging DEF Latest, Always
<1>3. CASE Older
  <2>1. reader.before \in Int
    BY DEF PageInv, ReaderTypes
  <2> QED BY <1>3, <2>1, PageKeepsPaging DEF Older
<1>4. CASE NoAnswer
  <2>1. /\ reader' = [reader EXCEPT !.pc = "ended", !.wanted = {}]
        /\ UNCHANGED <<book, rows, kept>>
    BY <1>4 DEF NoAnswer
  <2>2. ReaderTypes' /\ reader'.wanted = {}
    BY <2>1 DEF PageInv, ReaderTypes
  <2> QED BY <2>1, <2>2 DEF PageInv, KnownBook, RowTypes, PagingInv
<1>5. CASE \E x \in Sighting : Submit(x)
  BY <1>5, SubmitKeepsPaging
<1> QED BY <1>1, <1>2, <1>3, <1>4, <1>5 DEF HistoryNext

(* A row is stored once, so its place is known.                            *)
LEMMA PagingHolds == PageInv => PagesMissNothing
<1> SUFFICES ASSUME PageInv, reader.pc = "ended",
                    NEW i \in 1..Len(rows), rows[i].of \in reader.wanted,
                    rows[i].of \notin reader.shown, ~Blurred(rows[i])
             PROVE  Crossed(rows[i])
  BY DEF PagesMissNothing
<1>1. PICK j \in 1..Len(rows) : j > i /\ rows[j].ts < rows[i].ts
  BY DEF PageInv, PagingInv, Paged, Overtaken
<1>2. Position(rows[i]) = i
  <2>1. \A k \in 1..Len(rows) : rows[k] = rows[i] <=> k = i
    BY DEF PageInv, RowTypes
  <2> QED BY Zenon, <2>1 DEF Position
<1> QED BY <1>1, <1>2 DEF Crossed

(* Who pages back is shown all there was when he began and is still kept, whatever
   comes and falls off meanwhile, but for rows that the coarse time of a page's
   edge covers or that overtook each other: for every number of messages, every
   cap, every size of a page and every grain of the times shown
   (messages.go:93-137, gateway.go:1031-1059).                             *)
THEOREM PagesMissNothingHolds == RuntimeSpec => []PagesMissNothing
<1>1. RuntimeInit => HistoryInv /\ PageInv
  BY HistoryStarts, PagingStarts DEF RuntimeInit
<1>2. HistoryInv /\ [RuntimeNext]_runtimeVars => HistoryInv'
  BY HistoryStep, HistoryKeeps DEF runtimeVars
<1>3. HistoryInv /\ PageInv /\ [RuntimeNext]_runtimeVars => PageInv'
  BY HistoryStep, PagingKeeps DEF runtimeVars
<1> QED
  BY <1>1, <1>2, <1>3, PagingHolds, PTL DEF RuntimeSpec

-----------------------------------------------------------------------------
(* The refreshers.  While one applies what it has got, the surfaces that are left
   to set are the last of its own, and the others hold it already.         *)

Polled == {"commands", "flows", "config"}

Rest == [commands |-> {<<"registry", "engine", "scheduler">>, <<"engine", "scheduler">>,
                       <<"scheduler">>},
         flows |-> {<<"flows">>},
         config |-> {<<"nick", "channels", "intent">>, <<"channels", "intent">>, <<"intent">>}]

Items(q) == {q[i] : i \in 1..Len(q)}

RefreshTypes ==
    /\ loop \in [Background -> LoopPlaces] /\ DOMAIN inForce = Surface
    /\ DOMAIN todo = Refresher /\ DOMAIN last = Refresher /\ DOMAIN got = Refresher
    /\ \A r \in Polled : loop[r] = "apply" => todo[r] \in Rest[r]

SetSoFar(r) ==
    loop[r] = "apply" => \A s \in SetBy(r) \ Items(todo[r]) : inForce[s] \in {got[r], Own}
InForceOf(r) ==
    last[r] # NoValue /\ loop[r] # "apply" => \A s \in SetBy(r) : inForce[s] \in {last[r], Own}

RefreshInv == RefreshTypes /\ \A r \in Polled : SetSoFar(r) /\ InForceOf(r)

LEMMA SurfacesOf ==
    /\ SetBy("commands") = {"registry", "engine", "scheduler"}
    /\ SetBy("flows") = {"flows"}
    /\ SetBy("config") = {"nick", "channels", "intent"}
  BY DEF SetBy

LEMMA OwnSurfaces ==
  ASSUME NEW r \in Polled, NEW q \in Polled
  PROVE  /\ SetBy(r) \subseteq Surface
         /\ q # r => SetBy(r) \cap SetBy(q) = {}
  BY SurfacesOf DEF Polled, Surface

(* Lists of one, two and three, and none.                                  *)
LEMMA NoItems == Items(<< >>) = {}
  BY DEF Items

LEMMA OneItem ==
  ASSUME NEW a1
  PROVE  /\ Len(<<a1>>) = 1 /\ Head(<<a1>>) = a1 /\ Tail(<<a1>>) = << >>
         /\ Items(<<a1>>) = {a1}
  BY DEF Items

LEMMA TwoItems ==
  ASSUME NEW a1, NEW a2
  PROVE  /\ Len(<<a1, a2>>) = 2 /\ Head(<<a1, a2>>) = a1 /\ Tail(<<a1, a2>>) = <<a2>>
         /\ Items(<<a1, a2>>) = {a1, a2}
  BY DEF Items

LEMMA ThreeItems ==
  ASSUME NEW a1, NEW a2, NEW a3
  PROVE  /\ Len(<<a1, a2, a3>>) = 3
         /\ Head(<<a1, a2, a3>>) = a1 /\ Tail(<<a1, a2, a3>>) = <<a2, a3>>
         /\ Items(<<a1, a2, a3>>) = {a1, a2, a3}
  BY DEF Items

LEMMA CommandList ==
    /\ Len(<<"registry", "engine", "scheduler">>) = 3
    /\ Head(<<"registry", "engine", "scheduler">>) = "registry"
    /\ Tail(<<"registry", "engine", "scheduler">>) = <<"engine", "scheduler">>
    /\ Items(<<"registry", "engine", "scheduler">>) = {"registry", "engine", "scheduler"}
    /\ Items(<<"engine", "scheduler">>) = {"engine", "scheduler"}
<1>1. Items(<<"registry", "engine", "scheduler">>) = {"registry", "engine", "scheduler"}
  BY ThreeItems
<1>2. Items(<<"engine", "scheduler">>) = {"engine", "scheduler"}
  BY TwoItems
<1> QED BY <1>1, <1>2

LEMMA ConfigList ==
    /\ Len(<<"nick", "channels", "intent">>) = 3
    /\ Head(<<"nick", "channels", "intent">>) = "nick"
    /\ Tail(<<"nick", "channels", "intent">>) = <<"channels", "intent">>
    /\ Items(<<"nick", "channels", "intent">>) = {"nick", "channels", "intent"}
    /\ Items(<<"channels", "intent">>) = {"channels", "intent"}
<1>1. Items(<<"nick", "channels", "intent">>) = {"nick", "channels", "intent"}
  BY ThreeItems
<1>2. Items(<<"channels", "intent">>) = {"channels", "intent"}
  BY TwoItems
<1> QED BY <1>1, <1>2

(* A list of surfaces left to set begins with one of the refresher's, and its tail is
   another such list, or empty.                                            *)
LEMMA RestStep ==
  ASSUME NEW r \in Polled, NEW list \in Rest[r]
  PROVE  /\ Head(list) \in SetBy(r)
         /\ Items(list) = {Head(list)} \cup Items(Tail(list))
         /\ Len(list) = 1 \/ Len(list) > 1
         /\ Len(list) > 1 => Tail(list) \in Rest[r]
         /\ Len(list) = 1 => Items(Tail(list)) = {}
<1>1. CASE list = <<"registry", "engine", "scheduler">> /\ r = "commands"
  BY <1>1, CommandList, SurfacesOf DEF Rest
<1>2. CASE list = <<"engine", "scheduler">> /\ r = "commands"
  BY <1>2, SurfacesOf, TwoItems, OneItem DEF Rest
<1>3. CASE list = <<"scheduler">> /\ r = "commands"
  BY <1>3, SurfacesOf, OneItem, NoItems DEF Rest
<1>4. CASE list = <<"flows">> /\ r = "flows"
  BY <1>4, SurfacesOf, OneItem, NoItems DEF Rest
<1>5. CASE list = <<"nick", "channels", "intent">> /\ r = "config"
  BY <1>5, ConfigList, SurfacesOf DEF Rest
<1>6. CASE list = <<"channels", "intent">> /\ r = "config"
  BY <1>6, SurfacesOf, TwoItems, OneItem DEF Rest
<1>7. CASE list = <<"intent">> /\ r = "config"
  BY <1>7, SurfacesOf, OneItem, NoItems DEF Rest
<1> QED BY <1>1, <1>2, <1>3, <1>4, <1>5, <1>6, <1>7 DEF Polled, Rest

LEMMA WholeRest ==
  ASSUME NEW r \in Polled
  PROVE  Surfaces[r] \in Rest[r] /\ Items(Surfaces[r]) = SetBy(r)
<1>1. CASE r = "commands"
  BY <1>1, SurfacesOf, CommandList DEF Rest, Surfaces, ApplySkills
<1>2. CASE r = "flows"
  BY <1>2, SurfacesOf, OneItem DEF Rest, Surfaces, ApplyFlows
<1>3. CASE r = "config"
  BY <1>3, SurfacesOf, ConfigList DEF Rest, Surfaces, ApplyConfig
<1> QED BY <1>1, <1>2, <1>3 DEF Polled

LEMMA RefreshStarts == RuntimeInit => RefreshInv
  BY DEF RuntimeInit, Build, Started, RefreshInv, RefreshTypes, SetSoFar, InForceOf, Background,
         Refresher, LoopPlaces, Polled

(* A step of one refresher.  It leaves alone what the others have and set. *)
LEMMA OneRefreshes ==
  ASSUME RefreshInv, NEW r \in Polled, Refreshes(r)
  PROVE  RefreshInv'
<1> USE DEF Refresher, Background, Polled
<1>1. CASE (Polls(r) \/ LoopEnds(r) \/ FetchFails(r)) /\ UNCHANGED <<got, last, todo, inForce>>
  BY <1>1 DEF Polls, LoopEnds, FetchFails, LoopTo, LoopPlaces, RefreshInv, RefreshTypes,
              SetSoFar, InForceOf
<1>2. CASE Answered(r) /\ UNCHANGED <<last, todo, inForce>>
  BY <1>2 DEF Answered, LoopTo, LoopPlaces, RefreshInv, RefreshTypes, SetSoFar, InForceOf
<1>3. CASE refreshOnce(r) /\ UNCHANGED <<got, last, inForce>>
  <2>1. CASE got[r] = last[r]
    BY <1>3, <2>1 DEF refreshOnce, LoopTo, LoopPlaces, RefreshInv, RefreshTypes, SetSoFar,
                      InForceOf
  <2>2. CASE got[r] # last[r]
    <3>1. loop' = [loop EXCEPT ![r] = "apply"] /\ todo' = [todo EXCEPT ![r] = Surfaces[r]]
      BY <1>3, <2>2 DEF refreshOnce, LoopTo
    <3>2. RefreshTypes'
      BY <1>3, <3>1, WholeRest DEF RefreshInv, RefreshTypes, LoopPlaces
    <3>3. ASSUME NEW q \in Polled PROVE SetSoFar(q)' /\ InForceOf(q)'
      BY <1>3, <3>1, <3>3, WholeRest DEF RefreshInv, RefreshTypes, SetSoFar, InForceOf
    <3> QED BY <3>2, <3>3 DEF RefreshInv
  <2> QED BY <2>1, <2>2
<1>4. CASE Sets(r) /\ UNCHANGED got
  <2> DEFINE s == Head(todo[r])
  <2>1. todo[r] \in Rest[r] /\ loop[r] = "apply"
    BY <1>4 DEF Sets, RefreshInv, RefreshTypes
  <2>2. /\ s \in SetBy(r) /\ s \in Surface
        /\ Items(todo[r]) = {s} \cup Items(Tail(todo[r]))
        /\ Len(todo[r]) = 1 \/ Len(todo[r]) > 1
        /\ Len(todo[r]) > 1 => Tail(todo[r]) \in Rest[r]
        /\ Len(todo[r]) = 1 => Items(Tail(todo[r])) = {}
    BY <2>1, RestStep, OwnSurfaces
  <2>3. /\ inForce' = [inForce EXCEPT ![s] = got[r]]
        /\ todo' = [todo EXCEPT ![r] = Tail(todo[r])]
    BY <1>4 DEF Sets
  <2>4. \A x \in SetBy(r) \ Items(todo'[r]) : inForce'[x] \in {got'[r], Own}
    BY <1>4, <2>1, <2>2, <2>3 DEF RefreshInv, RefreshTypes, SetSoFar
  <2>5. \A q \in Polled \ {r} : \A x \in SetBy(q) : inForce'[x] = inForce[x]
    BY <2>2, <2>3, OwnSurfaces DEF RefreshInv, RefreshTypes
  <2> HIDE DEF s
  <2>6. CASE Len(todo[r]) > 1
    <3>1. UNCHANGED <<loop, last>>
      BY <1>4, <2>6 DEF Sets
    <3>2. RefreshTypes'
      <4>1. \A q \in Polled : loop'[q] = "apply" => todo'[q] \in Rest[q]
        BY <2>2, <2>3, <2>6, <3>1 DEF RefreshInv, RefreshTypes
      <4> QED BY <1>4, <2>3, <3>1, <4>1 DEF RefreshInv, RefreshTypes
    <3>3. ASSUME NEW q \in Polled PROVE SetSoFar(q)' /\ InForceOf(q)'
      BY <1>4, <2>1, <2>3, <2>4, <2>5, <3>1, <3>3
      DEF RefreshInv, RefreshTypes, SetSoFar, InForceOf
    <3> QED BY <3>2, <3>3 DEF RefreshInv
  <2>7. CASE Len(todo[r]) = 1
    <3>1. loop' = [loop EXCEPT ![r] = "wait"] /\ last' = [last EXCEPT ![r] = got[r]]
      BY <1>4, <2>7 DEF Sets, LoopTo
    <3>2. RefreshTypes'
      BY <1>4, <2>3, <3>1 DEF RefreshInv, RefreshTypes, LoopPlaces
    <3>3. Items(todo'[r]) = {}
      BY <2>2, <2>3, <2>7 DEF RefreshInv, RefreshTypes
    <3>4. ASSUME NEW q \in Polled PROVE SetSoFar(q)' /\ InForceOf(q)'
      BY <1>4, <2>1, <2>3, <2>4, <2>5, <3>1, <3>3, <3>4
      DEF RefreshInv, RefreshTypes, SetSoFar, InForceOf
    <3> QED BY <3>2, <3>4 DEF RefreshInv
  <2> QED BY <2>2, <2>6, <2>7
<1> QED BY <1>1, <1>2, <1>3, <1>4 DEF Refreshes

LEMMA RefreshKeeps == RefreshInv /\ [RuntimeNext]_runtimeVars => RefreshInv'
<1> SUFFICES ASSUME RefreshInv, [RuntimeNext]_runtimeVars PROVE RefreshInv'
  OBVIOUS
<1> USE DEF Refresher, Background
<1>1. ASSUME UNCHANGED refreshVars PROVE RefreshInv'
  BY <1>1 DEF refreshVars, RefreshInv, RefreshTypes, SetSoFar, InForceOf
<1>2. ASSUME NEW r \in Refresher, Publish(r) PROVE RefreshInv'
  BY <1>2 DEF Publish, RefreshInv, RefreshTypes, SetSoFar, InForceOf
<1>3. ASSUME NEW s \in UsersOwn, UserChanges(s) PROVE RefreshInv'
  BY <1>3, OwnSurfaces DEF UserChanges, RefreshInv, RefreshTypes, SetSoFar, InForceOf
<1>4. CASE CommandRefresh \/ FlowRefresh \/ ConfigRefresh
  BY <1>4, OneRefreshes DEF CommandRefresh, FlowRefresh, ConfigRefresh, Polled
<1>5. CASE BudgetRefresh
  BY <1>5 DEF BudgetRefresh, Polls, LoopEnds, LoopTo, LoopPlaces, Polled, RefreshInv,
              RefreshTypes, SetSoFar, InForceOf
<1>6. CASE SchedulerEnds
  BY <1>6 DEF SchedulerEnds, LoopEnds, LoopTo, LoopPlaces, Polled, RefreshInv, RefreshTypes,
              SetSoFar, InForceOf
<1>7. CASE Interrupt \/ RunNext
  BY <1>1, <1>7 DEF Interrupt, RunNext, First, Second, waitRefresh, Flush, RunStep
<1>8. ASSUME NEW h \in Half, HalfReturns(h) PROVE RefreshInv'
  BY <1>1, <1>8 DEF HalfReturns, RunStep
<1>9. CASE Reboot
  BY <1>9 DEF Reboot, Started, LoopPlaces, Polled, RefreshInv, RefreshTypes, SetSoFar, InForceOf
<1>10. CASE \/ \E p \in Thread : WorksOn(p)
            \/ SweepsIn
            \/ SkillStep /\ (Prune \/ \E p \in Thread \ {Sched} : \E k \in Kind : Fire(p, k))
            \/ HistoryNext /\ UNCHANGED <<vars, rigVars>>
            \/ UNCHANGED runtimeVars
  BY <1>1, <1>10 DEF WorksOn, SweepsIn, SkillStep, runtimeVars, rigVars
<1> QED
  BY <1>2, <1>3, <1>4, <1>5, <1>6, <1>7, <1>8, <1>9, <1>10 DEF RuntimeNext

(* What a refresher leaves alone, because it has applied it before, is in force.
   Only a user has changed any of it since (commandrefresh, flowrefresh,
   configrefresh; wire.go:299-323).                                        *)
THEOREM AppliedIsInForceHolds == RuntimeSpec => []AppliedIsInForce
<1>1. RefreshInv => AppliedIsInForce
  BY DEF RefreshInv, InForceOf, Polled, AppliedIsInForce
<1> QED
  BY <1>1, RefreshStarts, RefreshKeeps, PTL DEF RuntimeSpec

-----------------------------------------------------------------------------
(* The end of Run.  What each place of Run knows of the halves and the loops. *)

StopTypes ==
    /\ rig \in Rigs /\ over \subseteq rig.halves
    /\ loop \in [Background -> LoopPlaces]
    /\ run \in {"race", "second", "drain", "flush", "returned"}

Unwired == \A r \in Background : r \notin rig.loops => loop[r] = "off"
AllOver == run \in {"drain", "flush", "returned"} => over = rig.halves
AllEnded ==
    run \in {"flush", "returned"} => \A r \in rig.loops : loop[r] = "ended"

StopInv ==
    /\ StopTypes /\ Unwired /\ AllOver /\ AllEnded
    /\ run # "race" => interrupted
    /\ PushedIsLast

LEMMA StopStarts == RuntimeInit => StopInv
  BY RigsAssumption
  DEF RuntimeInit, Build, Started, StopInv, StopTypes, Unwired, AllOver, AllEnded,
      PushedIsLast, Background, Refresher, LoopPlaces

(* From when the loops are waited for, every loop is off or has ended.     *)
LEMMA LoopsAreOver ==
  ASSUME StopInv, run \in {"flush", "returned"}, NEW r \in Background
  PROVE  loop[r] \in {"off", "ended"}
  BY DEF StopInv, Unwired, AllEnded

(* A step of a refresher, or of the scheduler's loop: of a loop that is neither off
   nor ended; what Run has is left alone.                                  *)
LoopStep(r) ==
    /\ loop[r] \notin {"off", "ended"}
    /\ UNCHANGED loop \/ \E there \in LoopPlaces \ {"off"} : LoopTo(r, there)
    /\ UNCHANGED <<rig, stopVars>>

(* What is pushed is not yet, when a loop is still at work.                *)
LEMMA LoopStepKeeps ==
  ASSUME StopInv, NEW r \in Background, LoopStep(r)
  PROVE  StopInv' /\ run # "returned"
<1>1. run \notin {"flush", "returned"}
  BY LoopsAreOver DEF LoopStep
<1>2. StopTypes' /\ Unwired'
  <2>1. CASE UNCHANGED loop
    BY <2>1 DEF LoopStep, stopVars, StopInv, StopTypes, Unwired
  <2>2. ASSUME NEW there \in LoopPlaces, LoopTo(r, there) PROVE StopTypes' /\ Unwired'
    BY <2>2 DEF LoopTo, LoopStep, stopVars, StopInv, StopTypes, Unwired
  <2> QED BY <2>1, <2>2 DEF LoopStep
<1> QED
  BY <1>1, <1>2 DEF LoopStep, stopVars, StopInv, AllOver, AllEnded, PushedIsLast

LEMMA RefreshesIsLoopStep ==
  ASSUME NEW r \in {"commands", "flows", "config"}, Refreshes(r)
  PROVE  LoopStep(r)
<1> USE DEF LoopPlaces
<1>1. UNCHANGED <<rig, stopVars>>
  BY DEF Refreshes
<1>2. CASE Polls(r) \/ LoopEnds(r)
  BY <1>1, <1>2 DEF Polls, LoopEnds, LoopStep
<1>3. CASE FetchFails(r)
  BY <1>1, <1>3 DEF FetchFails, LoopStep
<1>4. CASE Answered(r)
  BY <1>1, <1>4 DEF Answered, LoopStep
<1>5. CASE refreshOnce(r)
  BY <1>1, <1>5 DEF refreshOnce, LoopStep
<1>6. CASE Sets(r)
  BY <1>1, <1>6 DEF Sets, LoopStep
<1> QED
  BY <1>2, <1>3, <1>4, <1>5, <1>6 DEF Refreshes

(* What the halves and the loops do as long as there is something for them to do. *)
LEMMA HalfKeepsStop ==
  ASSUME StopInv, NEW h \in Half, HalfReturns(h)
  PROVE  StopInv' /\ run # "returned"
  BY DEF HalfReturns, RunStep, refreshVars, StopInv, StopTypes, Unwired, AllOver, AllEnded,
         PushedIsLast

LEMMA UserKeepsStop ==
  ASSUME StopInv, NEW s \in UsersOwn, UserChanges(s)
  PROVE  StopInv' /\ run # "returned"
<1>1. "agent" \in rig.halves
  BY RigsAssumption DEF StopInv, StopTypes
<1>2. run # "returned"
  BY <1>1 DEF UserChanges, StopInv, AllOver
<1> QED
  BY <1>2 DEF UserChanges, stopVars, StopInv, StopTypes, Unwired, AllOver, AllEnded, PushedIsLast

LEMMA RebootKeepsStop ==
  ASSUME StopInv, Reboot
  PROVE  StopInv' /\ run # "returned"
<1>1. run = "race"
  BY DEF Reboot, StopInv
<1>2. loop' \in [Background -> LoopPlaces] /\ Unwired'
  BY DEF Reboot, Started, Unwired, LoopPlaces
<1> QED
  BY <1>1, <1>2 DEF Reboot, stopVars, StopInv, StopTypes, AllOver, AllEnded, PushedIsLast

(* The steps of Run itself: only a Run that is not over takes one.         *)
LEMMA RunKeepsStop ==
  ASSUME StopInv, RunNext \/ Interrupt
  PROVE  StopInv' /\ run # "returned"
<1> USE DEF RunStep, refreshVars, StopInv, StopTypes, Unwired, AllOver, AllEnded, PushedIsLast
<1>1. CASE First
  BY <1>1 DEF First
<1>2. CASE Second
  BY <1>2 DEF Second
<1>3. CASE waitRefresh
  BY <1>3 DEF waitRefresh
<1>4. CASE Flush
  BY <1>4 DEF Flush, buildIRCSnapshot
<1>5. CASE Interrupt
  BY <1>5 DEF Interrupt
<1> QED
  BY <1>1, <1>2, <1>3, <1>4, <1>5 DEF RunNext

(* Every step keeps what is known, and after the end none touches what was pushed,
   nor what the connector has.                                             *)
AfterRun == run = "returned" => UNCHANGED <<run, pushed, link, inForce>>

LEMMA StopKeeps == StopInv /\ [RuntimeNext]_runtimeVars => StopInv' /\ AfterRun
<1> SUFFICES ASSUME StopInv, [RuntimeNext]_runtimeVars PROVE StopInv' /\ AfterRun
  OBVIOUS
<1>1. ASSUME UNCHANGED <<rig, loop, inForce, stopVars>> PROVE StopInv' /\ AfterRun
  BY <1>1 DEF stopVars, AfterRun, StopInv, StopTypes, Unwired, AllOver, AllEnded, PushedIsLast,
              buildIRCSnapshot
<1>2. ASSUME NEW r \in Refresher, Publish(r) PROVE StopInv' /\ AfterRun
  BY <1>1, <1>2 DEF Publish
<1>3. ASSUME NEW s \in UsersOwn, UserChanges(s) PROVE StopInv' /\ AfterRun
  BY <1>3, UserKeepsStop DEF AfterRun
<1>4. CASE CommandRefresh \/ FlowRefresh \/ ConfigRefresh
  BY <1>4, RefreshesIsLoopStep, LoopStepKeeps
  DEF CommandRefresh, FlowRefresh, ConfigRefresh, AfterRun, Background, Refresher
<1>5. CASE BudgetRefresh
  <2>1. LoopStep("budget")
    BY <1>5 DEF BudgetRefresh, LoopStep, Polls, LoopEnds, LoopPlaces
  <2> QED BY <2>1, LoopStepKeeps DEF AfterRun, Background, Refresher
<1>6. CASE SchedulerEnds
  <2>1. LoopStep("scheduler")
    BY <1>6 DEF SchedulerEnds, LoopStep, LoopEnds, LoopPlaces
  <2> QED BY <2>1, LoopStepKeeps DEF AfterRun, Background
<1>7. CASE Interrupt \/ RunNext
  BY <1>7, RunKeepsStop DEF AfterRun
<1>8. ASSUME NEW h \in Half, HalfReturns(h) PROVE StopInv' /\ AfterRun
  BY <1>8, HalfKeepsStop DEF AfterRun
<1>9. CASE Reboot
  BY <1>9, RebootKeepsStop DEF AfterRun
<1>10. CASE UNCHANGED rigVars
  BY <1>1, <1>10 DEF rigVars, refreshVars
<1>11. CASE \/ \E p \in Thread : WorksOn(p)
            \/ SweepsIn
            \/ SkillStep /\ (Prune \/ \E p \in Thread \ {Sched} : \E k \in Kind : Fire(p, k))
            \/ HistoryNext /\ UNCHANGED <<vars, rigVars>>
            \/ UNCHANGED runtimeVars
  BY <1>10, <1>11 DEF WorksOn, SweepsIn, SkillStep, runtimeVars
<1> QED
  BY <1>2, <1>3, <1>4, <1>5, <1>6, <1>7, <1>8, <1>9, <1>11 DEF RuntimeNext

(* What is pushed at the end of Run is the last state of the connector, ... *)
THEOREM PushedIsLastHolds == RuntimeSpec => []PushedIsLast
<1>1. StopInv => PushedIsLast
  BY DEF StopInv
<1> QED
  BY <1>1, StopStarts, StopKeeps, PTL DEF RuntimeSpec

(* ... which nothing changes any more.                                     *)
THEOREM NothingAfterRunHolds == RuntimeSpec => NothingAfterRun
<1>1. StopInv /\ [RuntimeNext]_runtimeVars => [AfterRun]_runtimeVars
  BY StopKeeps
<1> QED
  BY <1>1, StopStarts, StopKeeps, PTL DEF RuntimeSpec, NothingAfterRun, AfterRun

=============================================================================
