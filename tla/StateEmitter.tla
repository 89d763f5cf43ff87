----------------------------- MODULE StateEmitter -----------------------------
(***************************************************************************)
(* The state emitter and its HTTP client (src/internal/statepush): changes *)
(* of a connector's state are coalesced into snapshots that are put to the *)
(* control plane, which keeps the last snapshot it stored.  On teardown    *)
(* the owner flushes one more snapshot and stops the emitter.              *)
(*                                                                         *)
(* Threads: whoever changes the state and calls NotifyChange, the          *)
(* emitter's goroutine "run", and "owner", the teardown.  The last two     *)
(* build snapshots and put them with the same client.  The state is the    *)
(* number of its changes; a snapshot is the state at the time it was read. *)
(***************************************************************************)
EXTENDS Integers

CONSTANTS
    MaxChanges,   \* bound: changes of the state
    MaxAttempts,  \* attempts of one Put, len(retryBackoffs) + 1
    Debounced     \* a debounce window is configured

ASSUME MaxChangesAssumption == MaxChanges \in Nat
ASSUME MaxAttemptsAssumption == MaxAttempts \in Nat \ {0}
ASSUME DebouncedAssumption == Debounced \in BOOLEAN

Senders == {"run", "owner"}
States == 0..MaxChanges

VARIABLES
    reliable,   \* the control plane answers every request 2xx, in time; lasts
    state,      \* the state of the connector
    notifying,  \* changes whose NotifyChange is still to come
    notify,     \* the channel notify holds a tick
    done,       \* the channel done is closed
    pc,         \* where each sender is
    held,       \* the last snapshot each sender has built
    attempt,    \* the attempt each sender's Put is at
    dropped,    \* run's last Put gave its snapshot up
    late,       \* requests that timed out and may still be stored
    received    \* what the control plane has stored last

connectorVars == <<reliable, state, notifying>>
sendVars == <<reliable, held, attempt, dropped, late, received>>
vars == <<reliable, state, notifying, notify, done, pc, held, attempt, dropped, late,
          received>>

Init ==
    /\ reliable \in BOOLEAN
    /\ state = 0 /\ notifying = 0 /\ notify = FALSE /\ done = FALSE
    /\ pc = [f \in Senders |-> IF f = "run" THEN "select" ELSE "idle"]
    /\ held = [f \in Senders |-> 0] /\ attempt = [f \in Senders |-> 1]
    /\ dropped = FALSE /\ late = {} /\ received = 0

GoTo(f, place) == pc' = [pc EXCEPT ![f] = place]

-----------------------------------------------------------------------------
(* The connector.                                                          *)

(* The state changes; its subscribers are called after the unlock.         *)
Change ==
    /\ pc["owner"] = "idle" /\ state < MaxChanges
    /\ state' = state + 1 /\ notifying' = notifying + 1
    /\ UNCHANGED <<notify, done, pc, sendVars>>

(* A mutant: a tick is thought needless while a snapshot is on its way.    *)
NotifyUnlessBusy ==
    /\ notifying > 0
    /\ notifying' = notifying - 1
    /\ notify' = (notify \/ pc["run"] = "select")
    /\ UNCHANGED <<state, done, pc, sendVars>>

(* NotifyChange: the non-blocking send.                                    *)
NotifyChange ==
    /\ notifying > 0
    /\ notifying' = notifying - 1 /\ notify' = TRUE
    /\ UNCHANGED <<state, done, pc, sendVars>>

-----------------------------------------------------------------------------
(* run and collect.                                                        *)

RunReturns ==
    /\ pc["run"] \in {"select", "collect"} /\ done
    /\ GoTo("run", "exited")
    /\ UNCHANGED <<connectorVars, notify, done, sendVars>>

TakeNotify ==
    /\ pc["run"] = "select" /\ notify
    /\ notify' = FALSE
    /\ GoTo("run", IF Debounced THEN "collect" ELSE "build")
    /\ UNCHANGED <<connectorVars, done, sendVars>>

(* A further change re-arms the debounce timer.                            *)
CollectMore ==
    /\ pc["run"] = "collect" /\ notify
    /\ notify' = FALSE
    /\ UNCHANGED <<connectorVars, done, pc, sendVars>>

CollectTimer ==
    /\ pc["run"] = "collect"
    /\ GoTo("run", "build")
    /\ UNCHANGED <<connectorVars, notify, done, sendVars>>

-----------------------------------------------------------------------------
(* send, Flush and Put, by either sender.                                  *)

(* Where the sender goes on after Put.                                     *)
After(f) == IF f = "run" THEN "select" ELSE "stop"

(* A mutant: the goroutine posts the state it saw with the first tick after the
   last snapshot, not the present one.                                     *)
BuildEarly(f) ==
    /\ pc[f] = "build"
    /\ held' = [held EXCEPT ![f] = IF f = "run" /\ @ < state THEN @ + 1 ELSE state]
    /\ attempt' = [attempt EXCEPT ![f] = 1]
    /\ GoTo(f, "put")
    /\ UNCHANGED <<connectorVars, notify, done, dropped, late, received>>

(* The snapshot is built when it is sent, not when it was asked for.       *)
Build(f) ==
    /\ pc[f] = "build"
    /\ held' = [held EXCEPT ![f] = state]
    /\ attempt' = [attempt EXCEPT ![f] = 1]
    /\ GoTo(f, "put")
    /\ UNCHANGED <<connectorVars, notify, done, dropped, late, received>>

(* The request is stored and answered 2xx.                                 *)
PutStored(f) ==
    /\ pc[f] = "put"
    /\ received' = held[f]
    /\ dropped' = IF f = "run" THEN FALSE ELSE dropped
    /\ GoTo(f, After(f))
    /\ UNCHANGED <<connectorVars, notify, done, held, attempt, late>>

(* A mutant: one attempt more than the client's schedule has.              *)
RetryOnceMore(f) ==
    /\ pc[f] = "put" /\ ~reliable
    /\ IF attempt[f] <= MaxAttempts
       THEN /\ attempt' = [attempt EXCEPT ![f] = @ + 1]
            /\ UNCHANGED <<pc, dropped>>
       ELSE /\ GoTo(f, After(f))
            /\ dropped' = IF f = "run" THEN TRUE ELSE dropped
            /\ UNCHANGED attempt
    /\ UNCHANGED <<connectorVars, notify, done, held, received>>

(* Another attempt, unless this was the last.                              *)
Retry(f) ==
    /\ pc[f] = "put" /\ ~reliable
    /\ IF attempt[f] < MaxAttempts
       THEN /\ attempt' = [attempt EXCEPT ![f] = @ + 1]
            /\ UNCHANGED <<pc, dropped>>
       ELSE /\ GoTo(f, After(f))
            /\ dropped' = IF f = "run" THEN TRUE ELSE dropped
            /\ UNCHANGED attempt
    /\ UNCHANGED <<connectorVars, notify, done, held, received>>

(* 5xx, or the request did not arrive.                                     *)
PutFails(f) == Retry(f) /\ UNCHANGED late

(* No answer in time: the control plane may store the request later.       *)
PutTimesOut(f) == Retry(f) /\ late' = late \cup {<<f, attempt[f], held[f]>>}

(* 4xx, or the deadline of the whole Put ends it between two attempts.     *)
PutGivenUp(f) ==
    /\ pc[f] = "put" /\ ~reliable
    /\ dropped' = IF f = "run" THEN TRUE ELSE dropped
    /\ GoTo(f, After(f))
    /\ UNCHANGED <<connectorVars, notify, done, held, attempt, late, received>>

(* The control plane stores a request whose sender has given up on it.     *)
StoredLate(r) ==
    /\ r \in late
    /\ late' = late \ {r}
    /\ received' = r[3]
    /\ UNCHANGED <<connectorVars, notify, done, pc, held, attempt, dropped>>

-----------------------------------------------------------------------------
(* The owner's teardown, once the agent has ended.                         *)

Teardown ==
    /\ pc["owner"] = "idle"
    /\ GoTo("owner", "build")
    /\ UNCHANGED <<connectorVars, notify, done, sendVars>>

(* Stop closes done.                                                       *)
Stop ==
    /\ pc["owner"] = "stop"
    /\ done' = TRUE
    /\ GoTo("owner", "wait")
    /\ UNCHANGED <<connectorVars, notify, sendVars>>

StopReturns ==
    /\ pc["owner"] = "wait" /\ pc["run"] = "exited"
    /\ GoTo("owner", "stopped")
    /\ UNCHANGED <<connectorVars, notify, done, sendVars>>

-----------------------------------------------------------------------------
Send(f) ==
    Build(f) \/ PutStored(f) \/ PutFails(f) \/ PutTimesOut(f) \/ PutGivenUp(f)

Next ==
    \/ Change \/ NotifyChange
    \/ RunReturns \/ TakeNotify \/ CollectMore \/ CollectTimer
    \/ \E f \in Senders : Send(f)
    \/ \E r \in late : StoredLate(r)
    \/ Teardown \/ Stop \/ StopReturns

Spec == Init /\ [][Next]_vars

(* A subscriber that is being called calls; the goroutine and the owner go on,
   every attempt ends by its timeout, a select takes each of its branches when
   it is ready again and again.  The state owes no change and the owner no
   teardown.                                                               *)
Fairness ==
    /\ WF_vars(NotifyChange)
    /\ SF_vars(RunReturns) /\ WF_vars(TakeNotify) /\ WF_vars(CollectTimer)
    /\ \A f \in Senders : WF_vars(Send(f))
    /\ WF_vars(Stop) /\ WF_vars(StopReturns)

FairSpec == Spec /\ Fairness

-----------------------------------------------------------------------------
(* Every variable has its type.                                            *)
TypeOK ==
    /\ reliable \in BOOLEAN
    /\ state \in States /\ notifying \in Nat
    /\ notify \in BOOLEAN /\ done \in BOOLEAN /\ dropped \in BOOLEAN
    /\ pc \in [Senders -> {"select", "collect", "build", "put", "exited",
                           "idle", "stop", "wait", "stopped"}]
    /\ held \in [Senders -> States]
    /\ attempt \in [Senders -> 1..MaxAttempts]
    /\ late \subseteq Senders \X (1..MaxAttempts) \X States
    /\ received \in States

(* A tick is still to be seen, or a snapshot still to be built.            *)
ChangePending ==
    notifying > 0 \/ notify \/ pc["run"] \in {"collect", "build"}

(* No change is missed: as long as the emitter is not stopped, a state that
   the goroutine's last snapshot does not show has a snapshot coming, though
   ticks coalesce and arrive while it debounces, builds or puts.           *)
NoChangeMissed == ~done /\ held["run"] # state => ChangePending

(* With a control plane that answers, an emitter at rest means that the
   control plane shows the state, until the teardown begins.               *)
AtRestIsCurrent ==
    reliable /\ pc["owner"] = "idle" /\ pc["run"] = "select" /\ ~ChangePending
    => received = state

(* With a control plane that answers, it shows the state again after every
   change, until the teardown begins.                                      *)
BecomesCurrent ==
    reliable => []<>(received = state \/ pc["owner"] # "idle")

=============================================================================
