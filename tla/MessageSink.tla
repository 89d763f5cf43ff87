----------------------------- MODULE MessageSink -----------------------------
(***************************************************************************)
(* The durable-message sink (src/internal/messagesink/sink.go): messages   *)
(* submitted by the gateway and the bouncer are batched in a bounded       *)
(* buffer and posted to the history service by one goroutine; the owner    *)
(* closes the sink when its agent has ended.                               *)
(*                                                                         *)
(* Threads: the submitters, the flush goroutine "run", and "close", the    *)
(* owner inside Close.  The last two run the same flushOnce.  A message is *)
(* its number in the order in which Submit's critical sections ran.        *)
(*                                                                         *)
(* The service may answer a post, refuse it, or let it time out and store  *)
(* it nonetheless, at once, later or never.                                *)
(***************************************************************************)
EXTENDS Integers, Sequences

CONSTANTS
    Submitters,      \* goroutines that call Submit
    MaxEntries,      \* bound: messages ever submitted
    BufferCap,       \* bufferCap
    FlushBatchSize,  \* flushBatchSize
    Owners           \* who may have made the sink: a pooled "tenant", or the
                     \* "runtime" of a single instance

ASSUME MaxEntriesAssumption == MaxEntries \in Nat
ASSUME BufferCapAssumption == BufferCap \in Nat \ {0}
ASSUME FlushBatchSizeAssumption == FlushBatchSize \in Nat \ {0}
ASSUME OwnersAssumption == Owners \subseteq {"tenant", "runtime"}

Flushers == {"run", "close"}

VARIABLES
    submitted,   \* messages submitted so far
    buffer, bufferSize,
    signalling,  \* submitters past the critical section, about to signal
    flushCh,     \* flushCh holds a signal
    doneCh,      \* doneCh is closed
    pc,          \* where each flusher is
    pending,     \* the batch each flusher has taken from the buffer
    posts,       \* bodies of posts that timed out and may still be stored
    stored,      \* what the service has stored, in its order
    late,        \* messages whose post timed out
    refused,     \* messages whose post was refused or never arrived
    dropped,     \* messages the full buffer dropped
    closedAt     \* messages submitted when Close was called

bufferVars == <<submitted, buffer, bufferSize, dropped>>
serviceVars == <<posts, stored, late, refused>>
vars == <<submitted, buffer, bufferSize, signalling, flushCh, doneCh, pc,
          pending, posts, stored, late, refused, dropped, closedAt>>

Entries(s) == {s[i] : i \in DOMAIN s}

Init ==
    /\ submitted = 0
    /\ buffer = <<>> /\ bufferSize = 0
    /\ signalling = {} /\ flushCh = FALSE /\ doneCh = FALSE
    /\ pc = [f \in Flushers |-> IF f = "run" THEN "select" ELSE "idle"]
    /\ pending = [f \in Flushers |-> <<>>]
    /\ posts = {} /\ stored = <<>> /\ late = {} /\ refused = {} /\ dropped = {}
    /\ closedAt = 0

(* The process has not ended.                                              *)
Up == pc["close"] # "gone"

GoTo(f, place) == pc' = [pc EXCEPT ![f] = place]

-----------------------------------------------------------------------------
(* Submit.                                                                 *)

(* A mutant: the batch that reaches the threshold does not trigger.        *)
TriggersAbove(size) == size > FlushBatchSize

(* Submit: whether the buffer is long enough for a flush before the tick.  *)
Triggers(size) == size >= FlushBatchSize

(* A mutant: the buffer may exceed its cap by one.                         *)
OverflowAbove(size) == IF size > BufferCap + 1 THEN size - BufferCap ELSE 0

(* Submit: how many of the oldest entries a full buffer drops.             *)
Overflow(size) == IF size > BufferCap THEN size - BufferCap ELSE 0

(* Submit's critical section.                                              *)
Submit(s) ==
    LET grown == Append(buffer, submitted + 1)
        size == bufferSize + 1
        drop == Overflow(size)
    IN  /\ Up /\ s \notin signalling
        /\ submitted < MaxEntries
        /\ submitted' = submitted + 1
        /\ buffer' = SubSeq(grown, drop + 1, Len(grown))
        /\ bufferSize' = size - drop
        /\ dropped' = dropped \cup {grown[i] : i \in 1..drop}
        /\ signalling' = IF Triggers(size - drop) THEN signalling \cup {s}
                                                   ELSE signalling
        /\ UNCHANGED <<flushCh, doneCh, pc, pending, serviceVars, closedAt>>

(* The non-blocking send on flushCh.                                       *)
Signal(s) ==
    /\ Up /\ s \in signalling
    /\ signalling' = signalling \ {s}
    /\ flushCh' = TRUE
    /\ UNCHANGED <<bufferVars, doneCh, pc, pending, serviceVars, closedAt>>

-----------------------------------------------------------------------------
(* run and flushOnce.                                                      *)

(* The three branches of run's select.                                     *)
Tick ==
    /\ Up /\ pc["run"] = "select"
    /\ GoTo("run", "flush")
    /\ UNCHANGED <<bufferVars, signalling, flushCh, doneCh, pending,
                   serviceVars, closedAt>>

TakeSignal ==
    /\ Up /\ pc["run"] = "select" /\ flushCh
    /\ flushCh' = FALSE
    /\ GoTo("run", "flush")
    /\ UNCHANGED <<bufferVars, signalling, doneCh, pending, serviceVars,
                   closedAt>>

RunReturns ==
    /\ Up /\ pc["run"] = "select" /\ doneCh
    /\ GoTo("run", "exited")
    /\ UNCHANGED <<bufferVars, signalling, flushCh, doneCh, pending,
                   serviceVars, closedAt>>

(* A mutant: run ends with its first batch.                                *)
AfterOne(f) == IF f = "run" THEN "exited" ELSE "closed"

(* Where flushOnce returns to.                                             *)
After(f) == IF f = "run" THEN "select" ELSE "closed"

(* A mutant: the batch is posted before it is taken off the buffer, and what
   arrived meanwhile goes with it.                                         *)
TakeAndKeep(f) ==
    /\ Up /\ pc[f] = "flush"
    /\ pending' = [pending EXCEPT ![f] = buffer]
    /\ GoTo(f, IF buffer = <<>> THEN After(f) ELSE "post")
    /\ UNCHANGED <<submitted, dropped, signalling, flushCh, doneCh,
                   serviceVars, closedAt, buffer, bufferSize>>

(* A mutant: the counter is lowered by a batch, not reset.                 *)
TakeCountsDown(f) ==
    /\ Up /\ pc[f] = "flush"
    /\ pending' = [pending EXCEPT ![f] = buffer]
    /\ buffer' = <<>> /\ bufferSize' = bufferSize - FlushBatchSize
    /\ GoTo(f, IF buffer = <<>> THEN After(f) ELSE "post")
    /\ UNCHANGED <<submitted, dropped, signalling, flushCh, doneCh,
                   serviceVars, closedAt>>

(* flushOnce's critical section: an empty buffer is not posted.            *)
Take(f) ==
    /\ Up /\ pc[f] = "flush"
    /\ pending' = [pending EXCEPT ![f] = buffer]
    /\ buffer' = <<>> /\ bufferSize' = 0
    /\ GoTo(f, IF buffer = <<>> THEN After(f) ELSE "post")
    /\ UNCHANGED <<submitted, dropped, signalling, flushCh, doneCh,
                   serviceVars, closedAt>>

Posted(f) ==
    /\ Up /\ pc[f] = "post"
    /\ pending' = [pending EXCEPT ![f] = <<>>]
    /\ GoTo(f, After(f))
    /\ UNCHANGED <<bufferVars, signalling, flushCh, doneCh, closedAt>>

(* post: the service answers 2xx.                                          *)
PostStored(f) ==
    /\ Posted(f)
    /\ stored' = stored \o pending[f]
    /\ UNCHANGED <<posts, late, refused>>

(* post: an answer of 400 and above, or a request that never arrived.      *)
PostRefused(f) ==
    /\ Posted(f)
    /\ refused' = refused \cup Entries(pending[f])
    /\ UNCHANGED <<posts, stored, late>>

(* post: no answer within postTimeout or the owner's deadline.             *)
PostTimesOut(f) ==
    /\ Posted(f)
    /\ posts' = posts \cup {pending[f]}
    /\ late' = late \cup Entries(pending[f])
    /\ UNCHANGED <<stored, refused>>

(* The service stores a post whose sender has given up on it.              *)
StoredLate(p) ==
    /\ p \in posts
    /\ posts' = posts \ {p}
    /\ stored' = stored \o p
    /\ UNCHANGED <<bufferVars, signalling, flushCh, doneCh, pc, pending, late,
                   refused, closedAt>>

-----------------------------------------------------------------------------
(* The owner's teardown.                                                   *)

(* A mutant: Close does not wait for run.                                  *)
CloseAtOnce ==
    /\ "tenant" \in Owners /\ pc["close"] = "idle"
    /\ doneCh' = TRUE /\ closedAt' = submitted
    /\ GoTo("close", "flush")
    /\ UNCHANGED <<bufferVars, signalling, flushCh, pending, serviceVars>>

(* A tenant's run has ended: Close closes doneCh.                          *)
Close ==
    /\ "tenant" \in Owners /\ pc["close"] = "idle"
    /\ doneCh' = TRUE /\ closedAt' = submitted
    /\ GoTo("close", "wait")
    /\ UNCHANGED <<bufferVars, signalling, flushCh, pending, serviceVars>>

(* A mutant: nothing is flushed once the goroutine is gone.                *)
CloseWithoutFlush ==
    /\ pc["close"] = "wait" /\ pc["run"] = "exited"
    /\ GoTo("close", "closed")
    /\ UNCHANGED <<bufferVars, signalling, flushCh, doneCh, pending,
                   serviceVars, closedAt>>

(* Close: run has returned.                                                *)
CloseFlushes ==
    /\ pc["close"] = "wait" /\ pc["run"] = "exited"
    /\ GoTo("close", "flush")
    /\ UNCHANGED <<bufferVars, signalling, flushCh, doneCh, pending,
                   serviceVars, closedAt>>

(* The agent of a single instance has ended, and the process with it: its
   runtime closes no sink.                                                 *)
ProcessEnds ==
    /\ "runtime" \in Owners /\ pc["close"] = "idle"
    /\ GoTo("close", "gone")
    /\ UNCHANGED <<bufferVars, signalling, flushCh, doneCh, pending,
                   serviceVars, closedAt>>

-----------------------------------------------------------------------------
Flush(f) ==
    Take(f) \/ PostStored(f) \/ PostRefused(f) \/ PostTimesOut(f)

Next ==
    \/ \E s \in Submitters : Submit(s) \/ Signal(s)
    \/ Tick \/ TakeSignal \/ RunReturns
    \/ \E f \in Flushers : Flush(f)
    \/ \E p \in posts : StoredLate(p)
    \/ Close \/ CloseFlushes \/ ProcessEnds

Spec == Init /\ [][Next]_vars

(* The ticker ticks, a select takes each of its branches when it is ready
   again and again, and a post ends by its timeout; the service, the
   submitters and the owner owe nothing before Close is called.            *)
Fairness ==
    /\ WF_vars(Tick) /\ SF_vars(RunReturns)
    /\ \A f \in Flushers : WF_vars(Flush(f))
    /\ WF_vars(CloseFlushes)

FairSpec == Spec /\ Fairness

-----------------------------------------------------------------------------
(* Every variable has its type.                                            *)
TypeOK ==
    /\ submitted \in 0..MaxEntries /\ closedAt \in 0..MaxEntries
    /\ buffer \in Seq(1..MaxEntries) /\ bufferSize \in Nat
    /\ signalling \subseteq Submitters
    /\ flushCh \in BOOLEAN /\ doneCh \in BOOLEAN
    /\ pc \in [Flushers -> {"select", "idle", "wait", "flush", "post",
                            "exited", "closed", "gone"}]
    /\ pending \in [Flushers -> Seq(1..MaxEntries)]
    /\ posts \subseteq Seq(1..MaxEntries) /\ stored \in Seq(1..MaxEntries)
    /\ late \subseteq 1..MaxEntries /\ refused \subseteq 1..MaxEntries
    /\ dropped \subseteq 1..MaxEntries

Taken == {f \in Flushers : pending[f] # <<>>}
Held == Entries(buffer) \cup UNION {Entries(pending[f]) : f \in Flushers}
Gone == refused \cup dropped \cup late \cup Entries(stored)

(* No message vanishes and none is handed on twice: each one submitted is in
   the buffer, in the batch of a flush under way, or gone, and never two of
   these at once.  Submit and flushOnce pass it on under the mutex, while the
   flush goroutine and Close run the same flushOnce.                       *)
Conserved ==
    /\ Held \cup Gone = 1..submitted
    /\ Held \cap Gone = {}
    /\ \A f \in Flushers : Entries(buffer) \cap Entries(pending[f]) = {}
    /\ Entries(pending["run"]) \cap Entries(pending["close"]) = {}
    /\ dropped \cap (refused \cup late \cup Entries(stored)) = {}
    /\ refused \cap (late \cup Entries(stored)) = {}

(* The service is given a message at most once, and, as long as it answers
   in time, in the order of submission, Close's last batch included.       *)
StoredInOrder ==
    \A i, j \in DOMAIN stored : i < j =>
        /\ stored[i] # stored[j]
        /\ {stored[i], stored[j]} \cap late = {} => stored[i] < stored[j]

(* The counter is the length of the buffer, and backpressure keeps it
   within bufferCap.                                                       *)
BufferBounded == bufferSize = Len(buffer) /\ Len(buffer) <= BufferCap

(* A buffer of a full batch is not left to the ticker: the signal is there,
   or on its way, or the goroutine is about to look (sink.go, Submit: "the
   goroutine will see the fresh entries when it next reads the buffer").   *)
TriggerPending ==
    /\ Up /\ pc["run"] = "select" /\ bufferSize >= FlushBatchSize
    => flushCh \/ signalling # {}

(* Once Close returns, what was submitted before it was called has left the
   buffer, whatever the flush goroutine was doing at the time.             *)
CloseDrains == pc["close"] = "closed" => \A e \in Entries(buffer) : e > closedAt

(* Seen from outside, the sink is an outbox: the mutex, the two flushers, the
   batches and the posts with unknown outcome forward each message at most
   once and in order, and Close leaves nothing behind.                     *)
Out == INSTANCE Outbox WITH
    accepted <- submitted, waiting <- Held, unsure <- posts, log <- stored,
    closing <- IF doneCh THEN closedAt ELSE -1,
    closed <- pc["close"] = "closed"

(* Every step of the sink is one of the outbox, or none.                   *)
IsOutbox == Out!Spec

(* A message does not stay in the buffer: unless it was submitted after Close
   was called or the process ended, a flush takes it or the buffer drops it. *)
EveryEntryLeaves ==
    \A e \in 1..MaxEntries :
        e \in Entries(buffer) ~>
            e \notin Entries(buffer) \/ pc["close"] \in {"closed", "gone"}

=============================================================================
