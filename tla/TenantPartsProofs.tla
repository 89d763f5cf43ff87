-------------------------- MODULE TenantPartsProofs --------------------------
(***************************************************************************)
(* What is proved of the parts of a tenant's run: of the message sink, for *)
(* every set of submitters, every number of messages, every buffer cap and *)
(* batch size; of the state emitter, as an instance of its module; and of  *)
(* an agent with its chat connector, for every set of browsers.            *)
(***************************************************************************)
EXTENDS MessageSink, ChatAgent, SequenceTheorems, TLAPS

USE MaxEntriesAssumption, BufferCapAssumption, FlushBatchSizeAssumption

Messages == 1..MaxEntries

-----------------------------------------------------------------------------
(* The inductive invariant.                                                *)

(* A strictly increasing sequence of messages.                             *)
Rising(s) == \A i, j \in DOMAIN s : i < j => s[i] < s[j]

(* Every message of A was submitted before every message of B.             *)
Below(A, B) == \A a \in A, b \in B : a < b

(* Only a flusher that posts holds a batch, and Close takes one only when the
   flush goroutine is gone.                                                *)
PlaceInv ==
    /\ pc["run"] \in {"select", "flush", "post", "exited"}
    /\ pc["close"] \in {"idle", "wait", "flush", "post", "closed", "gone"}
    /\ \A f \in Flushers : pending[f] # <<>> => pc[f] = "post"
    /\ pc["close"] \in {"flush", "post", "closed"} => pc["run"] = "exited"
    /\ closedAt <= submitted

(* What the service has stored in time is older than any batch under way, and
   that is older than the buffer.                                          *)
OrderInv ==
    /\ Rising(buffer)
    /\ \A f \in Flushers :
        /\ Rising(pending[f])
        /\ Below(Entries(pending[f]), Entries(buffer))
        /\ Below(Entries(stored) \ late, Entries(pending[f]))
    /\ Below(Entries(stored) \ late, Entries(buffer))

(* The posts given up on are disjoint, and not stored yet.                 *)
LateInv ==
    /\ \A p \in posts :
        /\ Rising(p)
        /\ Entries(p) \subseteq late
        /\ Entries(p) \cap Entries(stored) = {}
    /\ \A p, q \in posts : p # q => Entries(p) \cap Entries(q) = {}

(* What is in the buffer once Close has taken its batch came after Close.  *)
DrainInv ==
    pc["close"] \in {"post", "closed"} => \A e \in Entries(buffer) : e > closedAt

(* A full batch in the buffer has a signal on its way, until it is taken.  *)
SignalInv ==
    /\ Up /\ pc["run"] \in {"select", "post"} /\ bufferSize >= FlushBatchSize
    => flushCh \/ signalling # {}

SinkInv ==
    /\ TypeOK /\ PlaceInv /\ BufferBounded /\ Conserved
    /\ OrderInv /\ StoredInOrder /\ LateInv /\ DrainInv /\ SignalInv

-----------------------------------------------------------------------------
(* Sequences of messages.                                                  *)

(* Dropping the oldest entries of a rising sequence splits its entries.    *)
LEMMA DropOldest ==
    ASSUME NEW s \in Seq(Messages), Rising(s), NEW d \in 0..Len(s)
    PROVE  LET t == SubSeq(s, d + 1, Len(s)) IN
           /\ t \in Seq(Messages) /\ Len(t) = Len(s) - d
           /\ Rising(t)
           /\ Entries(t) \cup {s[i] : i \in 1..d} = Entries(s)
           /\ Entries(t) \cap {s[i] : i \in 1..d} = {}
<1> DEFINE t == SubSeq(s, d + 1, Len(s))
<1>1. Len(s) \in Nat /\ DOMAIN s = 1..Len(s) /\ \A i \in 1..Len(s) : s[i] \in Messages
  BY LenProperties
<1>2. t = [i \in 1..(Len(s) - d) |-> s[i + d]]
  BY <1>1 DEF Messages
<1>3. \A i \in 1..(Len(s) - d) : i + d \in 1..Len(s)
  BY <1>1
<1>4. t \in Seq(Messages) /\ Len(t) = Len(s) - d /\ DOMAIN t = 1..(Len(s) - d)
  <2>1. t \in [1..(Len(s) - d) -> Messages]
    BY <1>1, <1>2, <1>3
  <2>2. Len(s) - d \in Nat
    BY <1>1
  <2> HIDE DEF t
  <2>3. t \in Seq(Messages)
    BY <2>1, <2>2, SeqDef
  <2> QED
    BY <2>1, <2>2, <2>3, LenProperties
<1>5. \A i \in 1..(Len(s) - d) : t[i] = s[i + d]
  BY <1>2
<1> HIDE DEF t
<1>6. Rising(t)
  <2>1. ASSUME NEW i \in 1..(Len(s) - d), NEW j \in 1..(Len(s) - d), i < j
        PROVE  t[i] < t[j]
    <3>1. i + d \in DOMAIN s /\ j + d \in DOMAIN s /\ i + d < j + d
      BY <1>1, <1>3, <2>1
    <3>2. s[i + d] < s[j + d]
      BY <3>1 DEF Rising
    <3> QED
      BY <1>5, <3>2
  <2> QED
    BY <1>4, <2>1 DEF Rising
<1>7. Entries(t) \cup {s[i] : i \in 1..d} = Entries(s)
  <2>1. ASSUME NEW e \in Entries(s) PROVE e \in Entries(t) \cup {s[i] : i \in 1..d}
    <3>1. PICK j \in 1..Len(s) : e = s[j]
      BY <1>1 DEF Entries
    <3>2. CASE j <= d
      BY <1>1, <3>1, <3>2
    <3>3. CASE j > d
      <4>1. j - d \in 1..(Len(s) - d) /\ (j - d) + d = j
        BY <1>1, <3>3
      <4>2. t[j - d] = s[j]
        BY <1>5, <4>1
      <4> QED
        BY <1>4, <3>1, <4>1, <4>2 DEF Entries
    <3> QED
      BY <1>1, <3>2, <3>3
  <2>2. Entries(t) \subseteq Entries(s)
    BY <1>1, <1>3, <1>4, <1>5 DEF Entries
  <2>3. {s[i] : i \in 1..d} \subseteq Entries(s)
    BY <1>1 DEF Entries
  <2> QED
    BY <2>1, <2>2, <2>3
<1>8. Entries(t) \cap {s[i] : i \in 1..d} = {}
  <2>1. ASSUME NEW i \in 1..d, NEW j \in 1..(Len(s) - d) PROVE s[i] # t[j]
    <3>1. i \in DOMAIN s /\ j + d \in DOMAIN s /\ i < j + d
      BY <1>1, <1>3
    <3>2. s[i] < s[j + d] /\ s[i] \in Messages /\ s[j + d] \in Messages
      BY <1>1, <3>1 DEF Rising
    <3> QED
      BY <1>5, <3>2 DEF Messages
  <2> QED
    BY <1>4, <2>1 DEF Entries
<1> QED
  BY <1>4, <1>6, <1>7, <1>8 DEF t

(* Appending a message younger than the rest keeps the order.              *)
LEMMA AppendYoungest ==
    ASSUME NEW s \in Seq(Messages), NEW n \in Messages, Rising(s),
           \A e \in Entries(s) : e < n
    PROVE  /\ Append(s, n) \in Seq(Messages)
           /\ Len(Append(s, n)) = Len(s) + 1
           /\ Rising(Append(s, n))
           /\ Entries(Append(s, n)) = Entries(s) \cup {n}
<1>1. Len(s) \in Nat /\ DOMAIN s = 1..Len(s) /\ \A i \in 1..Len(s) : s[i] \in Messages
  BY LenProperties
<1>2. /\ Append(s, n) \in Seq(Messages)
      /\ Len(Append(s, n)) = Len(s) + 1
      /\ \A i \in 1..Len(s) : Append(s, n)[i] = s[i]
      /\ Append(s, n)[Len(s) + 1] = n
  BY AppendProperties
<1>3. DOMAIN Append(s, n) = 1..(Len(s) + 1)
  BY <1>2, LenProperties
<1>4. Rising(Append(s, n))
  <2>1. ASSUME NEW i \in 1..(Len(s) + 1), NEW j \in 1..(Len(s) + 1), i < j
        PROVE  Append(s, n)[i] < Append(s, n)[j]
    <3>1. i \in 1..Len(s) /\ Append(s, n)[i] = s[i]
      BY <1>1, <1>2, <2>1
    <3>2. CASE j = Len(s) + 1
      BY <1>1, <1>2, <3>1, <3>2 DEF Entries
    <3>3. CASE j # Len(s) + 1
      BY <1>1, <1>2, <2>1, <3>1, <3>3 DEF Rising
    <3> QED
      BY <3>2, <3>3
  <2> QED
    BY <1>3, <2>1 DEF Rising
<1>5. Entries(Append(s, n)) = Entries(s) \cup {n}
  <2>1. \A i \in 1..(Len(s) + 1) : i \in 1..Len(s) \/ i = Len(s) + 1
    BY <1>1
  <2>2. 1..Len(s) \subseteq 1..(Len(s) + 1) /\ Len(s) + 1 \in 1..(Len(s) + 1)
    BY <1>1
  <2> QED
    BY <1>1, <1>2, <1>3, <2>1, <2>2 DEF Entries
<1> QED
  BY <1>2, <1>4, <1>5

(* Storing a batch after what is stored.                                   *)
LEMMA StoreBatch ==
    ASSUME NEW s \in Seq(Messages), NEW t \in Seq(Messages)
    PROVE  /\ s \o t \in Seq(Messages)
           /\ Entries(s \o t) = Entries(s) \cup Entries(t)
           /\ DOMAIN (s \o t) = 1..(Len(s) + Len(t))
           /\ \A i \in DOMAIN (s \o t) :
                \/ i \in DOMAIN s /\ (s \o t)[i] = s[i]
                \/ i - Len(s) \in DOMAIN t /\ (s \o t)[i] = t[i - Len(s)]
<1>1. /\ Len(s) \in Nat /\ DOMAIN s = 1..Len(s)
      /\ Len(t) \in Nat /\ DOMAIN t = 1..Len(t)
  BY LenProperties
<1>2. /\ s \o t \in Seq(Messages)
      /\ Len(s \o t) = Len(s) + Len(t)
      /\ \A i \in 1..(Len(s) + Len(t)) :
            (s \o t)[i] = IF i <= Len(s) THEN s[i] ELSE t[i - Len(s)]
  BY ConcatProperties
<1>3. DOMAIN (s \o t) = 1..(Len(s) + Len(t))
  BY <1>2, LenProperties
<1>4. \A i \in 1..(Len(s) + Len(t)) :
        \/ i \in 1..Len(s) /\ (s \o t)[i] = s[i]
        \/ i - Len(s) \in 1..Len(t) /\ (s \o t)[i] = t[i - Len(s)]
  BY <1>1, <1>2
<1>5. Entries(s) \subseteq Entries(s \o t)
  <2>1. \A i \in 1..Len(s) : i \in 1..(Len(s) + Len(t)) /\ (s \o t)[i] = s[i]
    BY <1>1, <1>2
  <2> QED
    BY <1>1, <1>3, <2>1 DEF Entries
<1>6. Entries(t) \subseteq Entries(s \o t)
  <2>1. ASSUME NEW i \in 1..Len(t)
        PROVE  /\ i + Len(s) \in 1..(Len(s) + Len(t))
               /\ (s \o t)[i + Len(s)] = t[i]
    <3>1. i + Len(s) \in 1..(Len(s) + Len(t)) /\ ~(i + Len(s) <= Len(s))
      BY <1>1
    <3>2. (i + Len(s)) - Len(s) = i
      BY <1>1
    <3> QED
      BY <1>2, <3>1, <3>2
  <2> QED
    BY <1>1, <1>3, <2>1 DEF Entries
<1>7. Entries(s \o t) \subseteq Entries(s) \cup Entries(t)
  BY <1>1, <1>3, <1>4 DEF Entries
<1> QED
  BY <1>1, <1>2, <1>3, <1>4, <1>5, <1>6, <1>7

-----------------------------------------------------------------------------
(* Every step keeps the invariant.                                         *)

(* The steps that move no message.                                         *)
Quiet ==
    \/ \E s \in Submitters : Signal(s)
    \/ Tick \/ TakeSignal \/ RunReturns
    \/ Close \/ CloseFlushes \/ ProcessEnds

LEMMA MessagesUnmoved ==
    ASSUME SinkInv, UNCHANGED <<submitted, buffer, bufferSize, dropped, pending,
                                posts, stored, late, refused>>
    PROVE  BufferBounded' /\ Conserved' /\ OrderInv' /\ StoredInOrder' /\ LateInv'
<1> USE DEF SinkInv
<1>1. BufferBounded'
  BY DEF BufferBounded
<1>2. Held' = Held /\ Gone' = Gone
  BY DEF Held, Gone
<1>3. Conserved'
  BY <1>2 DEF Conserved
<1>4. OrderInv'
  BY DEF OrderInv
<1>5. StoredInOrder'
  BY DEF StoredInOrder
<1>6. LateInv'
  BY DEF LateInv
<1> QED
  BY <1>1, <1>3, <1>4, <1>5, <1>6

LEMMA QuietStep == SinkInv /\ Quiet => SinkInv'
<1> SUFFICES ASSUME SinkInv, Quiet PROVE SinkInv'
  OBVIOUS
<1> USE DEF SinkInv
<1>1. UNCHANGED <<submitted, buffer, bufferSize, dropped, pending, posts,
                  stored, late, refused>>
  BY DEF Quiet, Signal, Tick, TakeSignal, RunReturns, Close, CloseFlushes,
         ProcessEnds, bufferVars, serviceVars
<1>2. TypeOK'
  BY DEF Quiet, Signal, Tick, TakeSignal, RunReturns, Close, CloseFlushes,
         ProcessEnds, bufferVars, serviceVars, TypeOK, GoTo, Flushers
<1>3. PlaceInv'
  <2>1. /\ pc'["run"] \in {"select", "flush", "post", "exited"}
        /\ pc'["close"] \in {"idle", "wait", "flush", "post", "closed", "gone"}
        /\ \A f \in Flushers : pc[f] = "post" => pc'[f] = "post"
        /\ pc'["close"] \in {"flush", "post", "closed"} => pc'["run"] = "exited"
    BY DEF Quiet, Signal, Tick, TakeSignal, RunReturns, Close, CloseFlushes,
           ProcessEnds, PlaceInv, GoTo, Flushers, TypeOK
  <2>2. closedAt' <= submitted
    BY DEF Quiet, Signal, Tick, TakeSignal, RunReturns, Close, CloseFlushes,
           ProcessEnds, PlaceInv, TypeOK
  <2> QED
    BY <1>1, <2>1, <2>2 DEF PlaceInv
<1>4. BufferBounded' /\ Conserved'
  BY <1>1, MessagesUnmoved
<1>5. OrderInv' /\ StoredInOrder' /\ LateInv'
  BY <1>1, MessagesUnmoved
<1>6. DrainInv'
  BY <1>1 DEF Quiet, Signal, Tick, TakeSignal, RunReturns, Close, CloseFlushes,
         ProcessEnds, DrainInv, GoTo, Flushers, TypeOK, Entries
<1>7. SignalInv'
  BY <1>1 DEF Quiet, Signal, Tick, TakeSignal, RunReturns, Close, CloseFlushes,
         ProcessEnds, SignalInv, GoTo, Flushers, TypeOK, Up
<1> QED
  BY <1>2, <1>3, <1>4, <1>5, <1>6, <1>7

LEMMA SubmitStep == ASSUME NEW s \in Submitters, SinkInv, Submit(s) PROVE SinkInv'
<1> USE DEF SinkInv
<1> DEFINE n == submitted + 1
           grown == Append(buffer, n)
           drop == Overflow(bufferSize + 1)
           over == {grown[i] : i \in 1..drop}
<1>1. /\ submitted \in 0..MaxEntries /\ submitted < MaxEntries /\ n \in Messages
      /\ buffer \in Seq(Messages) /\ bufferSize = Len(buffer)
      /\ Len(buffer) \in Nat /\ Len(buffer) <= BufferCap
      /\ Rising(buffer)
  BY LenProperties DEF Submit, TypeOK, BufferBounded, OrderInv, Messages
<1>2. Entries(buffer) \subseteq 1..submitted /\ \A e \in Entries(buffer) : e < n
  BY <1>1 DEF Conserved, Held
<1>3. /\ grown \in Seq(Messages) /\ Len(grown) = Len(buffer) + 1
      /\ Rising(grown) /\ Entries(grown) = Entries(buffer) \cup {n}
  BY <1>1, <1>2, AppendYoungest
<1>4. drop \in 0..Len(grown) /\ (bufferSize + 1) - drop = Len(grown) - drop
      /\ Len(grown) - drop <= BufferCap /\ Len(grown) - drop \in Nat
  BY <1>1, <1>3 DEF Overflow
<1>5. /\ submitted' = n /\ buffer' = SubSeq(grown, drop + 1, Len(grown))
      /\ bufferSize' = (bufferSize + 1) - drop /\ dropped' = dropped \cup over
      /\ signalling' = IF Triggers((bufferSize + 1) - drop)
                       THEN signalling \cup {s} ELSE signalling
      /\ UNCHANGED <<flushCh, doneCh, pc, pending, posts, stored, late, refused,
                     closedAt>>
  <2>1. UNCHANGED <<flushCh, doneCh, pc, pending, posts, stored, late, refused,
                    closedAt>>
    BY DEF Submit, serviceVars
  <2>2. submitted' = n /\ buffer' = SubSeq(grown, drop + 1, Len(grown))
    BY Zenon DEF Submit
  <2>3. bufferSize' = (bufferSize + 1) - drop
    BY Zenon DEF Submit
  <2>4. dropped' = dropped \cup over
    BY Zenon DEF Submit
  <2>5. signalling' = IF Triggers((bufferSize + 1) - drop)
                      THEN signalling \cup {s} ELSE signalling
    BY Zenon DEF Submit
  <2> QED
    BY <2>1, <2>2, <2>3, <2>4, <2>5
<1> HIDE DEF grown, drop
<1>6. /\ buffer' \in Seq(Messages) /\ Len(buffer') = Len(grown) - drop
      /\ Rising(buffer') /\ Entries(buffer') \cup over = Entries(grown)
      /\ Entries(buffer') \cap over = {}
  BY <1>3, <1>4, <1>5, DropOldest
<1> HIDE DEF over
<1>7. over \subseteq Messages
  <2>1. over \subseteq Entries(buffer) \cup {n}
    BY <1>3, <1>6
  <2>2. 1..submitted \subseteq Messages
    BY <1>1 DEF Messages
  <2> QED
    BY <1>1, <1>2, <2>1, <2>2
<1>8. TypeOK'
  BY <1>1, <1>4, <1>5, <1>6, <1>7 DEF TypeOK, Messages
<1>9. PlaceInv' /\ LateInv'
  <2>1. PlaceInv'
    BY <1>1, <1>5 DEF PlaceInv, TypeOK
  <2>2. LateInv'
    BY <1>5 DEF LateInv
  <2> QED
    BY <2>1, <2>2
<1>10. BufferBounded'
  BY <1>1, <1>4, <1>5, <1>6 DEF BufferBounded
<1>11. n \notin Held \cup Gone /\ \A f \in Flushers : n \notin Entries(pending[f])
  BY <1>1 DEF Conserved, Held
<1>12. Conserved'
  <2>1. UNION {Entries(pending'[f]) : f \in Flushers} = UNION {Entries(pending[f]) : f \in Flushers}
    BY <1>5
  <2>2. Held' \cup Gone' = (Held \cup Gone) \cup {n}
    BY <1>3, <1>5, <1>6, <2>1 DEF Held, Gone, Entries
  <2>3. Held' \cup Gone' = 1..submitted'
    BY <1>1, <1>5, <2>2 DEF Conserved
  <2>4. /\ over \subseteq Entries(buffer) \cup {n}
        /\ Entries(buffer') \subseteq Entries(buffer) \cup {n}
    BY <1>3, <1>6
  <2>5. \A f \in Flushers : Entries(pending[f]) \cap over = {}
    BY <1>11, <2>4 DEF Conserved
  <2>6. Held' \cap Gone' = {}
    <3>1. Gone' = Gone \cup over
      BY <1>5 DEF Gone, Entries
    <3>2. Entries(buffer') \cap (Gone \cup over) = {}
      BY <1>6, <1>11, <2>4 DEF Conserved, Held
    <3>3. \A f \in Flushers : Entries(pending[f]) \cap (Gone \cup over) = {}
      BY <2>5 DEF Conserved, Held
    <3> QED
      BY <2>1, <3>1, <3>2, <3>3 DEF Held
  <2>7. \A f \in Flushers : Entries(buffer') \cap Entries(pending'[f]) = {}
    BY <1>5, <1>11, <2>4 DEF Conserved
  <2>8. dropped' \cap (refused' \cup late' \cup Entries(stored')) = {}
    BY <1>5, <1>11, <2>4 DEF Conserved, Held, Gone
  <2> QED
    BY <1>5, <2>3, <2>6, <2>7, <2>8 DEF Conserved
<1>13. OrderInv'
  <2>1. Entries(buffer') \subseteq Entries(buffer) \cup {n}
    BY <1>3, <1>6
  <2>2. \A f \in Flushers : Entries(pending[f]) \subseteq 1..submitted
    BY DEF Conserved, Held
  <2>3. Entries(stored) \subseteq 1..submitted
    BY DEF Conserved, Gone
  <2>4. \A f \in Flushers : Below(Entries(pending[f]), Entries(buffer'))
    <3> SUFFICES ASSUME NEW f \in Flushers PROVE Below(Entries(pending[f]), Entries(buffer'))
      OBVIOUS
    <3>1. Below(Entries(pending[f]), Entries(buffer))
      BY DEF OrderInv
    <3>2. \A m \in Entries(pending[f]) : m \in 1..submitted
      BY <2>2
    <3>3. \A m \in 1..submitted : m < n
      BY <1>1, SMT
    <3> QED
      BY <2>1, <3>1, <3>2, <3>3 DEF Below
  <2>5. Below(Entries(stored) \ late, Entries(buffer'))
    BY <1>1, <2>1, <2>3 DEF OrderInv, Below
  <2> QED
    BY <1>5, <1>6, <2>4, <2>5 DEF OrderInv
<1>14. StoredInOrder'
  BY <1>5 DEF StoredInOrder
<1>15. DrainInv'
  <2>1. Entries(buffer') \subseteq Entries(buffer) \cup {n} /\ closedAt < n
    <3>1. closedAt <= submitted
      BY DEF PlaceInv
    <3> QED
      BY <1>1, <1>3, <1>6, <3>1 DEF TypeOK
  <2> QED
    BY <1>1, <1>5, <2>1 DEF DrainInv
<1>16. SignalInv'
  BY <1>1, <1>4, <1>5 DEF SignalInv, Triggers, Up
<1> QED
  BY <1>8, <1>9, <1>10, <1>12, <1>13, <1>14, <1>15, <1>16

LEMMA TakeStep == ASSUME NEW f \in Flushers, SinkInv, Take(f) PROVE SinkInv'
<1> USE DEF SinkInv
<1>1. /\ pc[f] = "flush" /\ pc' = [pc EXCEPT ![f] = IF buffer = <<>> THEN After(f) ELSE "post"]
      /\ pending' = [pending EXCEPT ![f] = buffer]
      /\ buffer' = <<>> /\ bufferSize' = 0
      /\ UNCHANGED <<submitted, dropped, signalling, flushCh, doneCh, posts,
                     stored, late, refused, closedAt>>
  BY DEF Take, GoTo, serviceVars
<1>2. /\ pending \in [Flushers -> Seq(Messages)]
      /\ buffer \in Seq(Messages) /\ pending[f] = <<>>
  BY <1>1 DEF TypeOK, PlaceInv, Messages
<1>3. /\ pending'[f] = buffer
      /\ \A g \in Flushers \ {f} : pending'[g] = pending[g]
  BY <1>1, <1>2
<1>4. Entries(<<>>) = {} /\ Rising(<<>>) /\ Len(<<>>) = 0 /\ <<>> \in Seq(Messages)
  BY DEF Entries, Rising
<1>5. TypeOK'
  BY <1>1, <1>2, <1>4 DEF TypeOK, After, Messages
<1>6. PlaceInv'
  BY <1>1, <1>2, <1>3 DEF PlaceInv, Flushers, After, TypeOK
<1>7. BufferBounded'
  BY <1>1, <1>4 DEF BufferBounded
<1>8. Conserved'
  <2>1. UNION {Entries(pending'[g]) : g \in Flushers}
          = Entries(buffer) \cup UNION {Entries(pending[g]) : g \in Flushers}
    BY <1>2, <1>3, <1>4
  <2>2. Held' = Held /\ Gone' = Gone
    <3>1. Held' = Held
      BY <1>1, <1>4, <2>1 DEF Held
    <3>2. Gone' = Gone
      BY <1>1 DEF Gone, Entries
    <3> QED
      BY <3>1, <3>2
  <2>3. Entries(pending'["run"]) \cap Entries(pending'["close"]) = {}
    BY <1>3 DEF Conserved, Flushers
  <2> QED
    BY <1>1, <1>4, <2>2, <2>3 DEF Conserved
<1>9. OrderInv'
  <2>1. \A g \in Flushers :
           /\ Rising(pending'[g])
           /\ Below(Entries(stored) \ late, Entries(pending'[g]))
    BY <1>3 DEF OrderInv
  <2> QED
    BY <1>1, <1>4, <2>1 DEF OrderInv, Below
<1>10. StoredInOrder' /\ LateInv'
  <2>1. StoredInOrder'
    BY <1>1 DEF StoredInOrder
  <2>2. LateInv'
    BY <1>1 DEF LateInv
  <2> QED
    BY <2>1, <2>2
<1>11. DrainInv'
  BY <1>1, <1>4 DEF DrainInv
<1>12. SignalInv'
  BY <1>1 DEF SignalInv
<1> QED
  BY <1>5, <1>6, <1>7, <1>8, <1>9, <1>10, <1>11, <1>12

(* What every way of posting a batch does to the flushers.                 *)
LEMMA PostedStep ==
    ASSUME NEW f \in Flushers, SinkInv, Posted(f)
    PROVE  /\ PlaceInv' /\ BufferBounded' /\ DrainInv' /\ SignalInv'
           /\ pending[f] \in Seq(Messages) /\ Rising(pending[f])
           /\ pending' \in [Flushers -> Seq(Messages)]
           /\ pc' \in [Flushers -> {"select", "idle", "wait", "flush", "post",
                                    "exited", "closed", "gone"}]
           /\ Entries(pending'[f]) = {} /\ Rising(pending'[f])
           /\ \A g \in Flushers \ {f} : pending'[g] = pending[g]
           /\ Entries(pending[f]) \subseteq Held /\ Entries(pending[f]) \cap Held' = {}
           /\ Held = Held' \cup Entries(pending[f])
           /\ UNCHANGED <<submitted, buffer, bufferSize, dropped, signalling,
                          flushCh, doneCh, closedAt>>
<1> USE DEF SinkInv
<1>1. /\ pc[f] = "post" /\ pc' = [pc EXCEPT ![f] = After(f)]
      /\ pending' = [pending EXCEPT ![f] = <<>>]
      /\ UNCHANGED <<submitted, buffer, bufferSize, dropped, signalling,
                     flushCh, doneCh, closedAt>>
  BY DEF Posted, GoTo, bufferVars
<1>2. pending \in [Flushers -> Seq(Messages)] /\ pending[f] \in Seq(Messages)
  BY DEF TypeOK, Messages
<1>3. /\ pending'[f] = <<>> /\ pending' \in [Flushers -> Seq(Messages)]
      /\ \A g \in Flushers \ {f} : pending'[g] = pending[g]
  BY <1>1, <1>2
<1>4. Entries(<<>>) = {} /\ Rising(<<>>)
  BY DEF Entries, Rising
<1>5. pc' \in [Flushers -> {"select", "idle", "wait", "flush", "post",
                            "exited", "closed", "gone"}]
  BY <1>1 DEF TypeOK, After
<1>6. PlaceInv'
  BY <1>1, <1>3 DEF PlaceInv, Flushers, After, TypeOK
<1>7. BufferBounded' /\ DrainInv' /\ SignalInv'
  BY <1>1 DEF BufferBounded, DrainInv, SignalInv, Flushers, After, Entries, TypeOK, Up
<1>8. \A g \in Flushers \ {f} : Entries(pending[g]) \cap Entries(pending[f]) = {}
  BY DEF Conserved, Flushers
<1>9. Entries(pending[f]) \cap Held' = {}
  <2>1. \A g \in Flushers : Entries(pending'[g]) \cap Entries(pending[f]) = {}
    BY <1>3, <1>4, <1>8
  <2>2. Entries(buffer') \cap Entries(pending[f]) = {}
    BY <1>1 DEF Conserved
  <2> QED
    BY <2>1, <2>2 DEF Held
<1>10. Held = Held' \cup Entries(pending[f])
  <2>1. \A g \in Flushers :
          /\ Entries(pending'[g]) \subseteq Entries(pending[g])
          /\ Entries(pending[g]) \subseteq Entries(pending'[g]) \cup Entries(pending[f])
    BY <1>3, <1>4
  <2>2. Entries(buffer') = Entries(buffer)
    BY <1>1
  <2>3. Held' = Entries(buffer') \cup UNION {Entries(pending'[g]) : g \in Flushers}
    BY DEF Held
  <2>4. Held \subseteq Held' \cup Entries(pending[f])
    BY <2>1, <2>2, <2>3 DEF Held
  <2>5. Held' \subseteq Held
    BY <2>1, <2>2, <2>3 DEF Held
  <2>6. Entries(pending[f]) \subseteq Held
    BY DEF Held
  <2> QED
    BY <2>4, <2>5, <2>6
<1> QED
  BY <1>1, <1>2, <1>3, <1>4, <1>5, <1>6, <1>7, <1>9, <1>10 DEF OrderInv

LEMMA PostStoredStep == ASSUME NEW f \in Flushers, SinkInv, PostStored(f) PROVE SinkInv'
<1> USE DEF SinkInv
<1> DEFINE b == pending[f]
<1>1. Posted(f) /\ stored' = stored \o b /\ UNCHANGED <<posts, late, refused>>
  BY DEF PostStored
<1>2. /\ PlaceInv' /\ BufferBounded' /\ DrainInv' /\ SignalInv'
      /\ b \in Seq(Messages) /\ Rising(b)
      /\ pending' \in [Flushers -> Seq(Messages)]
      /\ pc' \in [Flushers -> {"select", "idle", "wait", "flush", "post",
                               "exited", "closed", "gone"}]
      /\ Entries(pending'[f]) = {} /\ Rising(pending'[f])
      /\ \A g \in Flushers \ {f} : pending'[g] = pending[g]
      /\ Entries(b) \subseteq Held /\ Entries(b) \cap Held' = {}
      /\ Held = Held' \cup Entries(b)
      /\ UNCHANGED <<submitted, buffer, bufferSize, dropped, signalling,
                     flushCh, doneCh, closedAt>>
  BY <1>1, PostedStep
<1>3. stored \in Seq(Messages)
  BY DEF TypeOK, Messages
<1>4. /\ stored' \in Seq(Messages)
      /\ Entries(stored') = Entries(stored) \cup Entries(b)
      /\ \A i \in DOMAIN stored' :
           \/ i \in DOMAIN stored /\ stored'[i] = stored[i]
           \/ i - Len(stored) \in DOMAIN b /\ stored'[i] = b[i - Len(stored)]
      /\ DOMAIN stored' = 1..(Len(stored) + Len(b))
  BY <1>1, <1>2, <1>3, StoreBatch
<1>5. TypeOK'
  BY <1>1, <1>2, <1>4 DEF TypeOK, Messages
<1>6. Gone' = Gone \cup Entries(b)
  BY <1>1, <1>2, <1>4 DEF Gone
<1>7. Entries(b) \cap Gone = {}
  BY <1>2 DEF Conserved
<1>8. Conserved'
  <2>1. Held' \cup Gone' = 1..submitted' /\ Held' \cap Gone' = {}
    BY <1>2, <1>6 DEF Conserved
  <2>2. /\ \A g \in Flushers : Entries(buffer') \cap Entries(pending'[g]) = {}
        /\ Entries(pending'["run"]) \cap Entries(pending'["close"]) = {}
    BY <1>2 DEF Conserved, Flushers
  <2>3. /\ dropped' \cap (refused' \cup late' \cup Entries(stored')) = {}
        /\ refused' \cap (late' \cup Entries(stored')) = {}
    BY <1>1, <1>2, <1>4, <1>7 DEF Conserved, Gone
  <2> QED
    BY <2>1, <2>2, <2>3 DEF Conserved
<1>9. OrderInv'
  <2>1. \A g \in Flushers : Below(Entries(b), Entries(pending'[g]))
    <3>1. \A g \in Flushers \ {f} : pending'[g] = <<>>
      <4>1. pc[f] = "post"
        BY <1>1 DEF Posted
      <4> QED
        BY <1>2, <4>1 DEF PlaceInv, Flushers
    <3>2. Entries(<<>>) = {}
      BY DEF Entries
    <3>3. \A g \in Flushers : Entries(pending'[g]) = {}
      BY <1>2, <3>1, <3>2
    <3> QED
      BY <3>3 DEF Below
  <2>2. Below(Entries(b), Entries(buffer))
    BY DEF OrderInv
  <2>3. \A g \in Flushers : /\ Rising(pending'[g])
                            /\ Below(Entries(pending'[g]), Entries(buffer))
                            /\ Below(Entries(stored) \ late, Entries(pending'[g]))
    BY <1>2 DEF OrderInv, Below
  <2>4. \A g \in Flushers : Below(Entries(stored') \ late, Entries(pending'[g]))
    BY <1>4, <2>1, <2>3 DEF Below
  <2>5. Below(Entries(stored') \ late, Entries(buffer))
    BY <1>4, <2>2 DEF OrderInv, Below
  <2> QED
    BY <1>1, <1>2, <2>3, <2>4, <2>5 DEF OrderInv
<1>10. StoredInOrder'
  <2> SUFFICES ASSUME NEW i \in DOMAIN stored', NEW j \in DOMAIN stored', i < j
               PROVE  /\ stored'[i] # stored'[j]
                      /\ {stored'[i], stored'[j]} \cap late = {} => stored'[i] < stored'[j]
    BY <1>1 DEF StoredInOrder
  <2>1. Len(stored) \in Nat /\ DOMAIN stored = 1..Len(stored)
        /\ Len(b) \in Nat /\ DOMAIN b = 1..Len(b) /\ \A k \in DOMAIN b : b[k] \in Messages
    BY <1>2, <1>3, LenProperties
  <2>2. CASE /\ i \in DOMAIN stored /\ j \in DOMAIN stored
             /\ stored'[i] = stored[i] /\ stored'[j] = stored[j]
    BY <2>2 DEF StoredInOrder
  <2>3. CASE i \in DOMAIN stored /\ stored'[i] = stored[i]
             /\ j - Len(stored) \in DOMAIN b /\ stored'[j] = b[j - Len(stored)]
    <3>1. stored'[i] \in Entries(stored) /\ stored'[j] \in Entries(b)
      BY <2>3 DEF Entries
    <3>2. stored'[i] # stored'[j]
      BY <1>7, <3>1 DEF Gone
    <3>3. stored'[i] \notin late => stored'[i] < stored'[j]
      BY <3>1 DEF OrderInv, Below
    <3> QED
      BY <3>2, <3>3
  <2>4. CASE i - Len(stored) \in DOMAIN b /\ j - Len(stored) \in DOMAIN b
             /\ stored'[i] = b[i - Len(stored)] /\ stored'[j] = b[j - Len(stored)]
    <3>1. i - Len(stored) < j - Len(stored)
      BY <1>4, <2>1
    <3>2. stored'[i] < stored'[j] /\ stored'[i] \in Messages /\ stored'[j] \in Messages
      BY <1>2, <2>1, <2>4, <3>1 DEF Rising
    <3> QED
      BY <3>2 DEF Messages
  <2>5. ~(i - Len(stored) \in DOMAIN b /\ j \in DOMAIN stored)
    BY <1>4, <2>1
  <2> QED
    BY <1>4, <2>2, <2>3, <2>4, <2>5
<1>11. LateInv'
  <2>1. Entries(b) \cap late = {}
    BY <1>7 DEF Gone
  <2> QED
    BY <1>1, <1>4, <2>1 DEF LateInv
<1> QED
  BY <1>2, <1>5, <1>8, <1>9, <1>10, <1>11

LEMMA PostLostStep ==
    ASSUME NEW f \in Flushers, SinkInv, PostRefused(f) \/ PostTimesOut(f) PROVE SinkInv'
<1> USE DEF SinkInv
<1> DEFINE b == pending[f]
<1>1. Posted(f) /\ stored' = stored
  BY DEF PostRefused, PostTimesOut
<1>2. /\ PlaceInv' /\ BufferBounded' /\ DrainInv' /\ SignalInv'
      /\ b \in Seq(Messages) /\ Rising(b)
      /\ pending' \in [Flushers -> Seq(Messages)]
      /\ pc' \in [Flushers -> {"select", "idle", "wait", "flush", "post",
                               "exited", "closed", "gone"}]
      /\ Entries(pending'[f]) = {} /\ Rising(pending'[f])
      /\ \A g \in Flushers \ {f} : pending'[g] = pending[g]
      /\ Entries(b) \subseteq Held /\ Entries(b) \cap Held' = {}
      /\ Held = Held' \cup Entries(b)
      /\ UNCHANGED <<submitted, buffer, bufferSize, dropped, signalling,
                     flushCh, doneCh, closedAt>>
  BY <1>1, PostedStep
<1>3. \/ refused' = refused \cup Entries(b) /\ UNCHANGED <<posts, late>>
      \/ posts' = posts \cup {b} /\ late' = late \cup Entries(b) /\ UNCHANGED refused
  BY DEF PostRefused, PostTimesOut
<1>4. Entries(b) \subseteq Messages
  BY <1>2, LenProperties DEF Entries
<1>5. TypeOK'
  BY <1>1, <1>2, <1>3, <1>4 DEF TypeOK, Messages
<1>6. Gone' = Gone \cup Entries(b)
  BY <1>1, <1>2, <1>3 DEF Gone
<1>7. Entries(b) \cap Gone = {}
  BY <1>2 DEF Conserved
<1>8. Conserved'
  <2>1. Held' \cup Gone' = 1..submitted' /\ Held' \cap Gone' = {}
    BY <1>2, <1>6 DEF Conserved
  <2>2. /\ \A g \in Flushers : Entries(buffer') \cap Entries(pending'[g]) = {}
        /\ Entries(pending'["run"]) \cap Entries(pending'["close"]) = {}
    BY <1>2 DEF Conserved, Flushers
  <2>3. /\ dropped' \cap (refused' \cup late' \cup Entries(stored')) = {}
        /\ refused' \cap (late' \cup Entries(stored')) = {}
    BY <1>1, <1>2, <1>3, <1>7 DEF Conserved, Gone
  <2> QED
    BY <2>1, <2>2, <2>3 DEF Conserved
<1>9. late \subseteq late'
  BY <1>3
<1>10. OrderInv'
  <2>1. \A g \in Flushers : /\ Rising(pending'[g])
                            /\ Below(Entries(pending'[g]), Entries(buffer))
                            /\ Below(Entries(stored) \ late, Entries(pending'[g]))
    BY <1>2 DEF OrderInv, Below
  <2> QED
    BY <1>1, <1>2, <1>9, <2>1 DEF OrderInv, Below
<1>11. StoredInOrder'
  BY <1>1, <1>9 DEF StoredInOrder
<1>12. LateInv'
  BY <1>1, <1>2, <1>3, <1>7 DEF LateInv, Gone
<1> QED
  BY <1>2, <1>5, <1>8, <1>10, <1>11, <1>12

LEMMA StoredLateStep == ASSUME NEW p \in posts, SinkInv, StoredLate(p) PROVE SinkInv'
<1> USE DEF SinkInv
<1>1. /\ posts' = posts \ {p} /\ stored' = stored \o p
      /\ UNCHANGED <<submitted, buffer, bufferSize, dropped, signalling, flushCh,
                     doneCh, pc, pending, late, refused, closedAt>>
  BY DEF StoredLate, bufferVars
<1>2. stored \in Seq(Messages) /\ p \in Seq(Messages)
  BY DEF TypeOK, Messages
<1>3. /\ stored' \in Seq(Messages)
      /\ Entries(stored') = Entries(stored) \cup Entries(p)
      /\ \A i \in DOMAIN stored' :
           \/ i \in DOMAIN stored /\ stored'[i] = stored[i]
           \/ i - Len(stored) \in DOMAIN p /\ stored'[i] = p[i - Len(stored)]
      /\ DOMAIN stored' = 1..(Len(stored) + Len(p))
  BY <1>1, <1>2, StoreBatch
<1>4. Rising(p) /\ Entries(p) \subseteq late /\ Entries(p) \cap Entries(stored) = {}
  BY DEF LateInv
<1>5. TypeOK'
  BY <1>1, <1>3 DEF TypeOK, Messages
<1>6. PlaceInv' /\ BufferBounded' /\ DrainInv' /\ SignalInv'
  BY <1>1 DEF PlaceInv, BufferBounded, DrainInv, SignalInv, Entries, Up
<1>7. Held' = Held /\ Gone' = Gone
  BY <1>1, <1>3, <1>4 DEF Held, Gone, Entries
<1>8. Conserved'
  BY <1>1, <1>3, <1>4, <1>7 DEF Conserved
<1>9. Entries(stored') \ late' = Entries(stored) \ late
  BY <1>1, <1>3, <1>4
<1>10. OrderInv'
  BY <1>1, <1>9 DEF OrderInv
<1>11. StoredInOrder'
  <2> SUFFICES ASSUME NEW i \in DOMAIN stored', NEW j \in DOMAIN stored', i < j
               PROVE  /\ stored'[i] # stored'[j]
                      /\ {stored'[i], stored'[j]} \cap late = {} => stored'[i] < stored'[j]
    BY <1>1 DEF StoredInOrder
  <2>1. Len(stored) \in Nat /\ DOMAIN stored = 1..Len(stored)
        /\ Len(p) \in Nat /\ DOMAIN p = 1..Len(p) /\ \A k \in DOMAIN p : p[k] \in Messages
    BY <1>2, LenProperties
  <2>2. CASE /\ i \in DOMAIN stored /\ j \in DOMAIN stored
             /\ stored'[i] = stored[i] /\ stored'[j] = stored[j]
    BY <2>2 DEF StoredInOrder
  <2>3. CASE i \in DOMAIN stored /\ stored'[i] = stored[i]
             /\ j - Len(stored) \in DOMAIN p /\ stored'[j] = p[j - Len(stored)]
    BY <1>4, <2>3 DEF Entries
  <2>4. CASE i - Len(stored) \in DOMAIN p /\ j - Len(stored) \in DOMAIN p
             /\ stored'[i] = p[i - Len(stored)] /\ stored'[j] = p[j - Len(stored)]
    <3>1. i - Len(stored) < j - Len(stored)
      BY <1>3, <2>1
    <3>2. stored'[i] < stored'[j] /\ stored'[i] \in Messages /\ stored'[j] \in Messages
      BY <1>4, <2>1, <2>4, <3>1 DEF Rising
    <3> QED
      BY <3>2 DEF Messages
  <2>5. ~(i - Len(stored) \in DOMAIN p /\ j \in DOMAIN stored)
    BY <1>3, <2>1
  <2> QED
    BY <1>3, <2>2, <2>3, <2>4, <2>5
<1>12. LateInv'
  BY <1>1, <1>3 DEF LateInv
<1> QED
  BY <1>5, <1>6, <1>8, <1>10, <1>11, <1>12

-----------------------------------------------------------------------------
(* The theorems.                                                           *)

LEMMA SinkInitially == Init => SinkInv
<1> SUFFICES ASSUME Init PROVE SinkInv
  OBVIOUS
<1>1. /\ submitted = 0 /\ buffer = <<>> /\ bufferSize = 0 /\ closedAt = 0
      /\ pc = [f \in Flushers |-> IF f = "run" THEN "select" ELSE "idle"]
      /\ pending = [f \in Flushers |-> <<>>]
      /\ posts = {} /\ stored = <<>> /\ late = {} /\ refused = {} /\ dropped = {}
      /\ signalling = {} /\ flushCh = FALSE /\ doneCh = FALSE
  BY DEF Init
<1>2. Entries(<<>>) = {} /\ Rising(<<>>) /\ Len(<<>>) = 0 /\ DOMAIN <<>> = {}
  BY DEF Entries, Rising
<1>3. TypeOK
  <2>1. <<>> \in Seq(1..MaxEntries) /\ 0 \in 0..MaxEntries
    OBVIOUS
  <2> QED
    BY <1>1, <2>1 DEF TypeOK, Flushers
<1>4. PlaceInv /\ BufferBounded /\ DrainInv /\ SignalInv
  BY <1>1, <1>2 DEF PlaceInv, BufferBounded, DrainInv, SignalInv, Flushers
<1>5. Held = {} /\ Gone = {}
  BY <1>1, <1>2 DEF Held, Gone
<1>6. Conserved
  BY <1>1, <1>2, <1>5 DEF Conserved, Flushers
<1>7. OrderInv /\ StoredInOrder /\ LateInv
  BY <1>1, <1>2 DEF OrderInv, StoredInOrder, LateInv, Below, Flushers
<1> QED
  BY <1>3, <1>4, <1>6, <1>7 DEF SinkInv

LEMMA SinkStep == SinkInv /\ [Next]_vars => SinkInv'
<1> SUFFICES ASSUME SinkInv, [Next]_vars PROVE SinkInv'
  OBVIOUS
<1>1. CASE Quiet
  BY <1>1, QuietStep
<1>2. CASE \E s \in Submitters : Submit(s)
  BY <1>2, SubmitStep
<1>3. CASE \E f \in Flushers : Take(f)
  BY <1>3, TakeStep
<1>4. CASE \E f \in Flushers : PostStored(f)
  BY <1>4, PostStoredStep
<1>5. CASE \E f \in Flushers : PostRefused(f) \/ PostTimesOut(f)
  BY <1>5, PostLostStep
<1>6. CASE \E p \in posts : StoredLate(p)
  BY <1>6, StoredLateStep
<1>7. CASE UNCHANGED vars
  <2>1. BufferBounded' /\ Conserved' /\ OrderInv' /\ StoredInOrder' /\ LateInv'
    BY <1>7, MessagesUnmoved DEF vars
  <2>2. TypeOK' /\ PlaceInv'
    BY <1>7 DEF vars, SinkInv, TypeOK, PlaceInv
  <2>3. DrainInv' /\ SignalInv'
    BY <1>7 DEF vars, SinkInv, DrainInv, SignalInv, Up
  <2> QED
    BY <2>1, <2>2, <2>3 DEF SinkInv
<1> QED
  BY <1>1, <1>2, <1>3, <1>4, <1>5, <1>6, <1>7 DEF Next, Quiet, Flush

(* The sink's invariant holds of every behaviour.                          *)
LEMMA SinkAlways == Spec => []SinkInv
BY SinkInitially, SinkStep, PTL DEF Spec

(* Every variable of the sink keeps its type.                              *)
THEOREM TypeCorrect == Spec => []TypeOK
<1>1. SinkInv => TypeOK
  BY DEF SinkInv
<1> QED
  BY <1>1, SinkAlways, PTL

(* Between Submit and the service no message is lost from sight and none is
   in two places, however many submitters there are.                       *)
THEOREM ConservedHolds == Spec => []Conserved
<1>1. SinkInv => Conserved
  BY DEF SinkInv
<1> QED
  BY <1>1, SinkAlways, PTL

(* The service stores no message twice and, of those it answers in time,
   each after the ones submitted before it.                                *)
THEOREM StoredInOrderHolds == Spec => []StoredInOrder
<1>1. SinkInv => StoredInOrder
  BY DEF SinkInv
<1> QED
  BY <1>1, SinkAlways, PTL

(* The buffer never exceeds its cap, whatever the cap.                     *)
THEOREM BufferBoundedHolds == Spec => []BufferBounded
<1>1. SinkInv => BufferBounded
  BY DEF SinkInv
<1> QED
  BY <1>1, SinkAlways, PTL

(* A full batch always has its signal, so it is not left to the ticker.    *)
THEOREM TriggerPendingHolds == Spec => []TriggerPending
<1>1. SinkInv => TriggerPending
  BY DEF SinkInv, SignalInv, TriggerPending
<1> QED
  BY <1>1, SinkAlways, PTL

(* Close leaves nothing behind of what was submitted before it.            *)
THEOREM CloseDrainsHolds == Spec => []CloseDrains
<1>1. SinkInv => CloseDrains
  BY DEF SinkInv, DrainInv, CloseDrains
<1> QED
  BY <1>1, SinkAlways, PTL

-----------------------------------------------------------------------------
(* The sink implements the outbox.                                         *)

(* Close is under way, or done, exactly when doneCh is closed, and only a
   batch that holds something is posted.                                   *)
DoneInv ==
    /\ doneCh <=> pc["close"] \in {"wait", "flush", "post", "closed"}
    /\ \A f \in Flushers : pc[f] = "post" => pending[f] # <<>>

LEMMA DoneStep == SinkInv /\ DoneInv /\ [Next]_vars => DoneInv'
<1> SUFFICES ASSUME SinkInv, DoneInv, [Next]_vars PROVE DoneInv'
  OBVIOUS
<1> USE DEF SinkInv
<1>0. /\ pc \in [Flushers -> {"select", "idle", "wait", "flush", "post",
                              "exited", "closed", "gone"}]
      /\ pending \in [Flushers -> Seq(1..MaxEntries)]
      /\ Flushers = {"run", "close"}
  BY DEF TypeOK, Flushers
<1>1. CASE \E s \in Submitters : Submit(s) \/ Signal(s)
  BY <1>1 DEF DoneInv, Submit, Signal
<1>2. CASE Tick \/ TakeSignal \/ RunReturns
  BY <1>0, <1>2 DEF DoneInv, Tick, TakeSignal, RunReturns, GoTo
<1>3. CASE Close \/ CloseFlushes \/ ProcessEnds
  BY <1>0, <1>3 DEF DoneInv, Close, CloseFlushes, ProcessEnds, GoTo
<1>4. ASSUME NEW f \in Flushers, Take(f) PROVE DoneInv'
  BY <1>0, <1>4 DEF DoneInv, Take, GoTo, After, PlaceInv
<1>5. ASSUME NEW f \in Flushers, PostStored(f) \/ PostRefused(f) \/ PostTimesOut(f)
      PROVE  DoneInv'
  <2>1. Posted(f)
    BY <1>5 DEF PostStored, PostRefused, PostTimesOut
  <2> QED
    BY <1>0, <2>1 DEF DoneInv, Posted, GoTo, After
<1>6. CASE \E p \in posts : StoredLate(p)
  BY <1>6 DEF DoneInv, StoredLate
<1>7. CASE UNCHANGED vars
  BY <1>7 DEF DoneInv, vars
<1> QED
  BY <1>1, <1>2, <1>3, <1>4, <1>5, <1>6, <1>7 DEF Next, Flush

LEMMA DoneAlways == Spec => []DoneInv
<1>1. Init => DoneInv
  BY DEF Init, DoneInv, Flushers
<1> QED
  BY <1>1, DoneStep, SinkAlways, PTL DEF Spec

(* The newest message stays, whatever a full buffer drops.                 *)
LEMMA NewestStays ==
    ASSUME NEW s \in Seq(Messages), NEW n \in Messages, NEW d \in 0..Len(s)
    PROVE  LET t == SubSeq(Append(s, n), d + 1, Len(Append(s, n))) IN
           n \in Entries(t) /\ Entries(t) \subseteq Entries(s) \cup {n}
<1> DEFINE g == Append(s, n)
           t == SubSeq(g, d + 1, Len(g))
<1>1. /\ Len(s) \in Nat /\ DOMAIN s = 1..Len(s)
      /\ g \in Seq(Messages) /\ Len(g) = Len(s) + 1
      /\ \A i \in 1..Len(s) : g[i] = s[i]
      /\ g[Len(s) + 1] = n
  BY AppendProperties, LenProperties
<1>2. t = [i \in 1..(Len(g) - d) |-> g[i + d]]
  BY <1>1
<1> HIDE DEF g
<1>3. DOMAIN t = 1..(Len(g) - d) /\ \A i \in 1..(Len(g) - d) : t[i] = g[i + d]
  BY <1>2
<1> HIDE DEF t
<1>4. n \in Entries(t)
  <2>1. Len(g) - d \in 1..(Len(g) - d) /\ (Len(g) - d) + d = Len(s) + 1
    BY <1>1
  <2> QED
    BY <1>1, <1>3, <2>1 DEF Entries
<1>5. Entries(t) \subseteq Entries(s) \cup {n}
  <2>1. ASSUME NEW i \in 1..(Len(g) - d) PROVE t[i] \in Entries(s) \cup {n}
    <3>1. i + d \in 1..Len(s) \/ i + d = Len(s) + 1
      BY <1>1
    <3> QED
      BY <1>1, <1>3, <3>1 DEF Entries
  <2> QED
    BY <1>3, <2>1 DEF Entries
<1> QED
  BY <1>4, <1>5 DEF g, t

(* What was appended is what the log has beyond its former length.         *)
LEMMA AppendedBatch ==
    ASSUME NEW s \in Seq(Messages), NEW t \in Seq(Messages)
    PROVE  SubSeq(s \o t, Len(s) + 1, Len(s \o t)) = t
<1> DEFINE st == s \o t
           u == SubSeq(st, Len(s) + 1, Len(st))
<1>1. /\ Len(s) \in Nat /\ Len(t) \in Nat /\ DOMAIN t = 1..Len(t)
      /\ st \in Seq(Messages) /\ Len(st) = Len(s) + Len(t)
      /\ \A i \in 1..(Len(s) + Len(t)) :
            st[i] = IF i <= Len(s) THEN s[i] ELSE t[i - Len(s)]
      /\ t = [i \in 1..Len(t) |-> t[i]]
  BY ConcatProperties, LenProperties
<1> HIDE DEF st
<1>2. u = [i \in 1..(Len(st) - Len(s)) |-> st[i + Len(s)]]
  BY <1>1
<1>3. Len(st) - Len(s) = Len(t)
  BY <1>1
<1>4. \A i \in 1..Len(t) : st[i + Len(s)] = t[i]
  <2>1. ASSUME NEW i \in 1..Len(t) PROVE st[i + Len(s)] = t[i]
    <3>1. /\ i + Len(s) \in 1..(Len(s) + Len(t)) /\ ~(i + Len(s) <= Len(s))
          /\ (i + Len(s)) - Len(s) = i
      BY <1>1
    <3> QED
      BY <1>1, <3>1
  <2> QED
    BY <2>1
<1>5. u = [i \in 1..Len(t) |-> t[i]]
  BY <1>2, <1>3, <1>4
<1> QED
  BY <1>1, <1>5 DEF st

(* The outbox sees a submission as an acceptance.                          *)
LEMMA SubmitAccepts ==
    ASSUME NEW s \in Submitters, SinkInv, Submit(s) PROVE Out!Accept
<1> USE DEF SinkInv
<1> DEFINE n == submitted + 1
           drop == Overflow(bufferSize + 1)
<1>1. /\ buffer \in Seq(Messages) /\ n \in Messages /\ submitted \in Nat
      /\ bufferSize = Len(buffer) /\ Len(buffer) \in Nat /\ Len(buffer) <= BufferCap
  BY LenProperties DEF Submit, TypeOK, BufferBounded, Messages
<1>2. drop \in 0..Len(buffer)
  BY <1>1 DEF Overflow
<1>3. /\ submitted' = n
      /\ buffer' = SubSeq(Append(buffer, n), drop + 1, Len(Append(buffer, n)))
  BY Zenon DEF Submit
<1>4. UNCHANGED <<posts, stored, closedAt, doneCh, pc, pending>>
  BY DEF Submit, serviceVars
<1> HIDE DEF n, drop
<1>5. n \in Entries(buffer') /\ Entries(buffer') \subseteq Entries(buffer) \cup {n}
  BY <1>1, <1>2, <1>3, NewestStays
<1>6. n \in Held' /\ Held' \subseteq Held \cup {n}
  BY <1>4, <1>5 DEF Held
<1> QED
  BY <1>1, <1>3, <1>4, <1>6 DEF Out!Accept, n

(* A batch taken by Close when nothing is left closes the outbox.          *)
LEMMA TakeGivesUpNothing ==
    ASSUME NEW f \in Flushers, SinkInv, DoneInv, Take(f) PROVE Out!GiveUp
<1> USE DEF SinkInv
<1>1. /\ pc[f] = "flush"
      /\ pc' = [pc EXCEPT ![f] = IF buffer = <<>> THEN After(f) ELSE "post"]
      /\ pending' = [pending EXCEPT ![f] = buffer] /\ buffer' = <<>>
      /\ UNCHANGED <<submitted, posts, stored, closedAt, doneCh>>
  BY DEF Take, GoTo, serviceVars
<1>2. /\ pending \in [Flushers -> Seq(Messages)] /\ Flushers = {"run", "close"}
      /\ pc \in [Flushers -> {"select", "idle", "wait", "flush", "post",
                              "exited", "closed", "gone"}]
      /\ closedAt \in Nat
  BY DEF TypeOK, Messages, Flushers
<1>3. pending'[f] = buffer /\ \A g \in Flushers \ {f} : pending'[g] = pending[g]
  BY <1>1, <1>2
<1>4. Entries(<<>>) = {}
  BY DEF Entries
<1>5. Held' \subseteq Held
  BY <1>1, <1>3, <1>4 DEF Held
<1>6. ASSUME pc'["close"] = "closed", pc["close"] # "closed"
      PROVE  doneCh /\ Held' = {}
  <2>1. f = "close" /\ buffer = <<>>
    BY <1>1, <1>2, <1>6 DEF After
  <2>2. pending["run"] = <<>> /\ doneCh
    BY <1>1, <2>1 DEF PlaceInv, DoneInv, Flushers
  <2>3. \A g \in Flushers : Entries(pending'[g]) = {}
    BY <1>2, <1>3, <1>4, <2>1, <2>2
  <2> QED
    BY <1>1, <1>4, <2>2, <2>3 DEF Held
<1>7. pc["close"] = "closed" => pc'["close"] = "closed"
  BY <1>1, <1>2
<1> QED
  BY <1>1, <1>2, <1>5, <1>6, <1>7 DEF Out!GiveUp, Out!MayClose

(* Every end of a post takes its batch off the outbox, the oldest first.   *)
LEMMA PostedLeaves ==
    ASSUME NEW f \in Flushers, SinkInv, DoneInv, Posted(f)
    PROVE  /\ Out!Leaves(pending[f]) /\ Out!MayClose
           /\ UNCHANGED <<submitted, closedAt, doneCh>>
<1> USE DEF SinkInv
<1>1. /\ pc[f] = "post" /\ pc' = [pc EXCEPT ![f] = After(f)]
      /\ UNCHANGED <<submitted, buffer, closedAt, doneCh>>
  BY DEF Posted, GoTo, bufferVars
<1>2. /\ Rising(pending[f]) /\ Entries(pending[f]) \subseteq Held
      /\ Entries(pending[f]) \cap Held' = {}
      /\ Held = Held' \cup Entries(pending[f]) /\ DrainInv'
      /\ Entries(pending'[f]) = {}
      /\ \A g \in Flushers \ {f} : pending'[g] = pending[g]
  BY PostedStep
<1>3. \A g \in Flushers \ {f} : pending[g] = <<>>
  BY <1>1 DEF PlaceInv, Flushers
<1>4. Held' = Entries(buffer)
  <2>1. Entries(<<>>) = {}
    BY DEF Entries
  <2>2. \A g \in Flushers : Entries(pending'[g]) = {}
    BY <1>2, <1>3, <2>1
  <2> QED
    BY <1>1, <2>2 DEF Held
<1>5. \A e \in Entries(pending[f]), rest \in Held' : e < rest
  BY <1>4 DEF OrderInv, Below
<1>6. Out!Leaves(pending[f])
  <2>1. Out!Contents(pending[f]) = Entries(pending[f])
    BY DEF Out!Contents, Entries
  <2>2. Held' = Held \ Entries(pending[f])
    BY <1>2
  <2> QED
    BY <1>2, <1>5, <2>1, <2>2 DEF Out!Leaves, Rising
<1>7. Out!MayClose
  <2>1. /\ pc \in [Flushers -> {"select", "idle", "wait", "flush", "post",
                                "exited", "closed", "gone"}]
        /\ closedAt \in Nat /\ Flushers = {"run", "close"}
    BY DEF TypeOK, Flushers
  <2>2. CASE f = "run"
    BY <1>1, <2>1, <2>2 DEF Out!MayClose
  <2>3. CASE f = "close"
    <3>1. pc'["close"] = "closed" /\ doneCh
      BY <1>1, <2>1, <2>3 DEF After, DoneInv
    <3>2. \A e \in Held' : e > closedAt'
      BY <1>1, <1>2, <1>4, <3>1 DEF DrainInv
    <3> QED
      BY <1>1, <2>1, <3>1, <3>2 DEF Out!MayClose
  <2> QED
    BY <2>1, <2>2, <2>3
<1> QED
  BY <1>1, <1>6, <1>7

(* An answered post forwards its batch.                                    *)
LEMMA StoredForwards ==
    ASSUME NEW f \in Flushers, SinkInv, DoneInv, PostStored(f) PROVE Out!Forward
<1>1. Posted(f) /\ stored' = stored \o pending[f] /\ posts' = posts
  BY DEF PostStored
<1>2. stored \in Seq(Messages) /\ pending[f] \in Seq(Messages)
  BY DEF SinkInv, TypeOK, Messages
<1>3. SubSeq(stored', Len(stored) + 1, Len(stored')) = pending[f]
  BY <1>1, <1>2, AppendedBatch
<1> DEFINE batches == {SubSeq(stored', Len(stored) + 1, Len(stored'))}
<1>4. pending[f] \in batches
  BY <1>3
<1> HIDE DEF batches
<1>5. \E batch \in batches : Out!Leaves(batch) /\ stored' = stored \o batch
  BY <1>1, <1>4, PostedLeaves
<1>6. Out!MayClose /\ UNCHANGED <<submitted, posts, closedAt, doneCh>>
  BY <1>1, PostedLeaves
<1> QED
  BY <1>5, <1>6 DEF Out!Forward, batches

(* A refused post gives its batch up.                                      *)
LEMMA RefusedGivesUp ==
    ASSUME NEW f \in Flushers, SinkInv, DoneInv, PostRefused(f) PROVE Out!GiveUp
<1>1. Posted(f) /\ stored' = stored /\ posts' = posts
  BY DEF PostRefused
<1> QED
  BY <1>1, PostedLeaves DEF Out!GiveUp, Out!Leaves

(* A post without an answer leaves its batch in doubt.                     *)
LEMMA TimeoutWonders ==
    ASSUME NEW f \in Flushers, SinkInv, DoneInv, PostTimesOut(f) PROVE Out!Wonder
<1>1. Posted(f) /\ stored' = stored /\ posts' = posts \cup {pending[f]}
  BY DEF PostTimesOut
<1>2. pending[f] \notin posts
  <2>1. pending[f] # <<>> /\ pending[f] \in Seq(Messages)
    BY <1>1 DEF Posted, DoneInv, SinkInv, TypeOK, Messages
  <2>2. Len(pending[f]) \in Nat /\ DOMAIN pending[f] = 1..Len(pending[f])
    BY <2>1, LenProperties
  <2>3. 1 \in DOMAIN pending[f]
    BY <2>1, <2>2, EmptySeq
  <2>4. pending[f][1] \in Entries(pending[f])
    BY <2>3 DEF Entries
  <2>5. pending[f][1] \notin late
    BY <2>4 DEF SinkInv, Conserved, Held, Gone
  <2> QED
    BY <2>4, <2>5 DEF SinkInv, LateInv
<1> QED
  BY <1>1, <1>2, PostedLeaves DEF Out!Wonder

(* Every step of the sink is one of the outbox, or a stutter.              *)
LEMMA OutboxStep == SinkInv /\ DoneInv /\ [Next]_vars => [Out!Next]_(Out!vars)
<1> SUFFICES ASSUME SinkInv, DoneInv, [Next]_vars PROVE [Out!Next]_(Out!vars)
  OBVIOUS
<1>0. /\ pc \in [Flushers -> {"select", "idle", "wait", "flush", "post",
                              "exited", "closed", "gone"}]
      /\ Flushers = {"run", "close"}
  BY DEF SinkInv, TypeOK, Flushers
<1>1. CASE \E s \in Submitters : Submit(s)
  BY <1>1, SubmitAccepts DEF Out!Next
<1>2. CASE \/ \E s \in Submitters : Signal(s)
           \/ Tick \/ TakeSignal \/ RunReturns \/ CloseFlushes \/ ProcessEnds
  <2>1. /\ UNCHANGED <<submitted, buffer, pending, posts, stored, closedAt, doneCh>>
        /\ (pc'["close"] = "closed") = (pc["close"] = "closed")
    BY <1>0, <1>2 DEF Signal, Tick, TakeSignal, RunReturns, CloseFlushes, ProcessEnds,
                      GoTo, bufferVars, serviceVars
  <2>2. Held' = Held
    BY <2>1 DEF Held
  <2> QED
    BY <2>1, <2>2 DEF Out!vars
<1>3. CASE Close
  <2>1. /\ UNCHANGED <<submitted, buffer, pending, posts, stored>>
        /\ pc["close"] = "idle" /\ pc'["close"] = "wait"
        /\ doneCh' = TRUE /\ closedAt' = submitted
    BY <1>0, <1>3 DEF Close, GoTo, bufferVars, serviceVars
  <2>2. Held' = Held /\ doneCh = FALSE
    <3>1. Held' = Held
      BY <2>1 DEF Held
    <3>2. doneCh = FALSE
      BY <2>1 DEF DoneInv, SinkInv, TypeOK
    <3> QED
      BY <3>1, <3>2
  <2> QED
    BY <2>1, <2>2 DEF Out!Next, Out!StartClosing
<1>4. CASE \E f \in Flushers : Take(f)
  BY <1>4, TakeGivesUpNothing DEF Out!Next
<1>5. CASE \E f \in Flushers : PostStored(f)
  BY <1>5, StoredForwards DEF Out!Next
<1>6. CASE \E f \in Flushers : PostRefused(f)
  BY <1>6, RefusedGivesUp DEF Out!Next
<1>7. CASE \E f \in Flushers : PostTimesOut(f)
  BY <1>7, TimeoutWonders DEF Out!Next
<1>8. CASE \E p \in posts : StoredLate(p)
  <2>1. UNCHANGED <<submitted, buffer, pending, pc, closedAt, doneCh>>
    BY <1>8 DEF StoredLate, bufferVars
  <2>2. Held' = Held
    BY <2>1 DEF Held
  <2>3. \E p \in posts : posts' = posts \ {p} /\ stored' = stored \o p
    BY <1>8 DEF StoredLate
  <2> QED
    BY <2>1, <2>2, <2>3 DEF Out!Next, Out!Settle
<1>9. CASE UNCHANGED vars
  <2>1. UNCHANGED <<submitted, buffer, pending, pc, posts, stored, closedAt, doneCh>>
    BY <1>9 DEF vars
  <2> QED
    BY <2>1 DEF Out!vars, Held
<1> QED
  BY <1>1, <1>2, <1>3, <1>4, <1>5, <1>6, <1>7, <1>8, <1>9 DEF Next, Flush

(* The sink implements the outbox: for every set of submitters, buffer cap
   and batch size, whatever the service answers and whenever it is closed,
   it forwards each message at most once and in order, and it is not closed
   while something is waiting that was submitted before Close.             *)
THEOREM ImplementsOutbox == Spec => IsOutbox
<1>1. Init => Out!Init
  <2>1. ASSUME Init PROVE Held = {}
    BY <2>1 DEF Init, Held, Entries, Flushers
  <2> QED
    BY <2>1 DEF Init, Out!Init, Flushers
<1> QED
  BY <1>1, OutboxStep, SinkAlways, DoneAlways, PTL DEF Spec, IsOutbox, Out!Spec

-----------------------------------------------------------------------------
(* The state emitter, the other way from a tenant to the control plane, which
   EmitterBounds parameterises: any number of changes and of attempts, with and
   without debouncing, whatever the control plane does.                    *)

CONSTANTS MaxChanges, MaxAttempts, Debounced
VARIABLES reliable, tenant, notifying, notify, done, spot, held, attempt, gaveUp, tardy, received
Emitter == INSTANCE StateEmitter
           WITH state <- tenant, pc <- spot, dropped <- gaveUp, late <- tardy

EmitterBounds == MaxChanges \in Nat /\ MaxAttempts \in Nat \ {0} /\ Debounced \in BOOLEAN

(* The owner is idle until it tears the emitter down, and only then is done
   closed; an emitter that is not putting has put the last snapshot it built. *)
EmitterPutInv ==
    /\ spot["run"] \in {"select", "collect", "build", "put", "exited"}
    /\ spot["owner"] \in {"idle", "build", "put", "stop", "wait", "stopped"}
    /\ spot["owner"] = "idle" => ~done
    /\ reliable => tardy = {}
    /\ reliable /\ spot["owner"] = "idle" /\ spot["run"] # "put"
       => received = held["run"]

EmitterInv == EmitterBounds /\ Emitter!TypeOK /\ EmitterPutInv /\ Emitter!NoChangeMissed

LEMMA EmitterInitially == EmitterBounds /\ Emitter!Init => EmitterInv
<1> SUFFICES ASSUME EmitterBounds, Emitter!Init PROVE EmitterInv
  OBVIOUS
<1> USE DEF EmitterBounds, Emitter!Init, Emitter!Senders, Emitter!States
<1>1. 0 \in 0..MaxChanges /\ 1 \in 1..MaxAttempts
  OBVIOUS
<1>2. Emitter!TypeOK
  BY <1>1 DEF Emitter!TypeOK
<1>3. EmitterPutInv
  BY DEF EmitterPutInv
<1>4. Emitter!NoChangeMissed
  BY DEF Emitter!NoChangeMissed
<1> QED
  BY <1>2, <1>3, <1>4 DEF EmitterInv

(* Another attempt, or giving up, leaves all but the late requests in order. *)
LEMMA EmitterRetryStep ==
    ASSUME NEW f \in Emitter!Senders, EmitterInv, Emitter!Retry(f),
           tardy' \subseteq tardy \cup {<<f, attempt[f], held[f]>>}
    PROVE  EmitterInv'
<1> USE DEF EmitterInv, EmitterBounds
<1>1. /\ spot[f] = "put" /\ ~reliable
      /\ UNCHANGED <<reliable, tenant, notifying, notify, done, held, received>>
      /\ \/ /\ attempt[f] < MaxAttempts
            /\ attempt' = [attempt EXCEPT ![f] = attempt[f] + 1]
            /\ UNCHANGED <<spot, gaveUp>>
         \/ /\ spot' = [spot EXCEPT ![f] = Emitter!After(f)]
            /\ gaveUp' = IF f = "run" THEN TRUE ELSE gaveUp
            /\ UNCHANGED attempt
  BY DEF Emitter!Retry, Emitter!GoTo, Emitter!connectorVars
<1>2. attempt[f] \in 1..MaxAttempts /\ held[f] \in Emitter!States
  BY DEF Emitter!TypeOK
<1>3. attempt' \in [Emitter!Senders -> 1..MaxAttempts]
  <2>1. attempt[f] < MaxAttempts => attempt[f] + 1 \in 1..MaxAttempts
    BY <1>2
  <2> QED
    BY <1>1, <2>1 DEF Emitter!TypeOK
<1>4. tardy' \subseteq Emitter!Senders \X (1..MaxAttempts) \X Emitter!States
  BY <1>2 DEF Emitter!TypeOK
<1>5. gaveUp' \in BOOLEAN
  BY <1>1 DEF Emitter!TypeOK
<1>6. /\ spot' \in [Emitter!Senders -> {"select", "collect", "build", "put", "exited",
                              "idle", "stop", "wait", "stopped"}]
      /\ spot'[f] \in {spot[f], Emitter!After(f)}
      /\ \A g \in Emitter!Senders \ {f} : spot'[g] = spot[g]
  BY <1>1 DEF Emitter!TypeOK, Emitter!After
<1>7. Emitter!TypeOK'
  BY <1>1, <1>3, <1>4, <1>5, <1>6 DEF Emitter!TypeOK
<1>8. EmitterPutInv'
  BY <1>1, <1>6 DEF EmitterPutInv, Emitter!After, Emitter!Senders
<1>9. Emitter!NoChangeMissed'
  BY <1>1, <1>6 DEF Emitter!NoChangeMissed, Emitter!ChangePending, Emitter!After, Emitter!Senders
<1> QED
  BY <1>7, <1>8, <1>9

(* Every step keeps the invariant.                                         *)
LEMMA EmitterStep == EmitterInv /\ [Emitter!Next]_(Emitter!vars) => EmitterInv'
<1> SUFFICES ASSUME EmitterInv, [Emitter!Next]_(Emitter!vars) PROVE EmitterInv'
  OBVIOUS
<1> USE DEF EmitterInv, EmitterBounds, Emitter!TypeOK, EmitterPutInv, Emitter!NoChangeMissed,
            Emitter!ChangePending, Emitter!Senders, Emitter!States, Emitter!GoTo,
            Emitter!connectorVars, Emitter!sendVars
<1>0. CASE UNCHANGED Emitter!vars
  BY <1>0 DEF Emitter!vars
<1>1. CASE Emitter!Change
  BY <1>1 DEF Emitter!Change
<1>2. CASE Emitter!NotifyChange
  BY <1>2 DEF Emitter!NotifyChange
<1>3. CASE Emitter!RunReturns
  BY <1>3 DEF Emitter!RunReturns
<1>4. CASE Emitter!TakeNotify
  <2>1. Emitter!TypeOK'
    BY <1>4 DEF Emitter!TakeNotify
  <2>2. EmitterPutInv'
    BY <1>4 DEF Emitter!TakeNotify
  <2>3. Emitter!NoChangeMissed'
    BY <1>4 DEF Emitter!TakeNotify
  <2> QED
    BY <2>1, <2>2, <2>3
<1>5. CASE Emitter!CollectMore
  <2>1. Emitter!TypeOK'
    BY <1>5 DEF Emitter!CollectMore
  <2>2. EmitterPutInv'
    BY <1>5 DEF Emitter!CollectMore
  <2>3. Emitter!NoChangeMissed'
    BY <1>5 DEF Emitter!CollectMore
  <2> QED
    BY <2>1, <2>2, <2>3
<1>6. CASE Emitter!CollectTimer
  BY <1>6 DEF Emitter!CollectTimer
<1>7. ASSUME NEW f \in Emitter!Senders, Emitter!Build(f) PROVE EmitterInv'
  BY <1>7 DEF Emitter!Build
<1>8. ASSUME NEW f \in Emitter!Senders, Emitter!PutStored(f) PROVE EmitterInv'
  BY <1>8 DEF Emitter!PutStored, Emitter!After
<1>9. ASSUME NEW f \in Emitter!Senders, Emitter!PutFails(f) PROVE EmitterInv'
  BY <1>9, EmitterRetryStep DEF Emitter!PutFails
<1>10. ASSUME NEW f \in Emitter!Senders, Emitter!PutTimesOut(f) PROVE EmitterInv'
  BY <1>10, EmitterRetryStep DEF Emitter!PutTimesOut
<1>11. ASSUME NEW f \in Emitter!Senders, Emitter!PutGivenUp(f) PROVE EmitterInv'
  BY <1>11 DEF Emitter!PutGivenUp, Emitter!After
<1>12. ASSUME NEW r \in tardy, Emitter!StoredLate(r) PROVE EmitterInv'
  BY <1>12 DEF Emitter!StoredLate
<1>13. CASE Emitter!Teardown
  BY <1>13 DEF Emitter!Teardown
<1>14. CASE Emitter!Stop
  BY <1>14 DEF Emitter!Stop
<1>15. CASE Emitter!StopReturns
  BY <1>15 DEF Emitter!StopReturns
<1> QED
  BY <1>0, <1>1, <1>2, <1>3, <1>4, <1>5, <1>6, <1>7, <1>8, <1>9, <1>10, <1>11, <1>12,
     <1>13, <1>14, <1>15 DEF Emitter!Next, Emitter!Send

LEMMA EmitterAlways == EmitterBounds /\ Emitter!Spec => []EmitterInv
BY EmitterInitially, EmitterStep, PTL DEF Emitter!Spec

(* Every variable of the emitter keeps its type.                           *)
THEOREM EmitterTypeCorrect == EmitterBounds /\ Emitter!Spec => []Emitter!TypeOK
<1>1. EmitterInv => Emitter!TypeOK
  BY DEF EmitterInv
<1> QED
  BY <1>1, EmitterAlways, PTL

(* No change of the state goes without a snapshot that shows it.           *)
THEOREM NoChangeMissedHolds == EmitterBounds /\ Emitter!Spec => []Emitter!NoChangeMissed
<1>1. EmitterInv => Emitter!NoChangeMissed
  BY DEF EmitterInv
<1> QED
  BY <1>1, EmitterAlways, PTL

(* With a control plane that answers, rest means the state is shown.       *)
THEOREM AtRestIsCurrentHolds == EmitterBounds /\ Emitter!Spec => []Emitter!AtRestIsCurrent
<1>1. EmitterInv => Emitter!AtRestIsCurrent
  BY DEF EmitterInv, EmitterPutInv, Emitter!NoChangeMissed, Emitter!AtRestIsCurrent
<1> QED
  BY <1>1, EmitterAlways, PTL

-----------------------------------------------------------------------------
(* The chat of one agent (ChatAgent): the web chat's messages, their echoes and
   their answers.                                                          *)

USE LoopAssumption, CapsAssumption, BoundsAssumption

(* A session in the room hears what is cast, until its socket is closed.   *)
Hears ==
    \A p \in Poster : socket[p] = "open" =>
       Kind = "web" /\ (place[p] \in {"ready", "echo", "push"} => p \in clients)

(* Who carries a message wrote it; until it was echoed nobody has it.      *)
Unknown(n) ==
    /\ \A i \in 1..Len(inbox) : inbox[i] # n
    /\ drain \in {"handle", "send"} => current # n
    /\ answer[n] = "none"

Carried ==
    \A p \in Poster :
       /\ place[p] \in {"echo", "push"} => carries[p] \in Msg /\ author[carries[p]] = p
       /\ place[p] = "echo" => Unknown(carries[p])

(* A message is about to be echoed, was, or its author hears nothing more. *)
Heard(n) ==
    \/ place[author[n]] = "echo" /\ carries[author[n]] = n
    \/ <<"question", n>> \in frames[author[n]]
    \/ socket[author[n]] # "open"

Written == \A n \in Msg : place[author[n]] \notin {"away", "open"} /\ Heard(n)

Handling == drain \in {"handle", "send"} => current \in Msg

EchoInv == Hears /\ Carried /\ Written /\ Handling /\ QuestionComesFirst


(* A function on 1..n, made longer.                                        *)
LEMMA OneMore ==
    ASSUME NEW n \in Nat, NEW S, NEW f \in [1..n -> S], NEW x \in S
    PROVE  /\ Append(f, x) \in [1..n + 1 -> S] /\ Append(f, x)[n + 1] = x
           /\ \A i \in 1..n : Append(f, x)[i] = f[i]
<1>1. f \in Seq(S)
  BY SeqDef
<1>2. Len(f) = n
  BY <1>1, LenProperties
<1>3. /\ Append(f, x) \in Seq(S) /\ Len(Append(f, x)) = n + 1 /\ Append(f, x)[n + 1] = x
      /\ \A i \in 1..n : Append(f, x)[i] = f[i]
  BY <1>1, <1>2, AppendProperties
<1>4. Append(f, x) \in [1..n + 1 -> S]
  BY <1>3, LenProperties
<1> QED BY <1>3, <1>4

(* A ring that drops its oldest.                                           *)
LEMMA RingKept ==
    ASSUME NEW S, NEW ring \in Seq(S), NEW x \in S, NEW cap \in Nat \ {0}, Len(ring) <= cap
    PROVE  LET more == Append(ring, x)
               kept == IF Len(more) > cap THEN Tail(more) ELSE more
           IN kept \in Seq(S) /\ Len(kept) <= cap
OBVIOUS

(* The types, in two parts.                                                *)
LifeOK ==
    /\ bounds \in Bounds
    /\ agent \in {"starting", "running", "stopping", "returned", "failed"}
    /\ cancelled \in BOOLEAN
    /\ run \in {"start", "dial", "reopen", "opened", "installed", "select", "woken", "ended"}
    /\ link \in BOOLEAN /\ token \in BOOLEAN /\ suspended \in BOOLEAN
    /\ state \in {"connecting", "connected", "suspended", "error"}
    /\ ctl \in {"idle", "disconnect", "signal", "publish", "announce", "wake"}
    /\ presses \in Nat /\ closed \in BOOLEAN

MessagesOK ==
    /\ drain \in {"none", "select", "handle", "send", "ended"} /\ current \in 0..said
    /\ place \in [Poster -> {"away", "open", "ready", "echo", "push", "leaving", "gone"}]
    /\ said \in Nat /\ carries \in [Poster -> 0..said] /\ author \in [1..said -> Poster]
    /\ inbox \in Seq(1..said) /\ Len(inbox) <= InboxCap
    /\ refRing \in Seq(1..said) /\ Len(refRing) <= replyRefCap
    /\ clients \subseteq Poster /\ socket \in [Poster -> {"none", "open", "closed"}]
    /\ frames \in [Poster -> SUBSET (Frame \X (1..said))]
    /\ answer \in [1..said -> {"none", "due", "streaming", "ended"}]

LEMMA TypesAre == ChatTypeOK <=> LifeOK /\ MessagesOK
BY Zenon DEF ChatTypeOK, LifeOK, MessagesOK, Msg

ChatInv == LifeOK /\ MessagesOK /\ EchoInv

LEMMA ChatInitially == ChatInit => ChatInv
<1> SUFFICES ASSUME ChatInit PROVE ChatInv
  OBVIOUS
<1> USE DEF ChatInit, Msg
<1>1. 1..0 = {} /\ bounds.suspended \in BOOLEAN
  OBVIOUS
<1>2. author \in [1..said -> Poster] /\ said = 0
  BY <1>1
<1>3. answer \in [1..said -> {"none", "due", "streaming", "ended"}]
  BY <1>1
<1>4. inbox \in Seq(1..said) /\ refRing \in Seq(1..said) /\ Len(inbox) = 0 /\ Len(refRing) = 0
  OBVIOUS
<1>5. LifeOK
  BY <1>1 DEF LifeOK
<1>7. MessagesOK
  BY <1>2, <1>3, <1>4 DEF MessagesOK
<1>6. EchoInv
  BY <1>1 DEF EchoInv, Hears, Carried, Written, Handling, QuestionComesFirst
<1> QED BY <1>5, <1>6, <1>7 DEF ChatInv

(* Nothing of the messages is touched.                                     *)
LEMMA EchoStays ==
    ASSUME EchoInv, bounds' = bounds,
           UNCHANGED <<place, carries, said, author, clients, socket, frames, answer>>,
           UNCHANGED <<drain, current, inbox, refRing>>
    PROVE  EchoInv' /\ (MessagesOK => MessagesOK')
BY DEF Kind, MessagesOK, EchoInv, Hears, Carried, Unknown, Written, Heard, Handling,
       QuestionComesFirst, Msg

-----------------------------------------------------------------------------
(* Start, Run, Suspend and Resume leave the messages alone.                *)

LEMMA ConnectingKeepsChat ==
    ASSUME ChatInv, Connecting \/ RunFails PROVE ChatInv'
<1> USE DEF ChatInv, runRest, postVars, webVars, agentVars
<1>1. /\ UNCHANGED <<place, carries, said, author, clients, socket, frames, answer>>
      /\ UNCHANGED <<drain, current, inbox, refRing>>
      /\ UNCHANGED <<bounds, suspended, ctl, presses, closed>>
      /\ agent' \in {agent, "running", "failed"}
      /\ cancelled' = cancelled \/ cancelled' = TRUE
      /\ run' \in {"dial", "reopen", "opened", "installed", "select", "woken", "ended"}
      /\ link' = link \/ link' = TRUE \/ link' = FALSE
      /\ token' = token \/ token' = FALSE
      /\ state' \in {state, "connected", "suspended", "error"}
  BY DEF Connecting, RunFails, StartQuietly, Connect, Dialled,
         ConnectFails, Reopened, Install, Connected, Wake, Park,
         RunEnds
<1>2. /\ cancelled' \in BOOLEAN /\ link' \in BOOLEAN /\ token' \in BOOLEAN
      /\ suspended' \in BOOLEAN /\ closed' \in BOOLEAN
  BY Zenon, <1>1 DEF LifeOK
<1>3. LifeOK'
  BY <1>1, <1>2 DEF LifeOK
<1> QED BY <1>1, <1>3, EchoStays

LEMMA ControlKeepsChat ==
    ASSUME ChatInv, Press \/ Control PROVE ChatInv'
<1> USE DEF ChatInv, ctlRest, postVars, webVars, agentVars
<1>1. /\ UNCHANGED <<place, carries, said, author, clients, socket, frames, answer>>
      /\ UNCHANGED <<drain, current, inbox, refRing>>
      /\ UNCHANGED <<bounds, agent, cancelled, run, closed>>
      /\ link' = link \/ link' = FALSE
      /\ token' = token \/ token' = TRUE
      /\ suspended' = suspended \/ suspended' = ~suspended
      /\ presses' \in {presses, presses + 1}
      /\ state' \in {state, "connecting", "connected", "suspended"}
      /\ ctl' \in {"idle", "disconnect", "signal", "publish", "announce", "wake"}
  BY DEF Press, Control, Disconnect, Announce, SignalLifecycle,
         PublishState
<1>2. presses' \in Nat
  BY <1>1 DEF LifeOK
<1>5. link' \in BOOLEAN /\ token' \in BOOLEAN
  BY Zenon, <1>1 DEF LifeOK
<1>4. suspended' \in BOOLEAN /\ cancelled' \in BOOLEAN /\ closed' \in BOOLEAN
  BY <1>1 DEF LifeOK
<1>3. LifeOK'
  BY <1>1, <1>2, <1>4, <1>5 DEF LifeOK
<1> QED BY <1>1, <1>3, EchoStays

-----------------------------------------------------------------------------
(* Sessions come and go.                                                   *)

LifeVars == <<bounds, run, link, token, suspended, state, ctl, presses>>

LEMMA JoiningKeepsChat ==
    ASSUME ChatInv, NEW p \in Poster, Upgrade(p) \/ Join(p)
    PROVE  ChatInv'
<1> USE DEF ChatInv, postRest, lifeVars, agentVars
<1>1. /\ place[p] \in {"away", "open"}
      /\ UNCHANGED <<carries, said, author, frames, answer, drain, current, inbox, refRing>>
      /\ UNCHANGED <<LifeVars, agent, cancelled, closed>>
      /\ \/ /\ place' = [place EXCEPT ![p] = "open"] /\ place[p] = "away"
            /\ socket' = [socket EXCEPT ![p] = "open"] /\ clients' = clients /\ Kind = "web"
         \/ /\ place' = [place EXCEPT ![p] = "gone"]
            /\ socket' = [socket EXCEPT ![p] = "closed"] /\ clients' = clients
         \/ /\ place' = [place EXCEPT ![p] = "ready"]
            /\ socket' = socket /\ clients' = clients \cup {p}
  BY DEF Upgrade, Join, LifeVars
<1>2. LifeOK'
  BY <1>1 DEF LifeOK, LifeVars
<1>3. MessagesOK'
  BY <1>1 DEF MessagesOK
<1>9. Kind' = Kind
  BY <1>1 DEF LifeVars, Kind
<1>4. /\ \A q \in Poster \ {p} : place'[q] = place[q] /\ socket'[q] = socket[q]
      /\ socket'[p] = "open" => socket[p] = "open" \/ Kind = "web"
      /\ place'[p] \in {"open", "gone", "ready"} /\ (place'[p] = "ready" => p \in clients')
      /\ place'[p] = "open" => place[p] = "away"
      /\ clients \subseteq clients'
  BY <1>1 DEF MessagesOK
<1>5. Hears'
  BY <1>4, <1>9 DEF EchoInv, Hears
<1>6. \A n \in Msg : author[n] # p /\ author[n] \in Poster
  BY <1>1 DEF EchoInv, Written, MessagesOK, Msg
<1>7. Written'
  BY <1>1, <1>4, <1>6 DEF EchoInv, Written, Heard, Msg
<1>8. Carried' /\ Handling' /\ QuestionComesFirst'
  BY <1>1, <1>4 DEF EchoInv, Carried, Unknown, Handling, QuestionComesFirst, Msg
<1> QED BY <1>2, <1>3, <1>5, <1>7, <1>8 DEF EchoInv

LEMMA LeavingKeepsChat ==
    ASSUME ChatInv, NEW p \in Poster, Leave(p) \/ HangUp(p) \/ PushAbandoned(p)
    PROVE  ChatInv'
<1> USE DEF ChatInv, postRest, lifeVars, agentVars, postVars, webVars
<1>1. /\ UNCHANGED <<said, author, frames, answer, drain, current, inbox, refRing>>
      /\ UNCHANGED <<LifeVars, agent, cancelled, closed>>
      /\ \/ /\ place' = [place EXCEPT ![p] = "gone"] /\ place[p] = "ready" /\ socket[p] = "closed"
            /\ socket' = socket /\ clients' = clients \ {p} /\ carries' = carries
         \/ /\ socket' = [socket EXCEPT ![p] = "closed"] /\ place' = place /\ clients' = clients
            /\ carries' = carries
         \/ /\ place' = [place EXCEPT ![p] = "ready"] /\ place[p] = "push" /\ socket' = socket
            /\ clients' = clients /\ carries' = [carries EXCEPT ![p] = 0]
  BY DEF Leave, HangUp, PushAbandoned, LifeVars
<1>2. LifeOK'
  BY <1>1 DEF LifeOK, LifeVars
<1>3. MessagesOK'
  <2>1. carries' \in [Poster -> 0..said]
    <3>1. carries \in [Poster -> 0..said] /\ 0 \in 0..said
      BY DEF MessagesOK
    <3> QED BY <1>1, <3>1
  <2>2. /\ place' \in [Poster -> {"away", "open", "ready", "echo", "push", "leaving", "gone"}]
        /\ socket' \in [Poster -> {"none", "open", "closed"}] /\ clients' \subseteq Poster
    BY <1>1 DEF MessagesOK
  <2> QED BY <1>1, <2>1, <2>2 DEF MessagesOK
<1>4. /\ \A q \in Poster : /\ socket'[q] = "open" => socket[q] = "open"
                           /\ place'[q] = place[q] \/ place[q] \in {"ready", "push"}
                           /\ place'[q] \in {place[q], "ready", "gone"}
                           /\ carries'[q] = carries[q] \/ place'[q] = "ready"
      /\ \A q \in Poster : q \in clients /\ socket[q] = "open" => q \in clients'
  BY <1>1 DEF MessagesOK
<1>5. Hears'
  BY <1>1, <1>4 DEF EchoInv, Hears, Kind, LifeVars
<1>6. \A n \in Msg : author[n] \in Poster
  BY DEF MessagesOK, Msg
<1>7. ASSUME NEW n \in Msg
      PROVE  place'[author[n]] \notin {"away", "open"} /\ Heard(n)'
  <2>1. place[author[n]] \notin {"away", "open"} /\ Heard(n)
    BY DEF EchoInv, Written
  <2> QED BY <1>1, <1>4, <1>6, <2>1 DEF Heard
<1>8. Written'
  BY <1>1, <1>7 DEF Written, Msg
<1>9. Carried' /\ Handling' /\ QuestionComesFirst'
  BY <1>1, <1>4 DEF EchoInv, Carried, Unknown, Handling, QuestionComesFirst, Msg
<1> QED BY <1>2, <1>3, <1>5, <1>8, <1>9 DEF EchoInv

(* A new message is known to nobody but who wrote it.                      *)
LEMMA IngestKeepsChat ==
    ASSUME ChatInv, NEW p \in Poster, Ingest(p)
    PROVE  ChatInv'
<1> USE DEF ChatInv, postRest, lifeVars, agentVars
<1> DEFINE n == said + 1
<1>1. /\ place[p] = "ready" /\ said' = n
      /\ author' = Append(author, p) /\ answer' = Append(answer, "none")
      /\ carries' = [carries EXCEPT ![p] = n]
      /\ \/ place' = [place EXCEPT ![p] = "echo"] /\ Kind = "web"
         \/ place' = [place EXCEPT ![p] = "push"] /\ Kind # "web"
      /\ refRing' \in {refRing, Remembered(n)}
      /\ UNCHANGED <<inbox, clients, socket, frames, drain, current>>
      /\ UNCHANGED <<LifeVars, agent, cancelled, closed>>
  BY DEF Ingest, LifeVars
<1>2. LifeOK'
  BY <1>1 DEF LifeOK, LifeVars
<1>3. said \in Nat /\ n \in Nat /\ 1..said \subseteq 1..n /\ n \in 1..n /\ n \notin 1..said
  BY DEF MessagesOK
<1>4. /\ author' \in [1..n -> Poster] /\ author'[n] = p
      /\ \A i \in 1..said : author'[i] = author[i]
  <2>1. author \in [1..said -> Poster]
    BY DEF MessagesOK
  <2>2. \A S : \A f \in [1..said -> S], x \in S :
           /\ Append(f, x) \in [1..said + 1 -> S] /\ Append(f, x)[said + 1] = x
           /\ \A i \in 1..said : Append(f, x)[i] = f[i]
    BY <1>3, OneMore
  <2>3. \A f \in [1..said -> Poster], x \in Poster :
           /\ Append(f, x) \in [1..said + 1 -> Poster] /\ Append(f, x)[said + 1] = x
           /\ \A i \in 1..said : Append(f, x)[i] = f[i]
    BY <2>2
  <2>4. /\ Append(author, p) \in [1..said + 1 -> Poster] /\ Append(author, p)[said + 1] = p
        /\ \A i \in 1..said : Append(author, p)[i] = author[i]
    BY <2>1, <2>3
  <2> QED BY <1>1, <2>4
<1>5. /\ answer' \in [1..n -> {"none", "due", "streaming", "ended"}] /\ answer'[n] = "none"
      /\ \A i \in 1..said : answer'[i] = answer[i]
  <2> DEFINE Stage == {"none", "due", "streaming", "ended"}
  <2>1. answer \in [1..said -> Stage] /\ "none" \in Stage
    BY DEF MessagesOK
  <2> HIDE DEF Stage
  <2>2. \A S : \A f \in [1..said -> S], x \in S :
           /\ Append(f, x) \in [1..said + 1 -> S] /\ Append(f, x)[said + 1] = x
           /\ \A i \in 1..said : Append(f, x)[i] = f[i]
    BY <1>3, OneMore
  <2>3. \A f \in [1..said -> Stage], x \in Stage :
           /\ Append(f, x) \in [1..said + 1 -> Stage] /\ Append(f, x)[said + 1] = x
           /\ \A i \in 1..said : Append(f, x)[i] = f[i]
    BY <2>2
  <2>4. /\ Append(answer, "none") \in [1..said + 1 -> Stage]
        /\ Append(answer, "none")[said + 1] = "none"
        /\ \A i \in 1..said : Append(answer, "none")[i] = answer[i]
    BY <2>1, <2>3
  <2> QED BY <1>1, <2>4 DEF Stage
<1>6. inbox \in Seq(1..n) /\ \A i \in 1..Len(inbox) : inbox[i] \in 1..said
  BY <1>3, SeqMonotonic, ElementOfSeq DEF MessagesOK
<1>7. refRing' \in Seq(1..n) /\ Len(refRing') <= replyRefCap
  <2>1. refRing \in Seq(1..n) /\ Len(refRing) <= replyRefCap
    BY <1>3, SeqMonotonic DEF MessagesOK
  <2>2. CASE refRing' = refRing
    BY <2>1, <2>2, Zenon
  <2>3. CASE refRing' = Remembered(n)
    BY <1>3, <2>1, <2>3, RingKept DEF Remembered
  <2> QED BY <1>1, <2>2, <2>3
<1>8. /\ place' \in [Poster -> {"away", "open", "ready", "echo", "push", "leaving", "gone"}]
      /\ carries' \in [Poster -> 0..n] /\ current \in 0..n
      /\ \A q \in Poster \ {p} : place'[q] = place[q] /\ carries'[q] = carries[q]
      /\ carries'[p] = n /\ place'[p] \in {"echo", "push"}
  <2>1. /\ carries \in [Poster -> 0..said] /\ current \in 0..said
        /\ place \in [Poster -> {"away", "open", "ready", "echo", "push", "leaving", "gone"}]
    BY DEF MessagesOK
  <2>2. 0..said \subseteq 0..n /\ n \in 0..n
    BY <1>3
  <2>3. /\ carries' \in [Poster -> 0..n] /\ current \in 0..n /\ carries'[p] = n
        /\ \A q \in Poster \ {p} : carries'[q] = carries[q]
    BY <1>1, <2>1, <2>2
  <2>4. /\ place' \in [Poster -> {"away", "open", "ready", "echo", "push", "leaving", "gone"}]
        /\ \A q \in Poster \ {p} : place'[q] = place[q]
        /\ place'[p] \in {"echo", "push"}
    BY <1>1, <2>1
  <2> QED BY <2>3, <2>4
<1>9. frames' \in [Poster -> SUBSET (Frame \X (1..n))]
  BY <1>1, <1>3 DEF MessagesOK
<1>10. MessagesOK'
  BY <1>1, <1>3, <1>4, <1>5, <1>6, <1>7, <1>8, <1>9 DEF MessagesOK
<1>11. Hears'
  BY <1>1, <1>8 DEF EchoInv, Hears, Kind, LifeVars
<1>12. Handling'
  BY <1>1, <1>3 DEF EchoInv, Handling, Msg
<1>13. ASSUME NEW m \in {n}
       PROVE  Unknown(m)'
  BY <1>1, <1>3, <1>5, <1>6, <1>13 DEF EchoInv, Unknown, Handling, Msg
<1>14. ASSUME NEW q \in Poster
       PROVE  /\ place'[q] \in {"echo", "push"} => carries'[q] \in 1..n /\ author'[carries'[q]] = q
              /\ place'[q] = "echo" => Unknown(carries[q])'
  <2>1. CASE q = p
    BY <1>3, <1>4, <1>8, <1>13, <2>1
  <2>2. CASE q # p
    <3>1. /\ place'[q] = place[q] /\ carries'[q] = carries[q]
          /\ place[q] \in {"echo", "push"} => carries[q] \in 1..said /\ author[carries[q]] = q
          /\ place[q] = "echo" => Unknown(carries[q])
      BY <1>8, <2>2 DEF EchoInv, Carried, Msg
    <3>2. ASSUME NEW m \in 1..said, Unknown(m) PROVE Unknown(m)'
      BY <1>1, <1>5, <3>2 DEF Unknown
    <3>3. place[q] = "echo" => Unknown(carries[q])'
      BY <1>1, <3>1, <3>2
    <3> QED BY <1>3, <1>4, <3>1, <3>3
  <2> QED BY <2>1, <2>2
<1>18. Carried'
  BY <1>1, <1>14 DEF Carried, Msg
<1>15. ASSUME NEW m \in 1..n
       PROVE  place'[author'[m]] \notin {"away", "open"} /\ Heard(m)'
  <2>1. CASE m = n
    <3>1. CASE place'[p] = "echo"
      BY <1>4, <1>8, <2>1, <3>1 DEF Heard
    <3>2. CASE place'[p] = "push"
      <4>1. Kind # "web"
        BY <1>1, <1>8, <3>2 DEF MessagesOK
      <4>2. socket'[p] # "open"
        BY <1>1, <4>1 DEF EchoInv, Hears
      <4> QED BY <1>4, <2>1, <3>2, <4>2 DEF Heard
    <3> QED BY <1>8, <3>1, <3>2
  <2>2. CASE m \in 1..said
    <3>1. /\ place[author[m]] \notin {"away", "open"} /\ Heard(m)
          /\ author'[m] = author[m] /\ author[m] \in Poster
      BY <1>4, <2>2 DEF EchoInv, Written, Msg, MessagesOK
    <3> QED BY <1>1, <1>8, <3>1 DEF Heard
  <2> QED BY <1>3, <2>1, <2>2
<1>16. Written'
  BY <1>1, <1>15 DEF Written, Msg
<1>17. QuestionComesFirst'
  <2>1. ASSUME NEW m \in 1..n, NEW what \in {"start", "end", "reply"},
               <<what, m>> \in frames[author'[m]]
        PROVE  <<"question", m>> \in frames[author'[m]]
    <3>1. m \in 1..said
      BY <1>4, <2>1 DEF MessagesOK
    <3> QED BY <1>4, <2>1, <3>1 DEF EchoInv, QuestionComesFirst, Msg
  <2> QED BY <1>1, <2>1 DEF QuestionComesFirst, Msg
<1> QED BY <1>2, <1>10, <1>11, <1>12, <1>18, <1>16, <1>17 DEF EchoInv

-----------------------------------------------------------------------------
(* What is cast to the room.                                               *)

(* A cast reaches whoever hears, and drops whoever does not.               *)
LEMMA CastReaches ==
    ASSUME MessagesOK, NEW what \in Frame, NEW n \in Msg, Casts(what, n)
    PROVE  /\ clients' \subseteq clients /\ \A p \in clients : socket[p] = "open" => p \in clients'
           /\ frames' \in [Poster -> SUBSET (Frame \X (1..said))]
           /\ \A p \in Poster :
                 /\ p \in clients /\ socket[p] = "open"
                    => frames'[p] = frames[p] \cup {<<what, n>>}
                 /\ ~(p \in clients /\ socket[p] = "open") => frames'[p] = frames[p]
<1>1. frames \in [Poster -> SUBSET (Frame \X (1..said))]
      /\ <<what, n>> \in Frame \X (1..said)
  BY DEF MessagesOK, Msg
<1> QED BY <1>1 DEF Casts, Reached

LEMMA EchoKeepsChat ==
    ASSUME ChatInv, NEW p \in Poster, Echo(p)
    PROVE  ChatInv'
<1> USE DEF ChatInv, postRest, lifeVars, agentVars
<1> DEFINE n == carries[p]
<1>1. /\ place[p] = "echo" /\ place' = [place EXCEPT ![p] = "push"] /\ Casts("question", n)
      /\ UNCHANGED <<carries, said, author, answer, drain, current, inbox, refRing, socket>>
      /\ UNCHANGED <<LifeVars, agent, cancelled, closed>>
  BY DEF Echo, LifeVars
<1>2. n \in Msg /\ author[n] = p /\ "question" \in Frame
  BY <1>1 DEF EchoInv, Carried, Frame
<1>3. /\ clients' \subseteq clients /\ \A q \in clients : socket[q] = "open" => q \in clients'
      /\ frames' \in [Poster -> SUBSET (Frame \X (1..said))]
      /\ \A q \in Poster :
            /\ q \in clients /\ socket[q] = "open"
               => frames'[q] = frames[q] \cup {<<"question", n>>}
            /\ ~(q \in clients /\ socket[q] = "open") => frames'[q] = frames[q]
  BY <1>1, <1>2, CastReaches
<1>4. /\ place' \in [Poster -> {"away", "open", "ready", "echo", "push", "leaving", "gone"}]
      /\ place'[p] = "push" /\ \A q \in Poster \ {p} : place'[q] = place[q]
      /\ clients \subseteq Poster
  BY <1>1 DEF MessagesOK
<1>5. LifeOK' /\ Kind' = Kind
  BY <1>1 DEF LifeOK, LifeVars, Kind
<1>6. MessagesOK'
  BY <1>1, <1>3, <1>4 DEF MessagesOK
<1>7. Hears'
  BY <1>1, <1>3, <1>4, <1>5 DEF EchoInv, Hears
<1>8. Carried' /\ Handling'
  BY <1>1, <1>4 DEF EchoInv, Carried, Unknown, Handling, Msg
<1>9. ASSUME NEW m \in Msg
      PROVE  place'[author[m]] \notin {"away", "open"} /\ Heard(m)'
  <2>1. place[author[m]] \notin {"away", "open"} /\ Heard(m) /\ author[m] \in Poster
    BY DEF EchoInv, Written, MessagesOK, Msg
  <2>2. place'[author[m]] \notin {"away", "open"}
    BY <1>4, <2>1
  <2>3. CASE m = n /\ socket[p] = "open"
    <3>1. p \in clients
      BY <1>1, <2>3 DEF EchoInv, Hears
    <3> QED BY <1>1, <1>2, <1>3, <2>2, <2>3, <3>1 DEF Heard
  <2>4. CASE m = n /\ socket[p] # "open"
    BY <1>1, <1>2, <2>2, <2>4 DEF Heard
  <2>5. CASE m # n
    <3>1. frames[author[m]] \subseteq frames'[author[m]]
      BY <1>3, <2>1
    <3>2. place[author[m]] = "echo" /\ carries[author[m]] = m => place'[author[m]] = "echo"
      BY <1>4, <2>1, <2>5
    <3> QED BY <1>1, <2>1, <2>2, <3>1, <3>2 DEF Heard
  <2> QED BY <2>3, <2>4, <2>5
<1>10. Written'
  BY <1>1, <1>9 DEF Written, Msg
<1>11. QuestionComesFirst'
  <2>1. ASSUME NEW m \in Msg, NEW what \in {"start", "end", "reply"},
               <<what, m>> \in frames'[author[m]]
        PROVE  <<"question", m>> \in frames'[author[m]]
    <3>1. author[m] \in Poster /\ what # "question"
      BY DEF MessagesOK, Msg
    <3>2. <<what, m>> \in frames[author[m]] /\ frames[author[m]] \subseteq frames'[author[m]]
      BY <1>3, <2>1, <3>1
    <3> QED BY <3>2 DEF EchoInv, QuestionComesFirst
  <2> QED BY <1>1, <2>1 DEF QuestionComesFirst, Msg
<1> QED BY <1>5, <1>6, <1>7, <1>8, <1>10, <1>11 DEF EchoInv

(* What follows a question is cast when its author has it, or hears no more. *)
LEMMA CastKeepsOrder ==
    ASSUME ChatInv, NEW what \in {"start", "end", "reply"}, NEW n \in Msg,
           Casts(what, n), ~Unknown(n),
           UNCHANGED <<bounds, place, carries, said, author, inbox, socket>>
    PROVE  /\ frames' \in [Poster -> SUBSET (Frame \X (1..said))] /\ clients' \subseteq Poster
           /\ Hears' /\ Written' /\ QuestionComesFirst'
<1> USE DEF ChatInv
<1>1. what \in Frame
  BY DEF Frame
<1>2. /\ clients' \subseteq clients /\ \A q \in clients : socket[q] = "open" => q \in clients'
      /\ frames' \in [Poster -> SUBSET (Frame \X (1..said))]
      /\ \A q \in Poster :
            /\ q \in clients /\ socket[q] = "open" => frames'[q] = frames[q] \cup {<<what, n>>}
            /\ ~(q \in clients /\ socket[q] = "open") => frames'[q] = frames[q]
  BY <1>1, CastReaches
<1>3. \A m \in Msg : author[m] \in Poster
  BY DEF MessagesOK, Msg
<1>4. Hears'
  BY <1>2 DEF EchoInv, Hears, Kind
<1>5. ASSUME NEW m \in Msg
      PROVE  place'[author[m]] \notin {"away", "open"} /\ Heard(m)'
  <2>1. place[author[m]] \notin {"away", "open"} /\ Heard(m)
    BY DEF EchoInv, Written
  <2>2. frames[author[m]] \subseteq frames'[author[m]]
    BY <1>2, <1>3
  <2> QED BY <2>1, <2>2 DEF Heard
<1>6. Written'
  BY <1>5 DEF Written, Msg
<1>7. socket[author[n]] = "open" => <<"question", n>> \in frames[author[n]]
  <2>1. ~(place[author[n]] = "echo" /\ carries[author[n]] = n)
    BY <1>3 DEF EchoInv, Carried
  <2> QED BY <2>1 DEF EchoInv, Written, Heard
<1>8. ASSUME NEW m \in Msg, NEW x \in {"start", "end", "reply"},
             <<x, m>> \in frames'[author[m]]
      PROVE  <<"question", m>> \in frames'[author[m]]
  <2>1. frames[author[m]] \subseteq frames'[author[m]]
    BY <1>2, <1>3
  <2>2. CASE <<x, m>> \in frames[author[m]]
    BY <2>1, <2>2 DEF EchoInv, QuestionComesFirst
  <2>3. CASE <<x, m>> \notin frames[author[m]]
    <3>1. socket[author[m]] = "open" /\ <<x, m>> = <<what, n>>
      BY <1>2, <1>3, <1>8, <2>3
    <3> QED BY <1>7, <2>1, <3>1
  <2> QED BY <2>2, <2>3
<1>9. QuestionComesFirst'
  BY <1>8 DEF QuestionComesFirst, Msg
<1> QED BY <1>2, <1>4, <1>6, <1>9 DEF MessagesOK

(* A message that is in the inbox goes to drain, whose reply is cast.      *)
LEMMA PushKeepsChat ==
    ASSUME ChatInv, NEW p \in Poster, Push(p)
    PROVE  ChatInv'
<1> USE DEF ChatInv, postRest, lifeVars, agentVars
<1> DEFINE n == carries[p]
<1>1. /\ place[p] = "push" /\ Len(inbox) < InboxCap /\ inbox' = Append(inbox, n)
      /\ place' = [place EXCEPT ![p] = "ready"] /\ carries' = [carries EXCEPT ![p] = 0]
      /\ answer' = answer \/ answer' = [answer EXCEPT ![n] = "due"]
      /\ UNCHANGED <<said, author, frames, drain, current, refRing, clients, socket>>
      /\ UNCHANGED <<LifeVars, agent, cancelled, closed>>
  BY DEF Push, LifeVars
<1>2. n \in 1..said /\ author[n] = p
  BY <1>1 DEF EchoInv, Carried, Msg
<1>3. LifeOK' /\ Kind' = Kind
  BY <1>1 DEF LifeOK, LifeVars, Kind
<1>4. /\ inbox' \in Seq(1..said) /\ Len(inbox') <= InboxCap
      /\ \A i \in 1..Len(inbox') : inbox'[i] = n \/ \E j \in 1..Len(inbox) : inbox'[i] = inbox[j]
  <2>1. inbox \in Seq(1..said)
    BY DEF MessagesOK
  <2> QED BY <1>1, <1>2, <2>1
<1>5. /\ answer' \in [1..said -> {"none", "due", "streaming", "ended"}]
      /\ \A m \in 1..said : m # n => answer'[m] = answer[m]
  BY <1>1, <1>2 DEF MessagesOK
<1>6. /\ place' \in [Poster -> {"away", "open", "ready", "echo", "push", "leaving", "gone"}]
      /\ place'[p] = "ready" /\ \A q \in Poster \ {p} : place'[q] = place[q]
  BY <1>1 DEF MessagesOK
<1>7. carries' \in [Poster -> 0..said] /\ \A q \in Poster \ {p} : carries'[q] = carries[q]
  <2>1. carries \in [Poster -> 0..said] /\ 0 \in 0..said
    BY DEF MessagesOK
  <2> QED BY <1>1, <2>1
<1>8. MessagesOK'
  BY <1>1, <1>4, <1>5, <1>6, <1>7 DEF MessagesOK
<1>9. Hears'
  BY <1>1, <1>3, <1>6 DEF EchoInv, Hears
<1>10. ASSUME NEW q \in Poster
       PROVE  /\ place'[q] \in {"echo", "push"}
                 => carries'[q] \in 1..said /\ author[carries'[q]] = q
              /\ place'[q] = "echo" => Unknown(carries[q])'
  <2>1. CASE q = p
    BY <1>6, <2>1
  <2>2. CASE q # p
    <3>1. /\ place'[q] = place[q] /\ carries'[q] = carries[q]
          /\ place[q] \in {"echo", "push"} => carries[q] \in 1..said /\ author[carries[q]] = q
          /\ place[q] = "echo" => Unknown(carries[q])
      BY <1>6, <1>7, <2>2 DEF EchoInv, Carried, Msg
    <3>2. place[q] = "echo" => carries[q] \in 1..said /\ carries[q] # n
      BY <1>2, <2>2, <3>1
    <3>3. place[q] = "echo" => Unknown(carries[q])'
      BY <1>1, <1>4, <1>5, <3>1, <3>2 DEF Unknown
    <3> QED BY <3>1, <3>3
  <2> QED BY <2>1, <2>2
<1>11. Carried' /\ Handling'
  BY <1>1, <1>10 DEF EchoInv, Carried, Handling, Msg
<1>12. ASSUME NEW m \in Msg
       PROVE  place'[author[m]] \notin {"away", "open"} /\ Heard(m)'
  <2>1. place[author[m]] \notin {"away", "open"} /\ Heard(m) /\ author[m] \in Poster
    BY DEF EchoInv, Written, MessagesOK, Msg
  <2> QED BY <1>1, <1>6, <1>7, <2>1 DEF Heard
<1>13. Written'
  BY <1>1, <1>12 DEF Written, Msg
<1>14. QuestionComesFirst'
  BY <1>1 DEF EchoInv, QuestionComesFirst, Msg
<1> QED BY <1>3, <1>8, <1>9, <1>11, <1>13, <1>14 DEF EchoInv

LEMMA AnswersKeepChat ==
    ASSUME ChatInv, NEW n \in Msg,
           AnswerStarts(n) \/ AnswerGoesOn(n) \/ AnswerEnds(n)
    PROVE  ChatInv'
<1> USE DEF ChatInv, postRest, lifeVars, agentVars, postVars
<1>1. /\ UNCHANGED <<place, carries, said, author, drain, current, inbox, refRing, socket>>
      /\ UNCHANGED <<LifeVars, agent, cancelled, closed>>
      /\ answer[n] # "none"
      /\ \/ /\ Casts("start", n) \/ Casts("end", n)
            /\ \E what \in {"streaming", "ended"} : answer' = [answer EXCEPT ![n] = what]
         \/ clients' = Reached /\ frames' = frames /\ answer' = answer
  BY DEF AnswerStarts, AnswerGoesOn, AnswerEnds, LifeVars
<1>2. LifeOK' /\ Kind' = Kind
  BY <1>1 DEF LifeOK, LifeVars, Kind
<1>3. /\ answer' \in [1..said -> {"none", "due", "streaming", "ended"}]
      /\ \A m \in 1..said : answer'[m] = "none" <=> answer[m] = "none"
  BY <1>1 DEF MessagesOK, Msg
<1>4. /\ frames' \in [Poster -> SUBSET (Frame \X (1..said))] /\ clients' \subseteq Poster
      /\ Hears' /\ Written' /\ QuestionComesFirst'
  <2>1. ~Unknown(n)
    BY <1>1 DEF Unknown
  <2>2. CASE Casts("start", n) \/ Casts("end", n)
    BY <1>1, <2>1, <2>2, CastKeepsOrder DEF LifeVars
  <2>3. CASE clients' = Reached /\ frames' = frames
    <3>1. /\ clients' \subseteq Poster /\ frames' \in [Poster -> SUBSET (Frame \X (1..said))]
          /\ \A p \in clients : socket[p] = "open" => p \in clients'
      BY <2>3 DEF Reached, MessagesOK
    <3>2. Hears'
      BY <1>1, <1>2, <3>1 DEF EchoInv, Hears
    <3>3. Written' /\ QuestionComesFirst'
      BY <1>1, <2>3 DEF EchoInv, Written, Heard, QuestionComesFirst, Msg
    <3> QED BY <3>1, <3>2, <3>3
  <2> QED BY <1>1, <2>2, <2>3
<1>5. MessagesOK'
  BY <1>1, <1>3, <1>4 DEF MessagesOK
<1>6. Handling'
  BY <1>1 DEF EchoInv, Handling, Msg
<1>7. ASSUME NEW p \in Poster, place[p] = "echo"
      PROVE  Unknown(carries[p])'
  BY <1>1, <1>3, <1>7 DEF EchoInv, Carried, Unknown, Msg
<1>8. Carried'
  BY <1>1, <1>7 DEF EchoInv, Carried, Msg
<1> QED BY <1>2, <1>4, <1>5, <1>6, <1>8 DEF EchoInv

-----------------------------------------------------------------------------
(* The agent.                                                              *)

LEMMA TakeKeepsChat == ASSUME ChatInv, TakeMessage PROVE ChatInv'
<1> USE DEF ChatInv, agentRest, lifeVars, agentVars, postVars, webVars
<1>1. /\ UNCHANGED <<place, carries, said, author, frames, answer, refRing, clients, socket>>
      /\ UNCHANGED <<LifeVars, agent, cancelled, closed>>
      /\ inbox # <<>> /\ current' = Head(inbox) /\ inbox' = Tail(inbox) /\ drain' = "handle"
  BY DEF TakeMessage, LifeVars
<1>2. LifeOK' /\ Kind' = Kind
  BY <1>1 DEF LifeOK, LifeVars, Kind
<1>3. /\ inbox' \in Seq(1..said) /\ Len(inbox') <= InboxCap /\ current' \in 1..said
      /\ current' = inbox[1] /\ 1 \in 1..Len(inbox)
      /\ \A i \in 1..Len(inbox') : i + 1 \in 1..Len(inbox) /\ inbox'[i] = inbox[i + 1]
  <2>1. inbox \in Seq(1..said) /\ Len(inbox) <= InboxCap /\ InboxCap \in Nat /\ inbox # <<>>
    BY <1>1 DEF MessagesOK
  <2>2. /\ Head(inbox) = inbox[1] /\ 1 \in 1..Len(inbox) /\ Len(Tail(inbox)) = Len(inbox) - 1
        /\ Tail(inbox) \in Seq(1..said)
        /\ \A i \in 1..Len(Tail(inbox)) :
              i + 1 \in 1..Len(inbox) /\ Tail(inbox)[i] = inbox[i + 1]
    BY <2>1
  <2>3. inbox[1] \in 1..said
    BY <2>1, <2>2, ElementOfSeq
  <2> QED BY <1>1, <2>1, <2>2, <2>3
<1>4. MessagesOK'
  <2>1. current' \in 0..said
    BY <1>3
  <2> QED BY <1>1, <1>3, <2>1 DEF MessagesOK
<1>5. Hears' /\ Written' /\ Handling' /\ QuestionComesFirst'
  BY <1>1, <1>2, <1>3
     DEF EchoInv, Hears, Written, Heard, Handling, QuestionComesFirst, Msg
<1>6. ASSUME NEW p \in Poster, place[p] = "echo"
      PROVE  Unknown(carries[p])'
  BY <1>1, <1>3, <1>6 DEF EchoInv, Carried, Unknown
<1>7. Carried'
  BY <1>1, <1>6 DEF EchoInv, Carried, Msg
<1> QED BY <1>2, <1>4, <1>5, <1>7 DEF EchoInv

LEMMA SendKeepsChat == ASSUME ChatInv, Send PROVE ChatInv'
<1> USE DEF ChatInv, agentRest, lifeVars, agentVars, postVars
<1>1. /\ UNCHANGED <<place, carries, said, author, answer, inbox, refRing, socket>>
      /\ UNCHANGED <<LifeVars, agent, cancelled, closed>>
      /\ drain = "send" /\ drain' = "select" /\ current' = 0
      /\ Casts("reply", current) \/ UNCHANGED <<clients, frames>>
  BY DEF Send, LifeVars
<1>2. LifeOK' /\ Kind' = Kind
  BY <1>1 DEF LifeOK, LifeVars, Kind
<1>3. current \in Msg /\ ~Unknown(current)
  BY <1>1 DEF EchoInv, Handling, Unknown
<1>4. /\ frames' \in [Poster -> SUBSET (Frame \X (1..said))] /\ clients' \subseteq Poster
      /\ Hears' /\ Written' /\ QuestionComesFirst'
  <2>1. CASE Casts("reply", current)
    BY <1>1, <1>3, <2>1, CastKeepsOrder DEF LifeVars
  <2>2. CASE UNCHANGED <<clients, frames>>
    BY <1>1, <1>2, <2>2
       DEF EchoInv, Hears, Written, Heard, QuestionComesFirst, Msg, MessagesOK
  <2> QED BY <1>1, <2>1, <2>2
<1>5. MessagesOK'
  BY <1>1, <1>4 DEF MessagesOK
<1>6. Handling' /\ Carried'
  BY <1>1 DEF EchoInv, Handling, Carried, Unknown, Msg
<1> QED BY <1>2, <1>4, <1>5, <1>6 DEF EchoInv

(* drain between two messages, and the end of the group.                   *)
LEMMA DrainingKeepsChat ==
    ASSUME ChatInv, \/ DrainStarts \/ DrainEnds \/ HandledSilently
                    \/ Dispatched \/ GroupEnds \/ Cancel
    PROVE  ChatInv'
<1> USE DEF ChatInv, agentRest, lifeVars, agentVars, postVars, webVars
<1>1. /\ UNCHANGED <<place, carries, said, author, frames, answer, inbox, refRing, clients, socket>>
      /\ UNCHANGED <<LifeVars, closed>>
      /\ agent' \in {agent, "stopping"} /\ (cancelled' = cancelled \/ cancelled' = TRUE)
      /\ \/ drain' = drain /\ current' = current
         \/ drain' \in {"select", "ended"} /\ current' \in {current, 0}
         \/ drain = "handle" /\ drain' = "send" /\ current' = current
  BY DEF DrainStarts, DrainEnds, HandledSilently, Dispatched, GroupEnds,
         Cancel, LifeVars
<1>2. LifeOK' /\ Kind' = Kind
  <2>1. cancelled' \in BOOLEAN
    BY Zenon, <1>1 DEF LifeOK
  <2> QED BY <1>1, <2>1 DEF LifeOK, LifeVars, Kind
<1>3. MessagesOK'
  BY <1>1 DEF MessagesOK
<1>4. Hears' /\ Written' /\ QuestionComesFirst'
  BY <1>1, <1>2 DEF EchoInv, Hears, Written, Heard, QuestionComesFirst, Msg
<1>5. Handling' /\ Carried'
  BY <1>1 DEF EchoInv, Handling, Carried, Unknown, Msg
<1> QED BY <1>2, <1>3, <1>4, <1>5 DEF EchoInv

(* Stop takes everybody out of the room, with his socket.                  *)
LEMMA StopKeepsChat == ASSUME ChatInv, Stop PROVE ChatInv'
<1> USE DEF ChatInv, postVars
<1>1. /\ UNCHANGED <<place, carries, said, author, frames, answer, drain, current, inbox, refRing>>
      /\ UNCHANGED <<bounds, run, token, suspended, state, ctl, presses, cancelled>>
      /\ agent' = "returned" /\ closed' = TRUE /\ (link' = link \/ link' = FALSE)
      /\ clients' = {} /\ socket' = [p \in Poster |-> IF p \in clients THEN "closed" ELSE socket[p]]
  BY DEF Stop, LifeOK
<1>2. LifeOK' /\ Kind' = Kind
  <2>1. link' \in BOOLEAN /\ cancelled' \in BOOLEAN
    BY Zenon, <1>1 DEF LifeOK
  <2> QED BY <1>1, <2>1 DEF LifeOK, Kind
<1>3. MessagesOK'
  BY <1>1 DEF MessagesOK
<1>4. \A p \in Poster : socket'[p] = "open" => socket[p] = "open" /\ p \notin clients
  BY <1>1
<1>5. Hears'
  BY <1>1, <1>2, <1>4 DEF EchoInv, Hears
<1>6. \A n \in Msg : author[n] \in Poster
  BY DEF MessagesOK, Msg
<1>7. Written'
  BY <1>1, <1>4, <1>6 DEF EchoInv, Written, Heard, Msg
<1>8. Handling' /\ Carried' /\ QuestionComesFirst'
  BY <1>1 DEF EchoInv, Handling, Carried, Unknown, QuestionComesFirst, Msg
<1> QED BY <1>2, <1>3, <1>5, <1>7, <1>8 DEF EchoInv

LEMMA ChatStep == ChatInv /\ [ChatNext]_chatVars => ChatInv'
<1> SUFFICES ASSUME ChatInv, [ChatNext]_chatVars PROVE ChatInv'
  OBVIOUS
<1>1. CASE ChatNext
  BY <1>1, ConnectingKeepsChat, ControlKeepsChat, JoiningKeepsChat, LeavingKeepsChat,
     IngestKeepsChat, EchoKeepsChat, PushKeepsChat, AnswersKeepChat, TakeKeepsChat, SendKeepsChat,
     DrainingKeepsChat, StopKeepsChat
     DEF ChatNext, Posting, Draining, Stopping
<1>2. CASE UNCHANGED chatVars
  <2>1. /\ UNCHANGED <<bounds, place, carries, said, author, clients, socket, frames, answer>>
        /\ UNCHANGED <<drain, current, inbox, refRing, LifeVars, agent, cancelled, closed>>
    BY <1>2 DEF chatVars, agentVars, lifeVars, postVars, webVars, LifeVars
  <2>2. LifeOK'
    BY <2>1 DEF ChatInv, LifeOK, LifeVars
  <2> QED BY <2>1, <2>2, EchoStays DEF ChatInv
<1> QED BY <1>1, <1>2

LEMMA ChatAlways == ChatSpec => []ChatInv
BY ChatInitially, ChatStep, PTL DEF ChatSpec

(* Every variable of the chat keeps its type.                              *)
THEOREM ChatTypeCorrect == ChatSpec => []ChatTypeOK
<1>1. ChatInv => ChatTypeOK
  BY TypesAre DEF ChatInv
<1> QED BY <1>1, ChatAlways, PTL

(* Whoever wrote a message has seen it before any reply or answer to it: the
   echo of handleSay comes before the push, and neither Stop nor a failed write
   lets a later frame overtake it.                                         *)
THEOREM QuestionComesFirstHolds == ChatSpec => []QuestionComesFirst
<1>1. ChatInv => QuestionComesFirst
  BY DEF ChatInv, EchoInv
<1> QED BY <1>1, ChatAlways, PTL

==============================================================================
