----------------------------- MODULE PoolProofs -----------------------------
(***************************************************************************)
(* Theorems of the pool and of the pacing of its connectors: what the      *)
(* Pool run checks of its instances, for every number of tenants,          *)
(* generations, ports and buckets, every schedule and every rate.          *)
(*                                                                         *)
(* The pacing is shown for every step a connector may take, the pool       *)
(* chooses among them.                                                     *)
(***************************************************************************)
EXTENDS Pool, TLAPS, FiniteSetTheorems, WellFoundedInduction

(* An event's age is counted from the youngest: the first is the last.     *)
Nth(ages, j) == ages[Len(ages) + 1 - j]

(* Ages in the order in which the events came.                             *)
Aging(ages) ==
    /\ ages \in Seq(Nat)
    /\ \A i \in 1..Len(ages) : \A j \in 1..Len(ages) : i <= j => ages[i] >= ages[j]

-----------------------------------------------------------------------------
(* The types of the pacing's variables.                                    *)

Place == {"off", "gate", "dial", "handshake", "linked", "ended", "failed", "closed", "sleep",
          "parked", "ending"}

PacingTyped ==
    /\ pace \in PacingBounds
    /\ place \in [Connector -> Place] /\ due \in [Connector -> Nat]
    /\ idx \in [Connector -> Nat]
    /\ reserved \in [Key -> Nat] /\ quiet \in [Connector -> Nat]
    /\ DOMAIN attempts = Connector /\ \A c \in Connector : Aging(attempts[c])
    /\ DOMAIN redials = Connector /\ \A c \in Connector : Aging(redials[c])
    /\ DOMAIN admitted = Key /\ \A k \in Key : Aging(admitted[k])

-----------------------------------------------------------------------------
(* The breaker counts the pauses, the bound is on the redials: as long as a
   redial is remembered, so is a pause after it, one of its own, but for the
   latest of them.                                                         *)

FollowsEach(c) ==
    \A j \in 1..Len(redials[c]) :
       j <= Len(attempts[c]) /\ Nth(attempts[c], j) <= Nth(redials[c], j)
FollowsOthers(c) ==
    \A j \in 1..(Len(redials[c]) - 1) :
       j <= Len(attempts[c]) /\ Nth(attempts[c], j) <= Nth(redials[c], j + 1)

Asleep(c) == place[c] = "sleep"

(* Whoever sleeps with the window full sleeps until it no longer is.       *)
SleepsLong(c) ==
    /\ Len(redials[c]) = stormMax + 1 =>
          Nth(redials[c], stormMax + 1) + due[c] >= stormWindow
    /\ quiet[c] + due[c] >= reconnectFloor

Calm(c) ==
    /\ Len(redials[c]) <= stormMax + 1
    /\ \A j \in 1..Len(redials[c]) : Nth(redials[c], j) < stormWindow
    /\ Asleep(c) => FollowsEach(c) /\ SleepsLong(c)
    /\ FollowsOthers(c)

StormInv == rushed = {} /\ \A c \in Connector : Calm(c)

-----------------------------------------------------------------------------
(* The bucket.  What waits for it, by when it is due.                      *)

Waiting(k, from) ==
    {c \in Connector : place[c] = "gate" /\ KeyOf[c] = k /\ from <= due[c]}
Waits(k, from, until) == {c \in Waiting(k, from) : due[c] <= until}

(* Of the dials and the waits of any span there are no more than the tokens of
   that span and the burst; the reservations come after the dials and what
   waits; and those that wait for a token are one interval apart.          *)
Span(n) == n * pace.interval

DialsAndWaits(k, j, until) ==
    Span(j + Cardinality(Waits(k, 0, until))) <= Nth(admitted[k], j) + until + Ahead
WaitsOnly(k, from, until) ==
    Span(Cardinality(Waits(k, from, until))) <= until - from + Ahead
ReservedAfterDial(k, j) ==
    Span(j + Cardinality(Waiting(k, 0))) <= reserved[k] + Nth(admitted[k], j)
ReservedAfterWait(k, from) ==
    Waiting(k, from) # {} => Span(Cardinality(Waiting(k, from))) + from <= reserved[k]
Spaced(k) ==
    \A b, c \in Waiting(k, 1) :
       /\ due[c] + Ahead <= reserved[k]
       /\ b # c => \/ due[b] + pace.interval <= due[c]
                   \/ due[c] + pace.interval <= due[b]

BucketInv(k) ==
    /\ \A j \in 1..Len(admitted[k]) :
          /\ \A until \in Nat : DialsAndWaits(k, j, until)
          /\ ReservedAfterDial(k, j)
    /\ \A from \in Nat :
          /\ \A until \in Nat : from <= until => WaitsOnly(k, from, until)
          /\ ReservedAfterWait(k, from)
    /\ Spaced(k)

GateInv == Gated => \A k \in Key : BucketInv(k)

-----------------------------------------------------------------------------
(* The registry, against the ports reported and the sockets that are open. *)

Linked(c) == place[c] \in {"handshake", "linked"}

IdentTyped ==
    /\ place \in [Connector -> Place]
    /\ identPort \in [Connector -> Port \cup {NoPort}]
    /\ socket \in [Connector -> Port \cup {NoPort}]
    /\ registry \in [Port -> Connector \cup {NoOne}]
    /\ held \subseteq Port /\ crossed \subseteq Port
    /\ \A b \in PacingBounds : b.ports \in [Connector -> SUBSET Port]
    /\ pace \in PacingBounds

IdentInv ==
    /\ \A p \in Port : registry[p] # NoOne => identPort[registry[p]] = p
    /\ \A c \in Connector : identPort[c] # NoPort => place[c] # "off"
    /\ \A c \in Connector : socket[c] # NoPort => socket[c] \in held
    /\ \A b, c \in Connector : socket[b] = socket[c] /\ socket[b] # NoPort => b = c
    /\ \A c \in Connector : Linked(c) =>
          /\ socket[c] # NoPort /\ identPort[c] = socket[c]
          /\ \A b \in Connector : b # c /\ identPort[b] = socket[c] => socket[c] \in crossed
          /\ socket[c] \notin crossed => registry[socket[c]] = c

-----------------------------------------------------------------------------
(* A supervisor that is not over belongs to a tenant of the table, or to one
   that Run waits for.                                                     *)

Awaited(t, g) ==
    \/ run = "draining" /\ leaving = <<t, g>>
    \/ run = "shutdown" /\ <<t, g>> \in stopped

Running(t, g) == phase[<<t, g>>] \in Live

PoolInv ==
    /\ attached \in [Tenant -> Nat] /\ DOMAIN phase = Instance
    /\ run \in {"initial", "shutdown", "returned"} => \A t \in Tenant : attached[t] = 0
    /\ \A t \in Tenant : \A g \in Gen : Running(t, g) => attached[t] = g \/ Awaited(t, g)
    /\ \A t \in Tenant : \A g, h \in Gen : Running(t, g) /\ Running(t, h) => g = h

-----------------------------------------------------------------------------
(* Ages.                                                                   *)

LEMMA AgingFacts ==
    ASSUME NEW ages, Aging(ages)
    PROVE  /\ ages \in Seq(Nat) /\ Len(ages) \in Nat /\ DOMAIN ages = 1..Len(ages)
           /\ \A i \in 1..Len(ages) : ages[i] \in Nat
           /\ \A i \in 1..Len(ages) : \A j \in 1..Len(ages) : i <= j => ages[i] >= ages[j]
BY DEF Aging

(* What is within a window is a tail of the ages.                          *)
LEMMA WithinIsTail ==
    ASSUME NEW ages, Aging(ages), NEW window \in Nat
    PROVE  \E k \in 0..Len(ages) :
              /\ Within(ages, window) = SubSeq(ages, k + 1, Len(ages))
              /\ \A i \in 1..Len(ages) : ages[i] < window <=> i > k
<1> DEFINE rest == {i \in Nat : \A j \in 1..Len(ages) : j > i => ages[j] < window}
           past == {i \in DOMAIN ages : ages[i] >= window}
<1> USE AgingFacts
<1>1. Len(ages) \in rest
  OBVIOUS
<1>2. PICK k \in rest : \A i \in rest : ~(<<i, k>> \in OpToRel(<, Nat))
  <2>1. rest \subseteq Nat /\ rest # {}
    BY <1>1
  <2> HIDE DEF rest
  <2> QED
    BY <2>1, NatLessThanWellFounded, WFMin
<1>3. ASSUME NEW i \in rest PROVE k <= i
  <2>1. i \in Nat /\ k \in Nat
    OBVIOUS
  <2>2. ~(<<i, k>> \in {pair \in Nat \X Nat : pair[1] < pair[2]})
    BY <1>2 DEF OpToRel
  <2> HIDE DEF rest
  <2> QED
    BY <2>1, <2>2
<1>4. k \in 0..Len(ages) /\ \A j \in 1..Len(ages) : j > k => ages[j] < window
  BY <1>1, <1>3
<1>5. \A i \in 1..k : ages[i] >= window
  <2>1. CASE k = 0
    BY <2>1
  <2>2. CASE k > 0
    <3>1. k - 1 \in Nat /\ k - 1 \notin rest
      BY <1>3, <1>4, <2>2
    <3>2. PICK j \in 1..Len(ages) : j > k - 1 /\ ~(ages[j] < window)
      BY <3>1
    <3>3. j = k
      BY <1>4, <3>2
    <3>4. ages[k] >= window /\ k \in 1..Len(ages)
      BY <1>4, <3>2, <3>3
    <3>5. ASSUME NEW i \in 1..k PROVE ages[i] >= window
      <4>1. i \in 1..Len(ages) /\ i <= k
        BY <1>4
      <4>2. ages[i] >= ages[k] /\ ages[i] \in Nat /\ ages[k] \in Nat
        BY <3>4, <4>1
      <4> QED
        BY <3>4, <4>2
    <3> QED
      BY <3>5
  <2> QED
    BY <1>4, <2>1, <2>2
<1>6. \A i \in 1..Len(ages) : ages[i] < window <=> i > k
  BY <1>4, <1>5
<1>7. past = 1..k
  BY <1>4, <1>6
<1>8. Cardinality(past) = k
  <2>1. k \in Nat /\ Cardinality(1..k) = IF 1 > k THEN 0 ELSE k - 1 + 1
    BY <1>4, FS_Interval
  <2> HIDE DEF past
  <2> QED
    BY <1>7, <2>1
<1> QED
  BY <1>4, <1>6, <1>8 DEF Within

(* It is in order again, its members have their places from the youngest on,
   and nothing of the window is missing.                                   *)
LEMMA WithinFacts ==
    ASSUME NEW ages, Aging(ages), NEW window \in Nat
    PROVE  /\ Aging(Within(ages, window))
           /\ Len(Within(ages, window)) <= Len(ages)
           /\ \A j \in 1..Len(Within(ages, window)) :
                 /\ Nth(Within(ages, window), j) = Nth(ages, j)
                 /\ Nth(ages, j) < window
           /\ \A j \in 1..Len(ages) :
                 Nth(ages, j) < window => j <= Len(Within(ages, window))
<1>1. PICK k \in 0..Len(ages) :
        /\ Within(ages, window) = SubSeq(ages, k + 1, Len(ages))
        /\ \A i \in 1..Len(ages) : ages[i] < window <=> i > k
  BY WithinIsTail
<1> USE AgingFacts
<1> DEFINE tail == SubSeq(ages, k + 1, Len(ages))
<1>2. /\ tail \in Seq(Nat) /\ Len(tail) = Len(ages) - k
      /\ \A i \in 1..Len(tail) : tail[i] = ages[i + k]
  OBVIOUS
<1> HIDE DEF tail
<1>3. Aging(tail)
  <2>1. \A i \in 1..Len(tail) : i + k \in 1..Len(ages)
    BY <1>2
  <2>2. \A i \in 1..Len(tail) : \A j \in 1..Len(tail) : i <= j => tail[i] >= tail[j]
    <3> TAKE i \in 1..Len(tail)
    <3> TAKE j \in 1..Len(tail)
    <3>1. i <= j => ages[i + k] >= ages[j + k]
      BY <2>1
    <3> QED
      BY <1>2, <3>1
  <2> QED
    BY <1>2, <2>2 DEF Aging
<1>4. ASSUME NEW j \in 1..Len(tail)
      PROVE  Nth(tail, j) = Nth(ages, j) /\ Nth(ages, j) < window
  <2>1. /\ Len(tail) + 1 - j \in 1..Len(tail)
        /\ Len(tail) + 1 - j + k = Len(ages) + 1 - j
        /\ Len(ages) + 1 - j \in 1..Len(ages) /\ Len(ages) + 1 - j > k
    BY <1>2
  <2> QED
    BY <1>1, <1>2, <2>1 DEF Nth
<1>5. ASSUME NEW j \in 1..Len(ages), Nth(ages, j) < window
      PROVE  j <= Len(tail)
  <2>1. Len(ages) + 1 - j \in 1..Len(ages)
    OBVIOUS
  <2>2. Len(ages) + 1 - j > k
    BY <1>1, <1>5, <2>1 DEF Nth
  <2> QED
    BY <1>2, <2>2
<1> QED
  BY <1>1, <1>2, <1>3, <1>4, <1>5 DEF tail

LEMMA EmptyAging == Aging(<<>>) /\ Len(<<>>) = 0
BY DEF Aging

(* An event that happens now is the youngest.                              *)
LEMMA AppendFacts ==
    ASSUME NEW ages, Aging(ages)
    PROVE  /\ Aging(Append(ages, 0))
           /\ Len(Append(ages, 0)) = Len(ages) + 1
           /\ Nth(Append(ages, 0), 1) = 0
           /\ \A j \in 1..Len(ages) : Nth(Append(ages, 0), j + 1) = Nth(ages, j)
BY DEF Aging, Nth

LEMMA NthFacts ==
    ASSUME NEW ages, Aging(ages)
    PROVE  /\ Len(ages) \in Nat
           /\ \A j \in 1..Len(ages) : Nth(ages, j) \in Nat
           /\ \A i \in 1..Len(ages) : \A j \in 1..Len(ages) :
                 i <= j => Nth(ages, i) <= Nth(ages, j)
<1>1. \A j \in 1..Len(ages) : Len(ages) + 1 - j \in 1..Len(ages)
  BY DEF Aging
<1> QED
  BY <1>1 DEF Aging, Nth

(* A tick makes every age one more; what leaves the window is forgotten.   *)
LEMMA AgedFacts ==
    ASSUME NEW ages, Aging(ages), NEW window \in Nat
    PROVE  /\ Aging(Aged(ages, window))
           /\ Len(Aged(ages, window)) <= Len(ages)
           /\ \A j \in 1..Len(Aged(ages, window)) :
                 /\ Nth(Aged(ages, window), j) = Nth(ages, j) + 1
                 /\ Nth(ages, j) + 1 < window
           /\ \A j \in 1..Len(ages) :
                 Nth(ages, j) + 1 < window => j <= Len(Aged(ages, window))
<1> DEFINE older == [i \in DOMAIN ages |-> ages[i] + 1]
<1>1. /\ older \in Seq(Nat) /\ Len(older) = Len(ages)
      /\ \A i \in 1..Len(ages) : older[i] = ages[i] + 1
  <2>1. \A i \in 1..Len(ages) : ages[i] + 1 \in Nat
    BY AgingFacts
  <2>2. older \in [1..Len(ages) -> Nat] /\ Len(ages) \in Nat
    BY <2>1, AgingFacts
  <2>3. older \in Seq(Nat)
    BY <2>2
  <2> QED
    BY <2>2, <2>3, AgingFacts
<1>2. Aged(ages, window) = Within(older, window)
  BY DEF Aged
<1> HIDE DEF older
<1>3. Aging(older)
  BY <1>1, AgingFacts DEF Aging
<1>4. \A j \in 1..Len(ages) : Nth(older, j) = Nth(ages, j) + 1
  <2>1. \A j \in 1..Len(ages) : Len(ages) + 1 - j \in 1..Len(ages)
    BY AgingFacts
  <2> QED
    BY <1>1, <2>1 DEF Nth
<1> QED
  BY <1>1, <1>2, <1>3, <1>4, WithinFacts, NthFacts

-----------------------------------------------------------------------------
(* The steps of the pacing, and those the pool takes.                      *)

PacingStep == PacingNext \/ \E c \in Connector : Begin(c) \/ End(c) \/ Ended(c)

LEMMA PoolPaces ==
    ASSUME [Next]_vars
    PROVE  PacingStep \/ UNCHANGED pacingVars
<1> USE DEF PacingStep
<1>1. CASE \E t \in Tenant : Mark(t) \/ \E s \in Spec \cup {Absent} : Edit(t, s)
  BY <1>1 DEF Mark, MarkStep, Edit
<1>2. CASE Cancel \/ PollNext \/ FlushNext
  BY <1>2 DEF Cancel, PollNext, Fetch, DiffDone, PollEnds, PollStep, FlushNext, Flush, Posted,
         MarkStep
<1>3. CASE RunNext
  BY <1>3 DEF RunNext, Initial, Seed, Updated, Drained, Shutdown, Returns, Boot, Upserted,
         Removed, RunStep
<1>4. CASE Pacing
  BY <1>4 DEF Pacing
<1>5. ASSUME NEW i \in Instance, TenantNext(i) \/ Giving(i) \/ Panic(i)
      PROVE  PacingStep \/ UNCHANGED pacingVars
  <2>1. i \in Connector
    BY PoolAssumption DEF Instance
  <2>2. CASE Starts(i)
    BY <2>1, <2>2 DEF Starts
  <2>3. CASE HangsUp(i)
    BY <2>1, <2>3 DEF HangsUp, PacingNext, ConnectorSteps
  <2>4. CASE Build(i) \/ Started(i) \/ StopCloses(i) \/ StopWaits(i) \/ Again(i) \/ Done(i)
    BY <2>4 DEF Build, Started, StopCloses, StopWaits, Again, Done
  <2>5. CASE Giving(i) \/ Panic(i)
    BY <2>5 DEF Giving, StartFails, StopCollects, Panic
  <2> QED
    BY <1>5, <2>2, <2>3, <2>4, <2>5 DEF TenantNext
<1>6. CASE \E c \in Client : ClientNext(c) \/ Arrives(c) \/ ReadReturns(c) \/ SessionOver(c)
  BY <1>6 DEF ClientNext, Route, Deliver, ServeConn, Adds, Handle, Exit, Arrives, ReadReturns,
         Line, ReadFails, SessionOver, ClientStep
<1>7. CASE UNCHANGED vars
  BY <1>7 DEF vars
<1> QED
  BY <1>1, <1>2, <1>3, <1>4, <1>5, <1>6, <1>7 DEF Next

-----------------------------------------------------------------------------
(* What a pause is: at least the floor, and in a storm the cooldown.       *)

LEMMA KeptFacts ==
    ASSUME PacingTyped, NEW c \in Connector
    PROVE  /\ Aging(Kept(c))
           /\ Len(Kept(c)) = Len(Within(attempts[c], stormWindow)) + 1
           /\ Len(Kept(c)) <= Len(attempts[c]) + 1
           /\ Nth(Kept(c), 1) = 0
           /\ \A j \in 1..Len(attempts[c]) : Nth(attempts[c], j) < stormWindow =>
                 /\ j + 1 <= Len(Kept(c))
                 /\ Nth(Kept(c), j + 1) = Nth(attempts[c], j)
<1> DEFINE recent == Within(attempts[c], stormWindow)
<1>1. Aging(attempts[c]) /\ stormWindow \in Nat
  BY PacingAssumption DEF PacingTyped
<1>2. /\ Aging(recent) /\ Len(recent) <= Len(attempts[c])
      /\ \A j \in 1..Len(recent) : Nth(recent, j) = Nth(attempts[c], j)
      /\ \A j \in 1..Len(attempts[c]) : Nth(attempts[c], j) < stormWindow => j <= Len(recent)
  BY <1>1, WithinFacts
<1>3. Kept(c) = Append(recent, 0)
  BY DEF Kept
<1> HIDE DEF recent
<1>4. Len(recent) \in Nat /\ Len(attempts[c]) \in Nat
  BY <1>1, <1>2, NthFacts
<1>5. /\ Aging(Kept(c)) /\ Len(Kept(c)) = Len(recent) + 1 /\ Nth(Kept(c), 1) = 0
      /\ \A j \in 1..Len(recent) : Nth(Kept(c), j + 1) = Nth(recent, j)
  BY <1>2, <1>3, AppendFacts
<1> QED
  BY <1>2, <1>4, <1>5 DEF recent

LEMMA DelayFacts ==
    ASSUME PacingTyped, NEW c \in Connector
    PROVE  /\ Delay(c) \in Nat /\ Delay(c) >= reconnectFloor
           /\ Len(Kept(c)) > stormMax => Delay(c) >= stormWindow
           /\ Advanced(c) \in Nat
<1>1. /\ Len(schedule) \in Nat \ {0} /\ \A i \in 1..Len(schedule) : schedule[i] \in Nat
      /\ reconnectFloor \in Nat /\ stormCooldown \in Nat /\ stormWindow \in Nat
      /\ stormMax \in Nat
  BY PacingAssumption
<1>2. idx[c] \in Nat
  BY DEF PacingTyped
<1>3. Backoff(c) \in Nat
  BY <1>1, <1>2 DEF Backoff
<1>4. Advanced(c) \in Nat
  BY <1>1, <1>2 DEF Advanced
<1> QED
  BY <1>1, <1>3, <1>4, BreakerAssumption DEF Delay, Larger, Stormy

LEMMA BurstCovers ==
    ASSUME NEW n \in Nat \ {0}, NEW m \in Nat
    PROVE  n * m >= m /\ n * m \in Nat
OBVIOUS

LEMMA ReserveTyped ==
    ASSUME PacingTyped, NEW c \in Connector, Reserve(c)
    PROVE  due' \in [Connector -> Nat] /\ reserved' \in [Key -> Nat]
<1>1. Ahead \in Nat /\ pace.interval \in Nat /\ KeyOf[c] \in Key
  <2>1. burst \in Nat /\ pace.interval \in Nat /\ KeyOf[c] \in Key
    BY PacingAssumption DEF PacingTyped
  <2>2. burst * pace.interval \in Nat
    BY <2>1
  <2> QED
    BY <2>1, <2>2 DEF Ahead
<1> DEFINE full == reserved[KeyOf[c]] + pace.interval
<1>2. full \in Nat
  BY <1>1 DEF PacingTyped
<1>3. /\ reserved' = (IF Gated THEN [reserved EXCEPT ![KeyOf[c]] = full] ELSE reserved)
      /\ due' = [due EXCEPT ![c] = IF Gated THEN Larger(0, full - Ahead) ELSE 0]
  BY DEF Reserve
<1> HIDE DEF full
<1>4. Larger(0, full - Ahead) \in Nat
  BY <1>1, <1>2 DEF Larger
<1>5. (IF Gated THEN Larger(0, full - Ahead) ELSE 0) \in Nat
  BY <1>4
<1> QED
  BY <1>2, <1>3, <1>5 DEF PacingTyped

-----------------------------------------------------------------------------
(* Every step keeps the types.                                             *)

LEMMA TickTyped == PacingTyped /\ Tick => PacingTyped'
<1> SUFFICES ASSUME PacingTyped, Tick PROVE PacingTyped'
  OBVIOUS
<1>1. /\ stormWindow \in Nat /\ pace.window \in Nat /\ reconnectFloor \in Nat
  BY PacingAssumption DEF PacingTyped
<1>2. due' \in [Connector -> Nat] /\ reserved' \in [Key -> Nat]
  <2>1. \A n \in Nat : Left(n) \in Nat
    BY DEF Left
  <2> QED
    BY <2>1 DEF Tick, PacingTyped
<1>3. quiet' \in [Connector -> Nat]
  <2>1. \A n \in Nat : Older(n, reconnectFloor) \in Nat
    BY <1>1 DEF Older
  <2> QED
    BY <2>1 DEF Tick, PacingTyped
<1>4. \A c \in Connector : Aging(attempts'[c]) /\ Aging(redials'[c])
  BY <1>1, AgedFacts DEF Tick, PacingTyped
<1>5. \A k \in Key : Aging(admitted'[k])
  BY <1>1, AgedFacts DEF Tick, PacingTyped
<1> QED
  BY <1>2, <1>3, <1>4, <1>5 DEF Tick, PacingTyped

LEMMA StepTyped == PacingTyped /\ PacingStep => PacingTyped'
<1> SUFFICES ASSUME PacingTyped, PacingStep PROVE PacingTyped'
  OBVIOUS
<1>1. ASSUME NEW c \in Connector, ConnectorSteps(c)
      PROVE  PacingTyped'
  <2>1. CASE Admit(c)
    <3>1. Gated => KeyOf[c] \in Key /\ Aging(Append(admitted[KeyOf[c]], 0))
      BY PacingAssumption, AppendFacts DEF PacingTyped
    <3> QED
      BY <2>1, <3>1 DEF Admit, PacingTyped, Place, stormVars
  <2>2. CASE SessionEnds(c)
    BY <2>2 DEF SessionEnds, PacingTyped, Place, gateVars
  <2>3. CASE GoesToSleep(c)
    BY <2>3, DelayFacts, KeptFacts DEF GoesToSleep, Pause, PacingTyped, Place
  <2>4. CASE Woken(c)
    BY <2>4, DelayFacts, KeptFacts DEF Woken, Pause, PacingTyped, Place
  <2>5. CASE Redial(c)
    <3>1. Aging(Append(redials[c], 0))
      BY AppendFacts DEF PacingTyped
    <3>2. due' \in [Connector -> Nat] /\ reserved' \in [Key -> Nat]
      BY <2>5, ReserveTyped DEF Redial, Queue
    <3> QED
      BY <2>5, <3>1, <3>2 DEF Redial, Queue, PacingTyped, Place
  <2>6. CASE Park(c)
    BY <2>6 DEF Park, PacingTyped, Place, gateVars, stormVars
  <2>7. CASE Resume(c)
    <3>1. due' \in [Connector -> Nat] /\ reserved' \in [Key -> Nat]
      BY <2>7, ReserveTyped DEF Resume, Queue
    <3> QED
      BY <2>7, <3>1 DEF Resume, Queue, PacingTyped, Place
  <2>8. CASE DialSucceeds(c)
    BY <2>8 DEF DialSucceeds, PacingTyped, Place, gateVars, stormVars
  <2>9. CASE DialFails(c)
    BY <2>9 DEF DialFails, PacingTyped, Place, gateVars
  <2>10. CASE Registers(c)
    BY <2>10 DEF Registers, PacingTyped, Place, gateVars
  <2>11. CASE HandshakeFails(c)
    BY <2>11 DEF HandshakeFails, PacingTyped, Place, gateVars
  <2>12. CASE ClearsClient(c)
    BY <2>12 DEF ClearsClient, PacingTyped, Place, gateVars, stormVars
  <2> QED
    BY <1>1, <2>1, <2>2, <2>3, <2>4, <2>5, <2>6, <2>7, <2>8, <2>9, <2>10, <2>11, <2>12
       DEF ConnectorSteps
<1>2. CASE \E p \in Port : Collect(p)
  BY <1>2 DEF Collect, PacingTyped, gateVars, stormVars
<1>3. CASE Tick
  BY <1>3, TickTyped
<1>4. ASSUME NEW c \in Connector, Begin(c) \/ End(c) \/ Ended(c)
      PROVE  PacingTyped'
  <2>1. CASE Begin(c)
    <3>1. due' \in [Connector -> Nat] /\ reserved' \in [Key -> Nat]
      BY <2>1, ReserveTyped DEF Begin, Queue
    <3> QED
      BY <2>1, <3>1, EmptyAging DEF Begin, Queue, Fresh, PacingTyped, Place
  <2>2. CASE End(c)
    <3>1. reserved' \in [Key -> Nat]
      <4>1. CASE reserved' = [reserved EXCEPT ![KeyOf[c]] = @ - pace.interval]
                 /\ Gated /\ due[c] > 0 /\ due[c] = reserved[KeyOf[c]] - Ahead
        <5>1. KeyOf[c] \in Key /\ burst \in Nat \ {0} /\ pace.interval \in Nat
          BY PacingAssumption DEF PacingTyped
        <5>2. burst * pace.interval >= pace.interval /\ burst * pace.interval \in Nat
          BY <5>1, BurstCovers
        <5>3. reserved[KeyOf[c]] \in Nat /\ due[c] \in Nat
          BY <5>1 DEF PacingTyped
        <5>4. reserved[KeyOf[c]] - pace.interval \in Nat
          BY <4>1, <5>1, <5>2, <5>3 DEF Ahead
        <5> QED
          BY <4>1, <5>4 DEF PacingTyped
      <4> QED
        BY <2>2, <4>1 DEF End, Abandoned, PacingTyped
    <3> QED
      BY <2>2, <3>1 DEF End, PacingTyped, Place, stormVars
  <2>3. CASE Ended(c)
    BY <2>3 DEF Ended, PacingTyped, Place, gateVars, stormVars
  <2> QED
    BY <1>4, <2>1, <2>2, <2>3
<1> QED
  BY <1>1, <1>2, <1>3, <1>4 DEF PacingStep, PacingNext

LEMMA InitTyped == PacingInit => PacingTyped
BY PacingAssumption, EmptyAging DEF PacingInit, PacingTyped, Place

-----------------------------------------------------------------------------
(* The storm.                                                              *)

(* Nothing changes for a connector whose histories, clock and timer are left
   alone and that does not fall asleep; awake, its timer does not matter.  *)
LEMMA CalmFrame ==
    ASSUME NEW c \in Connector, Calm(c),
           attempts'[c] = attempts[c], redials'[c] = redials[c],
           \/ ~Asleep(c)'
           \/ Asleep(c) /\ due'[c] = due[c] /\ quiet'[c] = quiet[c]
    PROVE  Calm(c)'
BY DEF Calm, FollowsEach, FollowsOthers, SleepsLong, Asleep, Nth

(* Whoever pauses has left a session or slept before.                      *)
LEMMA CalmPause ==
    ASSUME PacingTyped, NEW c \in Connector, Calm(c), Pause(c),
           UNCHANGED <<redials, quiet>>
    PROVE  Calm(c)'
<1> DEFINE kept == Kept(c)
           rs == redials[c]
           ps == attempts[c]
<1>1. /\ Aging(rs) /\ Aging(ps) /\ stormMax \in Nat \ {0} /\ stormWindow \in Nat
      /\ reconnectFloor \in Nat /\ quiet[c] \in Nat
  BY PacingAssumption, BreakerAssumption DEF PacingTyped
<1>2. /\ Len(rs) \in Nat /\ Len(ps) \in Nat
      /\ \A j \in 1..Len(rs) : Nth(rs, j) \in Nat
      /\ \A j \in 1..Len(ps) : Nth(ps, j) \in Nat
      /\ \A i \in 1..Len(rs) : \A j \in 1..Len(rs) : i <= j => Nth(rs, i) <= Nth(rs, j)
  BY <1>1, NthFacts
<1>3. /\ Len(kept) \in Nat /\ Nth(kept, 1) = 0 /\ Len(kept) >= 1
      /\ \A j \in 1..Len(ps) : Nth(ps, j) < stormWindow =>
            j + 1 <= Len(kept) /\ Nth(kept, j + 1) = Nth(ps, j)
  <2>1. /\ Aging(kept) /\ Nth(kept, 1) = 0
        /\ Len(kept) = Len(Within(ps, stormWindow)) + 1
        /\ \A j \in 1..Len(ps) : Nth(ps, j) < stormWindow =>
              j + 1 <= Len(kept) /\ Nth(kept, j + 1) = Nth(ps, j)
    BY KeptFacts
  <2>2. Len(Within(ps, stormWindow)) \in Nat
    BY <1>1, WithinFacts, NthFacts
  <2> QED
    BY <2>1, <2>2
<1>4. /\ attempts'[c] = kept /\ redials'[c] = rs /\ quiet'[c] = quiet[c]
      /\ due'[c] = Delay(c)
  BY DEF Pause, PacingTyped
<1>5. /\ Delay(c) \in Nat /\ Delay(c) >= reconnectFloor
      /\ Len(kept) > stormMax => Delay(c) >= stormWindow
  BY DelayFacts
<1>6. /\ Len(rs) <= stormMax + 1
      /\ \A j \in 1..Len(rs) : Nth(rs, j) < stormWindow
      /\ \A j \in 1..(Len(rs) - 1) : j <= Len(ps) /\ Nth(ps, j) <= Nth(rs, j + 1)
  BY DEF Calm, FollowsEach, FollowsOthers
<1> HIDE DEF kept, rs, ps
<1>7. \A j \in 1..Len(rs) : j <= Len(kept) /\ Nth(kept, j) <= Nth(rs, j)
  <2> TAKE j \in 1..Len(rs)
  <2>1. CASE j = 1
    BY <1>2, <1>3, <2>1
  <2>2. CASE j > 1
    <3>1. PICK i \in 1..(Len(rs) - 1) : j = i + 1
      BY <1>2, <2>2
    <3>2. i \in 1..Len(ps) /\ Nth(ps, i) <= Nth(rs, i + 1)
      BY <1>2, <1>6
    <3>3. Nth(rs, i + 1) < stormWindow /\ Nth(rs, i + 1) \in Nat /\ Nth(ps, i) \in Nat
      BY <1>2, <1>6, <3>1, <3>2
    <3>4. Nth(ps, i) < stormWindow
      BY <1>1, <3>2, <3>3
    <3>5. i + 1 <= Len(kept) /\ Nth(kept, i + 1) = Nth(ps, i)
      BY <1>3, <3>2, <3>4
    <3> QED
      BY <3>1, <3>2, <3>5
  <2> QED
    BY <1>2, <2>1, <2>2
<1>8. \A j \in 1..(Len(rs) - 1) : j <= Len(kept) /\ Nth(kept, j) <= Nth(rs, j + 1)
  <2> TAKE j \in 1..(Len(rs) - 1)
  <2>1. j \in 1..Len(rs) /\ j + 1 \in 1..Len(rs) /\ j <= j + 1
    BY <1>2
  <2>2. Nth(kept, j) <= Nth(rs, j) /\ j <= Len(kept)
    BY <1>7, <2>1
  <2>3. Nth(rs, j) <= Nth(rs, j + 1) /\ Nth(rs, j) \in Nat /\ Nth(rs, j + 1) \in Nat
    BY <1>2, <2>1
  <2>4. Nth(kept, j) \in Nat
    <3>1. j \in 1..Len(kept)
      BY <1>3, <2>1, <2>2
    <3> QED
      BY <3>1, KeptFacts, NthFacts DEF kept
  <2> QED
    BY <2>2, <2>3, <2>4
<1>9. Len(rs) = stormMax + 1 => Nth(rs, stormMax + 1) + Delay(c) >= stormWindow
  <2> HAVE Len(rs) = stormMax + 1
  <2>1. stormMax + 1 \in 1..Len(rs)
    BY <1>1, <1>2
  <2>2. Delay(c) >= stormWindow
    BY <1>1, <1>3, <1>5, <1>7, <2>1
  <2> QED
    BY <1>1, <1>2, <1>5, <2>1, <2>2
<1>10. quiet[c] + Delay(c) >= reconnectFloor
  BY <1>1, <1>5
<1> QED
  BY <1>4, <1>6, <1>7, <1>8, <1>9, <1>10 DEF Calm, FollowsEach, FollowsOthers, SleepsLong

(* The redial comes when the sleep is over.                                *)
LEMMA CalmRedial ==
    ASSUME PacingTyped, NEW c \in Connector, Calm(c), Redial(c)
    PROVE  Calm(c)' /\ quiet[c] >= reconnectFloor
<1> DEFINE rs == redials[c]
           ps == attempts[c]
           more == Append(rs, 0)
<1>1. /\ Aging(rs) /\ Aging(ps) /\ stormMax \in Nat \ {0} /\ stormWindow \in Nat \ {0}
      /\ reconnectFloor \in Nat /\ quiet[c] \in Nat
  BY PacingAssumption, BreakerAssumption DEF PacingTyped
<1>2. /\ Len(rs) \in Nat /\ Len(ps) \in Nat
      /\ \A j \in 1..Len(rs) : Nth(rs, j) \in Nat
  BY <1>1, NthFacts
<1>3. /\ Len(more) = Len(rs) + 1 /\ Nth(more, 1) = 0
      /\ \A j \in 1..Len(rs) : Nth(more, j + 1) = Nth(rs, j)
  BY <1>1, AppendFacts
<1>4. attempts'[c] = ps /\ redials'[c] = more /\ ~Asleep(c)' /\ Asleep(c) /\ due[c] = 0
  BY DEF Redial, Queue, Asleep, PacingTyped
<1>5. /\ Len(rs) <= stormMax + 1
      /\ \A j \in 1..Len(rs) : Nth(rs, j) < stormWindow
      /\ \A j \in 1..Len(rs) : j <= Len(ps) /\ Nth(ps, j) <= Nth(rs, j)
      /\ Len(rs) = stormMax + 1 => Nth(rs, stormMax + 1) + 0 >= stormWindow
      /\ quiet[c] + 0 >= reconnectFloor
  BY <1>4 DEF Calm, FollowsEach, FollowsOthers, SleepsLong
<1> HIDE DEF rs, ps, more
<1>6. Len(rs) <= stormMax
  BY <1>1, <1>2, <1>5
<1>7. \A j \in 1..Len(more) : Nth(more, j) < stormWindow
  <2> TAKE j \in 1..Len(more)
  <2>1. CASE j = 1
    BY <1>1, <1>3, <2>1
  <2>2. CASE j > 1
    <3>1. PICK i \in 1..Len(rs) : j = i + 1
      BY <1>2, <1>3, <2>2
    <3> QED
      BY <1>3, <1>5, <3>1
  <2> QED
    BY <1>2, <1>3, <2>1, <2>2
<1>8. \A j \in 1..(Len(more) - 1) : j <= Len(ps) /\ Nth(ps, j) <= Nth(more, j + 1)
  <2> TAKE j \in 1..(Len(more) - 1)
  <2>1. j \in 1..Len(rs)
    BY <1>2, <1>3
  <2> QED
    BY <1>3, <1>5, <2>1
<1> QED
  BY <1>1, <1>2, <1>3, <1>4, <1>5, <1>6, <1>7, <1>8 DEF Calm, FollowsEach, FollowsOthers

(* Time runs for the histories, the clock and the timer alike.             *)
LEMMA CalmTick ==
    ASSUME PacingTyped, NEW c \in Connector, Calm(c), Tick
    PROVE  Calm(c)'
<1> DEFINE rs == redials[c]
           ps == attempts[c]
           rs2 == Aged(rs, stormWindow)
           ps2 == Aged(ps, stormWindow)
<1>1. /\ Aging(rs) /\ Aging(ps) /\ stormMax \in Nat \ {0} /\ stormWindow \in Nat \ {0}
      /\ reconnectFloor \in Nat /\ quiet[c] \in Nat /\ due[c] \in Nat
  BY PacingAssumption, BreakerAssumption DEF PacingTyped
<1>2. /\ Len(rs) \in Nat /\ Len(ps) \in Nat
      /\ \A j \in 1..Len(rs) : Nth(rs, j) \in Nat
      /\ \A j \in 1..Len(ps) : Nth(ps, j) \in Nat
  BY <1>1, NthFacts
<1>3. /\ Len(rs2) \in Nat /\ Len(rs2) <= Len(rs)
      /\ \A j \in 1..Len(rs2) : Nth(rs2, j) = Nth(rs, j) + 1 /\ Nth(rs, j) + 1 < stormWindow
  BY <1>1, AgedFacts, NthFacts
<1>4. /\ Len(ps2) \in Nat
      /\ \A j \in 1..Len(ps2) : Nth(ps2, j) = Nth(ps, j) + 1
      /\ \A j \in 1..Len(ps) : Nth(ps, j) + 1 < stormWindow => j <= Len(ps2)
  BY <1>1, AgedFacts, NthFacts
<1>5. /\ attempts'[c] = ps2 /\ redials'[c] = rs2 /\ Asleep(c)' = Asleep(c)
      /\ due'[c] = Left(due[c]) /\ quiet'[c] = Older(quiet[c], reconnectFloor)
  BY DEF Tick, Asleep, PacingTyped
<1>6. /\ Len(rs) <= stormMax + 1
      /\ \A j \in 1..Len(rs) : Nth(rs, j) < stormWindow
      /\ Asleep(c) => FollowsEach(c) /\ SleepsLong(c)
      /\ FollowsOthers(c)
  BY DEF Calm
<1>7. ASSUME NEW i \in 1..Len(ps), NEW j \in 1..Len(rs), j <= Len(rs2),
             Nth(ps, i) <= Nth(rs, j)
      PROVE  i <= Len(ps2) /\ Nth(ps2, i) <= Nth(rs2, j)
  <2> HIDE DEF rs, ps, rs2, ps2
  <2>1. j \in 1..Len(rs2)
    BY <1>2, <1>3, <1>7
  <2>2. Nth(rs2, j) = Nth(rs, j) + 1 /\ Nth(rs, j) + 1 < stormWindow
    BY <1>3, <2>1
  <2>3. Nth(ps, i) \in Nat /\ Nth(rs, j) \in Nat
    BY <1>2
  <2>4. Nth(ps, i) + 1 < stormWindow
    BY <1>1, <1>7, <2>2, <2>3
  <2>5. i \in 1..Len(ps2)
    BY <1>2, <1>4, <2>4
  <2>6. Nth(ps2, i) = Nth(ps, i) + 1
    BY <1>4, <2>5
  <2> QED
    BY <1>7, <2>2, <2>3, <2>5, <2>6
<1>10. ASSUME FollowsEach(c)
       PROVE  FollowsEach(c)'
  <2>1. \A j \in 1..Len(rs) : j <= Len(ps) /\ Nth(ps, j) <= Nth(rs, j)
    BY <1>10 DEF FollowsEach
  <2>2. ASSUME NEW j \in 1..Len(rs2)
        PROVE  j <= Len(ps2) /\ Nth(ps2, j) <= Nth(rs2, j)
    <3> HIDE DEF rs, ps, rs2, ps2
    <3>1. j \in 1..Len(rs) /\ j <= Len(rs2)
      BY <1>2, <1>3
    <3>2. j \in 1..Len(ps) /\ Nth(ps, j) <= Nth(rs, j)
      BY <1>2, <2>1, <3>1
    <3> QED
      BY <1>7, <3>1, <3>2
  <2> QED
    BY <1>5, <2>2 DEF FollowsEach
<1>11. FollowsOthers(c)'
  <2>1. \A j \in 1..(Len(rs) - 1) : j <= Len(ps) /\ Nth(ps, j) <= Nth(rs, j + 1)
    BY <1>6 DEF FollowsOthers
  <2>2. ASSUME NEW j \in 1..(Len(rs2) - 1)
        PROVE  j <= Len(ps2) /\ Nth(ps2, j) <= Nth(rs2, j + 1)
    <3> HIDE DEF rs, ps, rs2, ps2
    <3>1. j \in 1..(Len(rs) - 1) /\ j + 1 \in 1..Len(rs) /\ j + 1 <= Len(rs2)
      BY <1>2, <1>3
    <3>2. j \in 1..Len(ps) /\ Nth(ps, j) <= Nth(rs, j + 1)
      BY <1>2, <2>1, <3>1
    <3> QED
      BY <1>7, <3>1, <3>2
  <2> QED
    BY <1>5, <2>2 DEF FollowsOthers
<1>8. ASSUME SleepsLong(c)
      PROVE  SleepsLong(c)'
  <2>1. /\ Len(rs) = stormMax + 1 => Nth(rs, stormMax + 1) + due[c] >= stormWindow
        /\ quiet[c] + due[c] >= reconnectFloor
    BY <1>8 DEF SleepsLong
  <2>2. Len(rs2) = stormMax + 1 => Nth(rs2, stormMax + 1) + Left(due[c]) >= stormWindow
    <3> HIDE DEF rs, ps, rs2, ps2
    <3> HAVE Len(rs2) = stormMax + 1
    <3>1. Len(rs) = stormMax + 1 /\ stormMax + 1 \in 1..Len(rs2)
      BY <1>1, <1>2, <1>3, <1>6
    <3>2. /\ Nth(rs2, stormMax + 1) = Nth(rs, stormMax + 1) + 1
          /\ Nth(rs, stormMax + 1) + 1 < stormWindow /\ Nth(rs, stormMax + 1) \in Nat
      BY <1>2, <1>3, <3>1
    <3> QED
      BY <1>1, <2>1, <3>1, <3>2 DEF Left
  <2>3. Older(quiet[c], reconnectFloor) + Left(due[c]) >= reconnectFloor
    BY <1>1, <2>1 DEF Older, Left
  <2> QED
    BY <1>5, <2>2, <2>3 DEF SleepsLong
<1>9. /\ Len(rs2) <= stormMax + 1
      /\ \A j \in 1..Len(rs2) : Nth(rs2, j) < stormWindow
  <2> HIDE DEF rs, ps, rs2, ps2
  <2> QED
    BY <1>1, <1>2, <1>3, <1>6
<1> QED
  BY <1>5, <1>6, <1>8, <1>9, <1>10, <1>11 DEF Calm

(* One connector takes the step, the others are left alone.                *)
LEMMA StormStep == PacingTyped /\ StormInv /\ PacingStep => StormInv'
<1> SUFFICES ASSUME PacingTyped, StormInv, PacingStep PROVE StormInv'
  OBVIOUS
<1> USE DEF StormInv
<1>1. ASSUME NEW c \in Connector, ConnectorSteps(c)
      PROVE  StormInv'
  <2>1. CASE Redial(c)
    <3>1. Calm(c)' /\ quiet[c] >= reconnectFloor
      BY <2>1, CalmRedial
    <3>2. ASSUME NEW b \in Connector, b # c
          PROVE  Calm(b)'
      BY <2>1, <3>2, CalmFrame DEF Redial, Queue, Reserve, Asleep, PacingTyped
    <3>3. rushed' = {}
      BY <2>1, <3>1, PacingAssumption DEF Redial, PacingTyped
    <3> QED
      BY <3>1, <3>2, <3>3
  <2>2. CASE GoesToSleep(c) \/ Woken(c)
    <3>1. Pause(c) /\ UNCHANGED <<redials, quiet, rushed>>
      BY <2>2 DEF GoesToSleep, Woken
    <3>2. Calm(c)'
      BY <3>1, CalmPause
    <3>3. ASSUME NEW b \in Connector, b # c
          PROVE  Calm(b)'
      BY <3>1, <3>3, CalmFrame DEF Pause, Asleep, PacingTyped
    <3> QED
      BY <3>1, <3>2, <3>3
  <2>3. CASE Resume(c)
    <3>1. ASSUME NEW b \in Connector
          PROVE  Calm(b)'
      BY <2>3, CalmFrame DEF Resume, Queue, Reserve, Asleep, PacingTyped
    <3> QED
      BY <2>3, <3>1 DEF Resume
  <2>4. CASE Admit(c) \/ Park(c) \/ DialSucceeds(c) \/ ClearsClient(c)
    <3>1. /\ UNCHANGED <<due, attempts, redials, quiet, rushed>>
          /\ place' = [place EXCEPT ![c] = place'[c]] /\ place'[c] # "sleep"
      BY <2>4 DEF Admit, Park, DialSucceeds, ClearsClient, gateVars, stormVars, PacingTyped
    <3>2. ASSUME NEW b \in Connector
          PROVE  Calm(b)'
      BY <3>1, CalmFrame DEF Asleep, PacingTyped
    <3> QED
      BY <3>1, <3>2
  <2>5. CASE SessionEnds(c) \/ DialFails(c) \/ Registers(c) \/ HandshakeFails(c)
    <3>1. /\ UNCHANGED <<due, attempts, redials, rushed>>
          /\ quiet' = [quiet EXCEPT ![c] = quiet'[c]]
          /\ place' = [place EXCEPT ![c] = place'[c]] /\ place'[c] # "sleep"
      BY <2>5 DEF SessionEnds, DialFails, Registers, HandshakeFails, gateVars, PacingTyped
    <3>2. ASSUME NEW b \in Connector
          PROVE  Calm(b)'
      BY <3>1, CalmFrame DEF Asleep, PacingTyped
    <3> QED
      BY <3>1, <3>2
  <2> QED
    BY <1>1, <2>1, <2>2, <2>3, <2>4, <2>5 DEF ConnectorSteps
<1>2. CASE \E p \in Port : Collect(p)
  <2>1. UNCHANGED <<place, due, attempts, redials, quiet, rushed>>
    BY <1>2 DEF Collect, gateVars, stormVars
  <2>2. ASSUME NEW b \in Connector
        PROVE  Calm(b)'
    BY <2>1, CalmFrame DEF Asleep
  <2> QED
    BY <2>1, <2>2
<1>3. CASE Tick
  BY <1>3, CalmTick DEF Tick
<1>4. ASSUME NEW c \in Connector, Begin(c)
      PROVE  StormInv'
  <2>1. ASSUME NEW b \in Connector, b # c
        PROVE  Calm(b)'
    BY <1>4, <2>1, CalmFrame DEF Begin, Queue, Reserve, Fresh, Asleep, PacingTyped
  <2>2. Calm(c)'
    <3>1. redials'[c] = <<>> /\ ~Asleep(c)'
      BY <1>4 DEF Begin, Queue, Fresh, Asleep, PacingTyped
    <3>2. stormMax \in Nat
      BY PacingAssumption
    <3> QED
      BY <3>1, <3>2, EmptyAging DEF Calm, FollowsOthers
  <2> QED
    BY <1>4, <2>1, <2>2 DEF Begin
<1>5. ASSUME NEW c \in Connector, End(c) \/ Ended(c)
      PROVE  StormInv'
  <2>1. /\ UNCHANGED <<due, attempts, redials, quiet, rushed>>
        /\ place' = [place EXCEPT ![c] = place'[c]] /\ place'[c] # "sleep"
    BY <1>5 DEF End, Ended, gateVars, stormVars, PacingTyped
  <2>2. ASSUME NEW b \in Connector
        PROVE  Calm(b)'
    BY <2>1, CalmFrame DEF Asleep, PacingTyped
  <2> QED
    BY <2>1, <2>2
<1> QED
  BY <1>1, <1>2, <1>3, <1>4, <1>5 DEF PacingStep, PacingNext

LEMMA StormInit == PacingInit => StormInv
<1>1. ASSUME PacingInit, NEW c \in Connector
      PROVE  Calm(c)
  <2>1. redials[c] = <<>> /\ ~Asleep(c)
    BY <1>1 DEF PacingInit, Asleep
  <2>2. stormMax \in Nat
    BY PacingAssumption
  <2> QED
    BY <2>1, <2>2, EmptyAging DEF Calm, FollowsOthers
<1> QED
  BY <1>1 DEF StormInv, PacingInit

(* What the pool shows of the pacing is kept by a step that leaves it alone. *)
LEMMA PacingFrame ==
    UNCHANGED pacingVars =>
       /\ PacingTyped => PacingTyped'
       /\ StormInv => StormInv'
<1> SUFFICES ASSUME UNCHANGED pacingVars
    PROVE  (PacingTyped => PacingTyped') /\ (StormInv => StormInv')
  OBVIOUS
<1>1. UNCHANGED <<pace, place, due, idx, sessionAge, attempts, reserved, admitted, redials,
                  quiet, rushed>>
  BY DEF pacingVars, gateVars, stormVars
<1>2. PacingTyped => PacingTyped'
  BY <1>1 DEF PacingTyped
<1>3. StormInv => StormInv'
  BY <1>1, CalmFrame DEF StormInv, Asleep
<1> QED
  BY <1>2, <1>3

(* Every variable of the pacing has its type.                              *)
THEOREM PacingTypeCorrect == PoolSpec => []PacingTyped
<1>1. Init => PacingTyped
  BY InitTyped DEF Init
<1>2. PacingTyped /\ [Next]_vars => PacingTyped'
  BY PoolPaces, StepTyped, PacingFrame
<1> QED
  BY <1>1, <1>2, PTL DEF PoolSpec

(* No connector redials within the floor of the end of its link, and none
   redials more often in the breaker's window than the breaker allows and one,
   whatever wakes, parks or restarts it (connector.go:1707-1719,
   reconnect_storm.go:44-73).                                              *)
THEOREM RedialsArePacedHolds == PoolSpec => []RedialsArePaced
<1>1. Init => StormInv
  BY StormInit DEF Init
<1>2. PacingTyped /\ StormInv /\ [Next]_vars => StormInv'
  BY PoolPaces, StormStep, PacingFrame
<1>3. StormInv => RedialsArePaced
  BY DEF StormInv, Calm, RedialsArePaced
<1> QED
  BY <1>1, <1>2, <1>3, PacingTypeCorrect, PTL DEF PoolSpec

-----------------------------------------------------------------------------
(* The ident.                                                              *)

LEMMA ReportTyped ==
    ASSUME IdentTyped, NEW c \in Connector, NEW p \in Port \cup {NoPort}, ReportIdentPort(c, p)
    PROVE  /\ identPort' \in [Connector -> Port \cup {NoPort}]
           /\ registry' \in [Port -> Connector \cup {NoOne}]
           /\ identPort'[c] = p
           /\ \A b \in Connector : b # c => identPort'[b] = identPort[b]
           /\ \A q \in Port : registry'[q] =
                 IF q = p THEN c ELSE IF q = identPort[c] THEN NoOne ELSE registry[q]
BY DEF ReportIdentPort, IdentTyped

(* The registry and the reports agree, whoever reports what.               *)
LEMMA ReportAgrees ==
    ASSUME IdentTyped, NEW c \in Connector, NEW p \in Port \cup {NoPort}, ReportIdentPort(c, p),
           \A q \in Port : registry[q] # NoOne => identPort[registry[q]] = q
    PROVE  \A q \in Port : registry'[q] # NoOne => identPort'[registry'[q]] = q
<1> TAKE q \in Port
<1> HAVE registry'[q] # NoOne
<1>1. CASE q = p
  BY <1>1, ReportTyped, PacingAssumption
<1>2. CASE q # p
  <2>1. registry'[q] = registry[q] /\ q # identPort[c] /\ registry[q] # NoOne
    BY <1>2, ReportTyped
  <2>2. registry[q] \in Connector /\ identPort[registry[q]] = q
    BY <2>1 DEF IdentTyped
  <2>3. registry[q] # c
    BY <2>1, <2>2
  <2> QED
    BY <2>1, <2>2, <2>3, ReportTyped
<1> QED
  BY <1>1, <1>2

(* A link that keeps its socket keeps its entry, unless somebody clears a
   port of the same number.                                                *)
LEMMA LinkFrame ==
    ASSUME IdentTyped, IdentInv, NEW b \in Connector, NEW c \in Connector, b # c, Linked(b),
           NEW p \in Port \cup {NoPort}, ReportIdentPort(c, p), p # socket[b],
           socket'[b] = socket[b], socket[b] \notin crossed
    PROVE  registry'[socket[b]] = b
<1>1. socket[b] \in Port /\ registry[socket[b]] = b /\ identPort[c] # socket[b]
  BY DEF IdentInv, IdentTyped
<1> QED
  BY <1>1, ReportTyped

LEMMA DialIdent ==
    ASSUME IdentTyped, IdentInv, NEW c \in Connector, DialSucceeds(c)
    PROVE  IdentTyped' /\ IdentInv'
<1>1. PICK p \in pace.ports[c] \ held :
        /\ ReportIdentPort(c, p)
        /\ held' = held \cup {p}
        /\ socket' = [socket EXCEPT ![c] = p]
        /\ crossed' = (crossed \ {p}) \cup (IF Reported(p) \ {c} # {} THEN {p} ELSE {})
  BY DEF DialSucceeds
<1>2. p \in Port /\ p # NoPort /\ p \notin held
  BY <1>1, PacingAssumption DEF IdentTyped
<1>3. /\ place' = [place EXCEPT ![c] = "handshake"] /\ place[c] = "dial" /\ pace' = pace
  BY DEF DialSucceeds
<1>4. /\ identPort'[c] = p /\ \A b \in Connector : b # c => identPort'[b] = identPort[b]
      /\ registry'[p] = c
      /\ identPort' \in [Connector -> Port \cup {NoPort}]
      /\ registry' \in [Port -> Connector \cup {NoOne}]
  BY <1>1, <1>2, ReportTyped
<1>5. /\ socket'[c] = p /\ \A b \in Connector : b # c => socket'[b] = socket[b]
      /\ socket' \in [Connector -> Port \cup {NoPort}]
  BY <1>1, <1>2 DEF IdentTyped
<1>6. /\ place'[c] = "handshake" /\ \A b \in Connector : b # c => place'[b] = place[b]
      /\ place' \in [Connector -> Place]
  BY <1>3 DEF IdentTyped, Place
<1>7. IdentTyped'
  BY <1>1, <1>2, <1>3, <1>4, <1>5, <1>6 DEF IdentTyped
<1>8. \A q \in Port : registry'[q] # NoOne => identPort'[registry'[q]] = q
  BY <1>1, <1>2, ReportAgrees DEF IdentInv
<1>9. \A b \in Connector : identPort'[b] # NoPort => place'[b] # "off"
  BY <1>4, <1>6 DEF IdentInv
<1>10. \A b \in Connector : socket'[b] # NoPort => socket'[b] \in held'
  BY <1>1, <1>5 DEF IdentInv
<1>11. \A a, b \in Connector : socket'[a] = socket'[b] /\ socket'[a] # NoPort => a = b
  <2>1. \A b \in Connector : socket[b] # p
    BY <1>2 DEF IdentInv
  <2> QED
    BY <1>5, <2>1 DEF IdentInv
<1>12. ASSUME NEW b \in Connector, Linked(b)'
       PROVE  /\ socket'[b] # NoPort /\ identPort'[b] = socket'[b]
              /\ \A a \in Connector : a # b /\ identPort'[a] = socket'[b] =>
                    socket'[b] \in crossed'
              /\ socket'[b] \notin crossed' => registry'[socket'[b]] = b
  <2>1. CASE b = c
    <3>1. ASSUME NEW a \in Connector, a # c, identPort'[a] = p
          PROVE  p \in crossed'
      BY <1>1, <1>4, <3>1 DEF Reported
    <3> QED
      BY <1>2, <1>4, <1>5, <2>1, <3>1
  <2>2. CASE b # c
    <3>1. Linked(b) /\ socket'[b] = socket[b] /\ identPort'[b] = identPort[b]
      BY <1>4, <1>5, <1>6, <1>12, <2>2 DEF Linked
    <3>2. /\ socket[b] # NoPort /\ identPort[b] = socket[b]
          /\ \A a \in Connector : a # b /\ identPort[a] = socket[b] => socket[b] \in crossed
          /\ socket[b] \in held
      BY <3>1 DEF IdentInv
    <3>3. socket[b] # p
      BY <1>2, <3>2
    <3>4. socket[b] \in crossed' <=> socket[b] \in crossed
      BY <1>1, <3>3
    <3>5. \A a \in Connector : a # b /\ identPort'[a] = socket[b] => socket[b] \in crossed
      BY <1>4, <3>2, <3>3
    <3>6. socket[b] \notin crossed => registry'[socket[b]] = b
      BY <1>1, <1>2, <2>2, <3>1, <3>3, LinkFrame
    <3> QED
      BY <3>1, <3>2, <3>4, <3>5, <3>6
  <2> QED
    BY <2>1, <2>2
<1> QED
  BY <1>7, <1>8, <1>9, <1>10, <1>11, <1>12 DEF IdentInv

(* Whoever has no link clears its port.                                    *)
LEMMA ClearIdent ==
    ASSUME IdentTyped, IdentInv, NEW c \in Connector, ReportIdentPort(c, NoPort),
           NEW to \in Place \ {"handshake", "linked"},
           place' = [place EXCEPT ![c] = to], UNCHANGED <<pace, socket, held, crossed>>
    PROVE  IdentTyped' /\ IdentInv'
<1>1. /\ identPort'[c] = NoPort /\ \A b \in Connector : b # c => identPort'[b] = identPort[b]
      /\ identPort' \in [Connector -> Port \cup {NoPort}]
      /\ registry' \in [Port -> Connector \cup {NoOne}]
  BY ReportTyped
<1>2. /\ place'[c] = to /\ \A b \in Connector : b # c => place'[b] = place[b]
      /\ place' \in [Connector -> Place]
  BY DEF IdentTyped
<1>3. IdentTyped'
  BY <1>1, <1>2 DEF IdentTyped
<1>4. \A q \in Port : registry'[q] # NoOne => identPort'[registry'[q]] = q
  BY ReportAgrees DEF IdentInv
<1>5. ASSUME NEW b \in Connector, Linked(b)'
      PROVE  /\ socket[b] # NoPort /\ identPort'[b] = socket[b]
             /\ \A a \in Connector : a # b /\ identPort'[a] = socket[b] => socket[b] \in crossed
             /\ socket[b] \notin crossed => registry'[socket[b]] = b
  <2>1. b # c /\ Linked(b)
    BY <1>2, <1>5 DEF Linked
  <2>2. /\ socket[b] # NoPort /\ identPort[b] = socket[b]
        /\ \A a \in Connector : a # b /\ identPort[a] = socket[b] => socket[b] \in crossed
    BY <2>1 DEF IdentInv
  <2>3. \A a \in Connector : a # b /\ identPort'[a] = socket[b] => socket[b] \in crossed
    BY <1>1, <2>2
  <2>4. socket[b] \notin crossed => registry'[socket[b]] = b
    BY <2>1, <2>2, LinkFrame
  <2> QED
    BY <1>1, <2>1, <2>2, <2>3, <2>4
<1> QED
  BY <1>1, <1>2, <1>3, <1>4, <1>5 DEF IdentInv

(* A close gives up the connector's own socket and leaves its port.        *)
LEMMA CloseIdent ==
    ASSUME IdentTyped, IdentInv, NEW c \in Connector, Close(c),
           NEW to \in Place \ {"off", "handshake", "linked"},
           place' = [place EXCEPT ![c] = to], pace' = pace
    PROVE  IdentTyped' /\ IdentInv'
<1>1. /\ socket'[c] = NoPort /\ \A b \in Connector : b # c => socket'[b] = socket[b]
      /\ socket' \in [Connector -> Port \cup {NoPort}] /\ held' = held \ {socket[c]}
      /\ UNCHANGED <<identPort, registry, crossed>>
  BY DEF Close, IdentTyped
<1>2. /\ place'[c] = to /\ \A b \in Connector : b # c => place'[b] = place[b]
      /\ place' \in [Connector -> Place]
  BY DEF IdentTyped
<1>3. IdentTyped'
  BY <1>1, <1>2 DEF IdentTyped
<1>4. \A b \in Connector : socket'[b] # NoPort => socket'[b] \in held'
  BY <1>1 DEF IdentInv
<1>5. \A b \in Connector : Linked(b)' => Linked(b) /\ b # c
  BY <1>2 DEF Linked
<1> QED
  BY <1>1, <1>2, <1>3, <1>4, <1>5 DEF IdentInv

(* Any other step of a connector moves it, and makes no link.              *)
LEMMA MoveIdent ==
    ASSUME IdentTyped, IdentInv, NEW c \in Connector, NEW to \in Place \ {"off"},
           Linked(c) \/ to \notin {"handshake", "linked"},
           place' = [place EXCEPT ![c] = to], UNCHANGED <<pace, identVars>>
    PROVE  IdentTyped' /\ IdentInv'
<1>1. /\ place'[c] = to /\ \A b \in Connector : b # c => place'[b] = place[b]
      /\ place' \in [Connector -> Place]
  BY DEF IdentTyped
<1>2. UNCHANGED <<identPort, socket, held, registry, crossed>>
  BY DEF identVars
<1>3. IdentTyped'
  BY <1>1, <1>2 DEF IdentTyped
<1>4. \A b \in Connector : Linked(b)' => Linked(b)
  BY <1>1 DEF Linked
<1> QED
  BY <1>1, <1>2, <1>3, <1>4 DEF IdentInv

LEMMA IdentStep == IdentTyped /\ IdentInv /\ PacingStep => IdentTyped' /\ IdentInv'
<1> SUFFICES ASSUME IdentTyped, IdentInv, PacingStep PROVE IdentTyped' /\ IdentInv'
  OBVIOUS
<1>1. ASSUME NEW c \in Connector, ConnectorSteps(c)
      PROVE  IdentTyped' /\ IdentInv'
  <2>1. CASE DialSucceeds(c)
    BY <2>1, DialIdent
  <2>2. CASE ClearsClient(c)
    BY <2>2, ClearIdent DEF ClearsClient, Place
  <2>3. CASE HandshakeFails(c)
    BY <2>3, CloseIdent DEF HandshakeFails, Place
  <2>4. CASE Admit(c) \/ Redial(c) \/ Park(c) \/ Resume(c) \/ DialFails(c)
    <3>1. PICK to \in {"dial", "gate", "parked", "failed"} :
            place' = [place EXCEPT ![c] = to] /\ UNCHANGED <<pace, identVars>>
      BY <2>4 DEF Admit, Redial, Park, Resume, DialFails, Queue
    <3> QED
      BY <3>1, MoveIdent DEF Place
  <2>5. CASE SessionEnds(c) \/ GoesToSleep(c) \/ Woken(c)
    <3>1. PICK to \in {"ended", "sleep"} :
            place' = [place EXCEPT ![c] = to] /\ UNCHANGED <<pace, identVars>>
      BY <2>5 DEF SessionEnds, GoesToSleep, Woken, Pause
    <3> QED
      BY <3>1, MoveIdent DEF Place
  <2>6. CASE Registers(c)
    BY <2>6, MoveIdent DEF Registers, Place, Linked
  <2> QED
    BY <1>1, <2>1, <2>2, <2>3, <2>4, <2>5, <2>6 DEF ConnectorSteps
<1>2. ASSUME NEW p \in Port, Collect(p)
      PROVE  IdentTyped' /\ IdentInv'
  <2>1. /\ UNCHANGED <<pace, place, identPort, socket, registry, crossed>>
        /\ held' = held \ {p} /\ \A c \in Connector : socket[c] # p
    BY <1>2 DEF Collect
  <2> QED
    BY <2>1 DEF IdentTyped, IdentInv, Linked
<1>3. CASE Tick
  BY <1>3 DEF Tick, identVars, IdentTyped, IdentInv, Linked
<1>4. ASSUME NEW c \in Connector, Begin(c)
      PROVE  IdentTyped' /\ IdentInv'
  BY <1>4, MoveIdent DEF Begin, Queue, Place
<1>5. ASSUME NEW c \in Connector, End(c)
      PROVE  IdentTyped' /\ IdentInv'
  BY <1>5, CloseIdent DEF End, Place
<1>6. ASSUME NEW c \in Connector, Ended(c)
      PROVE  IdentTyped' /\ IdentInv'
  BY <1>6, ClearIdent DEF Ended, Place
<1> QED
  BY <1>1, <1>2, <1>3, <1>4, <1>5, <1>6 DEF PacingStep, PacingNext

(* A link is answered for by its owner from before its handshake on, unless
   its port was another's to clear; and no ident outlives the run it belongs
   to (registry.go, connector.go:353-377).                                 *)
THEOREM IdentIsOwnersHolds == PoolSpec => []IdentIsOwners
<1>1. Init => IdentTyped /\ IdentInv
  BY PacingAssumption DEF Init, PacingInit, IdentTyped, IdentInv, Linked, Place
<1>2. IdentTyped /\ IdentInv /\ [Next]_vars => (IdentTyped /\ IdentInv)'
  <2>1. UNCHANGED pacingVars /\ IdentTyped /\ IdentInv => IdentTyped' /\ IdentInv'
    BY DEF pacingVars, identVars, IdentTyped, IdentInv, Linked
  <2> QED
    BY <2>1, PoolPaces, IdentStep
<1>3. IdentTyped /\ IdentInv => IdentIsOwners
  <2> SUFFICES ASSUME IdentTyped, IdentInv PROVE IdentIsOwners
    OBVIOUS
  <2>1. \A p \in Port : registry[p] # NoOne =>
           place[registry[p]] # "off" /\ identPort[registry[p]] = p
    BY PacingAssumption DEF IdentTyped, IdentInv
  <2> QED
    BY <2>1 DEF IdentInv, Linked, IdentIsOwners
<1> QED
  BY <1>1, <1>2, <1>3, PTL DEF PoolSpec

-----------------------------------------------------------------------------
(* The pool.                                                               *)

(* What a tenant's own step may do to its supervisor.                      *)
LEMMA SupervisorStep ==
    ASSUME PoolInv, NEW i \in Instance, phase' = [phase EXCEPT ![i] = phase'[i]],
           phase'[i] \in Live => phase[i] \in Live, UNCHANGED <<run, leaving, stopped, attached>>
    PROVE  PoolInv'
<1>1. \A t \in Tenant : \A g \in Gen : Running(t, g)' => Running(t, g)
  BY DEF PoolInv, Running, Instance
<1> QED
  BY <1>1 DEF PoolInv, Awaited

LEMMA UpsertKeeps ==
    ASSUME PoolInv, run \in {"boot", "loop"}, run' \in {"boot", "updating"},
           NEW t \in Tenant, NEW s, Upsert(t, s), UNCHANGED <<leaving, stopped>>
    PROVE  PoolInv'
<1>1. CASE attached[t] # 0
  BY <1>1 DEF Upsert, PoolInv, Running, Awaited
<1>2. CASE attached[t] = 0
  <2>1. PICK g \in Gen : /\ attached' = [attached EXCEPT ![t] = g]
                         /\ phase' = [phase EXCEPT ![<<t, g>>] = "between"]
    BY <1>2 DEF Upsert
  <2>2. \A h \in Gen : h \in Nat /\ h # 0
    <3>1. Cardinality(Gen) \in Nat
      BY PoolAssumption, FS_CardinalityType
    <3> QED
      BY <3>1, PoolAssumption
  <2>3. \A h \in Gen : ~Running(t, h)
    BY <1>2, <2>2 DEF PoolInv, Awaited
  <2>4. \A u \in Tenant : \A h \in Gen :
           Running(u, h)' => (u = t /\ h = g) \/ (u # t /\ Running(u, h))
    BY <2>1, <2>3 DEF PoolInv, Running, Instance
  <2>5. attached' \in [Tenant -> Nat] /\ DOMAIN phase' = Instance
    BY <2>1, <2>2 DEF PoolInv
  <2>6. \A u \in Tenant : \A h \in Gen : Running(u, h)' => attached'[u] = h
    BY <2>1, <2>4 DEF PoolInv, Awaited
  <2>7. \A u \in Tenant : \A h, k \in Gen : Running(u, h)' /\ Running(u, k)' => h = k
    BY <2>4 DEF PoolInv
  <2> QED
    BY <2>5, <2>6, <2>7 DEF PoolInv
<1> QED
  BY <1>1, <1>2

LEMMA RunKeeps == PoolInv /\ RunNext => PoolInv'
<1> SUFFICES ASSUME PoolInv, RunNext PROVE PoolInv'
  OBVIOUS
<1>1. CASE Initial
  BY <1>1 DEF Initial, PoolInv, tenantVars, Running, Awaited
<1>2. CASE Seed \/ Updated
  BY <1>2 DEF Seed, Updated, PoolInv, tenantVars, Running, Awaited
<1>3. CASE Drained
  <2>1. \A t \in Tenant : \A g \in Gen : Running(t, g) => leaving # <<t, g>>
    BY <1>3 DEF Drained, Running, Live
  <2> QED
    BY <1>3, <2>1 DEF Drained, PoolInv, tenantVars, Running, Awaited
<1>4. CASE Shutdown
  <2>1. ASSUME NEW t \in Tenant, NEW g \in Gen, Running(t, g)
        PROVE  <<t, g>> \in stopped'
    <3>1. attached[t] = g /\ g # 0
      <4>1. Cardinality(Gen) \in Nat
        BY PoolAssumption, FS_CardinalityType
      <4> QED
        BY <1>4, <2>1, <4>1, PoolAssumption DEF Shutdown, PoolInv, Awaited
    <3> QED
      BY <1>4, <3>1 DEF Shutdown, Of
  <2> QED
    BY <1>4, <2>1 DEF Shutdown, PoolInv, Running, Awaited
<1>5. CASE Returns
  <2>1. \A t \in Tenant : \A g \in Gen : ~Running(t, g)
    <3>1. Cardinality(Gen) \in Nat
      BY PoolAssumption, FS_CardinalityType
    <3>2. \A g \in Gen : g # 0
      BY <3>1, PoolAssumption
    <3> QED
      BY <1>5, <3>2 DEF Returns, PoolInv, Running, Awaited, Live
  <2> QED
    BY <1>5, <2>1 DEF Returns, PoolInv, tenantVars, Running
<1>6. ASSUME NEW t \in Tenant, Boot(t) \/ Upserted(t)
      PROVE  PoolInv'
  BY <1>6, UpsertKeeps DEF Boot, Upserted
<1>7. ASSUME NEW t \in Tenant, Removed(t)
      PROVE  PoolInv'
  <2>1. CASE attached[t] = 0
    BY <1>7, <2>1 DEF Removed, PoolInv, Running, Awaited
  <2>2. CASE attached[t] # 0
    <3>1. /\ attached' = [attached EXCEPT ![t] = 0]
          /\ run = "loop" /\ run' = "draining" /\ leaving' = <<t, attached[t]>>
          /\ phase' = phase
      BY <1>7, <2>2 DEF Removed, Awaits, Of
    <3>2. \A u \in Tenant : \A g \in Gen : Running(u, g) => attached[u] = g
      BY <3>1 DEF PoolInv, Awaited
    <3> QED
      BY <3>1, <3>2 DEF PoolInv, Running, Awaited
  <2> QED
    BY <2>1, <2>2
<1> QED
  BY <1>1, <1>2, <1>3, <1>4, <1>5, <1>6, <1>7 DEF RunNext

LEMMA PoolStep == PoolInv /\ [Next]_vars => PoolInv'
<1> SUFFICES ASSUME PoolInv, [Next]_vars PROVE PoolInv'
  OBVIOUS
<1>1. CASE UNCHANGED <<run, leaving, attached, stopped, phase>>
  BY <1>1 DEF PoolInv, Running, Awaited
<1>2. CASE \E t \in Tenant : Mark(t) \/ \E s \in Spec \cup {Absent} : Edit(t, s)
  BY <1>1, <1>2 DEF Mark, MarkStep, Edit, runVars, tenantVars, workVars
<1>3. CASE Cancel \/ PollNext \/ FlushNext
  BY <1>1, <1>3 DEF Cancel, PollNext, Fetch, DiffDone, PollEnds, PollStep, FlushNext, Flush,
         Posted, MarkStep, runVars, tenantVars, workVars
<1>4. CASE RunNext
  BY <1>4, RunKeeps
<1>5. CASE Pacing
  BY <1>1, <1>5 DEF Pacing, runVars, tenantVars, workVars
<1>6. ASSUME NEW i \in Instance, TenantNext(i) \/ Giving(i) \/ Panic(i)
      PROVE  PoolInv'
  <2>1. TenantStep
    BY <1>6 DEF TenantNext, Giving, Build, Starts, Started, StopCloses, StopWaits, HangsUp,
           Again, Done, StartFails, StopCollects, Panic
  <2>2. UNCHANGED <<run, leaving, stopped, attached>>
    BY <2>1 DEF TenantStep, runVars, tenantVars
  <2>3. CASE Starts(i) \/ StopCloses(i) \/ HangsUp(i)
    BY <1>1, <2>2, <2>3 DEF Starts, StopCloses, HangsUp, workVars
  <2>4. CASE Build(i) \/ Started(i) \/ StopWaits(i) \/ Again(i) \/ Done(i)
    <3>1. phase' = [phase EXCEPT ![i] = phase'[i]] /\ phase[i] \in Live
      BY <2>4 DEF Build, Started, StopWaits, Again, Done, Live, PoolInv
    <3> QED
      BY <2>2, <3>1, SupervisorStep
  <2>5. CASE Giving(i) \/ Panic(i)
    <3>1. phase' = [phase EXCEPT ![i] = phase'[i]] /\ phase[i] \in Live
      BY <2>5 DEF Giving, StartFails, StopCollects, Panic, Live, PoolInv
    <3> QED
      BY <2>2, <3>1, SupervisorStep
  <2> QED
    BY <1>6, <2>3, <2>4, <2>5 DEF TenantNext
<1>7. CASE \E c \in Client : ClientNext(c) \/ Arrives(c) \/ ReadReturns(c) \/ SessionOver(c)
  BY <1>1, <1>7 DEF ClientNext, Route, Deliver, ServeConn, Adds, Handle, Exit, Arrives,
         ReadReturns, Line, ReadFails, SessionOver, ClientStep, runVars, tenantVars, workVars
<1>8. CASE UNCHANGED vars
  BY <1>1, <1>8 DEF vars, runVars, tenantVars, workVars
<1> QED
  BY <1>2, <1>3, <1>4, <1>5, <1>6, <1>7, <1>8 DEF Next

(* A tenant never runs twice, and none runs when Run has returned
   (server.go:163-197).                                                    *)
THEOREM OneAtATimeHolds == PoolSpec => []OneAtATime
<1>1. Init => PoolInv
  <2>1. ASSUME Init, NEW t \in Tenant, NEW g \in Gen
        PROVE  ~Running(t, g)
    BY <2>1 DEF Init, Running, Live, Instance
  <2>2. Init => /\ attached \in [Tenant -> Nat] /\ DOMAIN phase = Instance
                /\ \A t \in Tenant : attached[t] = 0
    BY DEF Init
  <2> QED
    BY <2>1, <2>2 DEF PoolInv
<1>2. PoolInv => OneAtATime
  <2> SUFFICES ASSUME PoolInv, NEW t \in Tenant
               PROVE  Cardinality({g \in Gen : phase[<<t, g>>] \in Live})
                         <= (IF run = "returned" THEN 0 ELSE 1)
    BY DEF OneAtATime
  <2> DEFINE running == {g \in Gen : phase[<<t, g>>] \in Live}
  <2>1. \A g \in Gen : g # 0
    <3>1. Cardinality(Gen) \in Nat
      BY PoolAssumption, FS_CardinalityType
    <3> QED
      BY <3>1, PoolAssumption
  <2>2. CASE running = {}
    <3>1. Cardinality(running) = 0
      BY <2>2, FS_EmptySet
    <3> QED
      BY <3>1
  <2>3. CASE running # {}
    <3>1. PICK g \in Gen : g \in running
      BY <2>3
    <3>2. running = {g}
      BY <3>1 DEF PoolInv, Running
    <3>3. run # "returned"
      BY <2>1, <3>1 DEF PoolInv, Running, Awaited
    <3>4. Cardinality(running) = 1
      BY <3>2, FS_Singleton
    <3> QED
      BY <3>3, <3>4
  <2> QED
    BY <2>2, <2>3
<1> QED
  BY <1>1, <1>2, PoolStep, PTL DEF PoolSpec

-----------------------------------------------------------------------------
(* The feed.                                                               *)

FeedTypes ==
    /\ attached \in [Tenant -> Gen \cup {0}] /\ DOMAIN spec = Instance
    /\ DOMAIN feed = Tenant /\ DOMAIN known = Tenant

FeedInv == FeedTypes /\ SentIsServed

LEMMA NoGenIsZero == 0 \notin Gen
<1>1. Cardinality(Gen) \in Nat
  BY PoolAssumption, FS_CardinalityType
<1> QED BY <1>1, PoolAssumption

LEMMA FeedStarts == Init => FeedInv
<1> SUFFICES ASSUME Init PROVE FeedInv
  OBVIOUS
<1>1. DOMAIN feed = Tenant
  BY PoolAssumption DEF Init
<1> QED BY <1>1 DEF Init, FeedInv, FeedTypes, SentIsServed, Following

LEMMA FeedFrame ==
  ASSUME FeedInv, UNCHANGED <<run, feed, attached, spec, known, slipped>>
  PROVE  FeedInv'
  BY DEF FeedInv, FeedTypes, SentIsServed, Following, Serves, Of

(* An upsert makes the server serve this tenant's spec, and leaves the others. *)
LEMMA UpsertServes ==
  ASSUME FeedInv, NEW t \in Tenant, NEW s, Upsert(t, s)
  PROVE  /\ attached' \in [Tenant -> Gen \cup {0}] /\ DOMAIN spec' = Instance
         /\ Serves(t)' = s
         /\ \A u \in Tenant : u # t => Serves(u)' = Serves(u)
<1>1. CASE attached[t] # 0
  <2>1. spec' = [spec EXCEPT ![<<t, attached[t]>>] = s] /\ attached' = attached
    BY <1>1 DEF Upsert, Of
  <2>2. <<t, attached[t]>> \in Instance
    BY <1>1 DEF FeedInv, FeedTypes, Instance
  <2>3. spec'[<<t, attached[t]>>] = s
    BY <2>1, <2>2 DEF FeedInv, FeedTypes
  <2>4. \A u \in Tenant : u # t => spec'[<<u, attached[u]>>] = spec[<<u, attached[u]>>]
    BY <2>1, <2>2 DEF FeedInv, FeedTypes
  <2> QED BY <1>1, <2>1, <2>3, <2>4 DEF FeedInv, FeedTypes, Serves, Of
<1>2. CASE attached[t] = 0
  <2>1. PICK g \in Gen : attached' = [attached EXCEPT ![t] = g]
                         /\ spec' = [spec EXCEPT ![<<t, g>>] = s]
    BY <1>2 DEF Upsert
  <2>2. <<t, g>> \in Instance /\ g # 0
    BY NoGenIsZero DEF Instance
  <2>3. attached'[t] = g /\ spec'[<<t, g>>] = s
    BY <2>1, <2>2 DEF FeedInv, FeedTypes
  <2>4. \A u \in Tenant : u # t => /\ attached'[u] = attached[u]
                                   /\ spec'[<<u, attached[u]>>] = spec[<<u, attached[u]>>]
    BY <2>1, <2>2 DEF FeedInv, FeedTypes
  <2>5. attached' \in [Tenant -> Gen \cup {0}] /\ DOMAIN spec' = Instance
    BY <2>1 DEF FeedInv, FeedTypes
  <2> QED BY <2>2, <2>3, <2>4, <2>5 DEF Serves, Of
<1> QED BY <1>1, <1>2

(* The first fetch of the poll: where it tells something else, that has slipped. *)
LEMMA SeedKeeps ==
  ASSUME FeedInv, Seed
  PROVE  FeedInv'
<1>1. PICK baseline \in {feed, [t \in Tenant |-> Absent]} :
         known' = baseline /\ slipped' = {t \in Tenant : baseline[t] # Serves(t)}
  BY DEF Seed
<1>2. UNCHANGED <<feed, attached, spec>>
  BY DEF Seed, RunStep, tenantVars
<1>3. \A t \in Tenant : Serves(t)' = Serves(t)
  BY <1>2 DEF Serves, Of
<1>4. FeedTypes'
  BY <1>1, <1>2 DEF FeedInv, FeedTypes
<1> QED BY <1>1, <1>3, <1>4 DEF FeedInv, SentIsServed

(* An event that is applied.                                               *)
LEMMA UpsertedKeeps ==
  ASSUME FeedInv, NEW t \in Tenant, Upserted(t)
  PROVE  FeedInv'
<1>1. /\ Upsert(t, batch[t]) /\ known' = [known EXCEPT ![t] = batch[t]]
      /\ slipped' = slipped \ {t} /\ feed' = feed /\ run = "loop"
  BY DEF Upserted, Known, RunStep
<1>2. FeedTypes' /\ known'[t] = batch[t] /\ \A u \in Tenant : u # t => known'[u] = known[u]
  BY <1>1, UpsertServes DEF FeedInv, FeedTypes
<1>3. ASSUME NEW u \in Tenant \ slipped' PROVE Serves(u)' = known'[u]
  BY <1>1, <1>2, <1>3, UpsertServes DEF FeedInv, SentIsServed, Following
<1> QED BY <1>2, <1>3 DEF FeedInv, SentIsServed

LEMMA RemovedKeeps ==
  ASSUME FeedInv, NEW t \in Tenant, Removed(t)
  PROVE  FeedInv'
<1>1. /\ known' = [known EXCEPT ![t] = Absent] /\ slipped' = slipped \ {t}
      /\ UNCHANGED <<feed, spec>> /\ run = "loop"
  BY DEF Removed, Known, RunStep
<1>2. /\ attached' \in [Tenant -> Gen \cup {0}] /\ attached'[t] = 0
      /\ \A u \in Tenant : u # t => attached'[u] = attached[u]
  BY DEF Removed, FeedInv, FeedTypes
<1>3. FeedTypes' /\ known'[t] = Absent /\ \A u \in Tenant : u # t => known'[u] = known[u]
  BY <1>1, <1>2 DEF FeedInv, FeedTypes
<1>4. ASSUME NEW u \in Tenant \ slipped' PROVE Serves(u)' = known'[u]
  BY <1>1, <1>2, <1>3, <1>4 DEF FeedInv, SentIsServed, Following, Serves, Of
<1> QED BY <1>3, <1>4 DEF FeedInv, SentIsServed

LEMMA RunKeepsFeed ==
  ASSUME FeedInv, RunNext
  PROVE  FeedInv'
<1>1. CASE Updated \/ Drained
  <2>1. Following /\ UNCHANGED <<feed, attached, spec, known, slipped>>
    BY <1>1 DEF Updated, Drained, RunStep, tenantVars, Following
  <2> QED BY <2>1 DEF FeedInv, FeedTypes, SentIsServed, Serves, Of
<1>2. CASE Initial \/ Returns
  BY <1>2 DEF Initial, Returns, RunStep, tenantVars, FeedInv, FeedTypes, SentIsServed, Following
<1>3. CASE Shutdown
  BY <1>3 DEF Shutdown, RunStep, FeedInv, FeedTypes, SentIsServed, Following
<1>4. ASSUME NEW t \in Tenant, Boot(t) PROVE FeedInv'
  BY <1>4, UpsertServes DEF Boot, RunStep, FeedInv, FeedTypes, SentIsServed, Following
<1> QED
  BY <1>1, <1>2, <1>3, <1>4, SeedKeeps, UpsertedKeeps, RemovedKeeps DEF RunNext

LEMMA FeedKeeps == FeedInv /\ [Next]_vars => FeedInv'
<1> SUFFICES ASSUME FeedInv, [Next]_vars PROVE FeedInv'
  OBVIOUS
<1>1. ASSUME NEW t \in Tenant, NEW s \in Spec \cup {Absent}, Edit(t, s) PROVE FeedInv'
  BY <1>1 DEF Edit, runVars, tenantVars, FeedInv, FeedTypes, SentIsServed, Following, Serves, Of
<1>2. CASE RunNext
  BY <1>2, RunKeepsFeed
<1>3. ASSUME NEW t \in Tenant, Mark(t) PROVE FeedInv'
  BY <1>3, FeedFrame DEF Mark, MarkStep, feedVars, runVars, tenantVars
<1>4. CASE Cancel \/ PollNext \/ FlushNext \/ Pacing
  BY <1>4, FeedFrame DEF Cancel, PollNext, Fetch, DiffDone, PollEnds, PollStep, FlushNext, Flush,
     Posted, MarkStep, Pacing, feedVars, runVars, tenantVars
<1>5. ASSUME NEW i \in Instance, TenantNext(i) \/ Giving(i) \/ Panic(i) PROVE FeedInv'
  <2>1. TenantStep
    BY <1>5 DEF TenantNext, Giving, Build, Starts, Started, StopCloses, StopWaits, HangsUp,
           Again, Done, StartFails, StopCollects, Panic
  <2> QED BY <2>1, FeedFrame DEF TenantStep, feedVars, runVars, tenantVars
<1>6. CASE \E c \in Client : ClientNext(c) \/ Arrives(c) \/ ReadReturns(c) \/ SessionOver(c)
  BY <1>6, FeedFrame DEF ClientNext, Route, Deliver, ServeConn, Adds, Handle, Exit, Arrives,
     ReadReturns, Line, ReadFails, SessionOver, ClientStep, feedVars, runVars, tenantVars
<1>7. CASE UNCHANGED vars
  BY <1>7, FeedFrame DEF vars, feedVars, runVars, tenantVars
<1> QED
  BY <1>1, <1>2, <1>3, <1>4, <1>5, <1>6, <1>7 DEF Next

(* What the poll has handed over is what the server serves, for any number of
   tenants and edits at any moment (http_source.go:43-120, server.go:136-197). *)
THEOREM SentIsServedHolds == PoolSpec => []SentIsServed
<1>1. FeedInv => SentIsServed
  BY DEF FeedInv
<1> QED
  BY <1>1, FeedStarts, FeedKeeps, PTL DEF PoolSpec

-----------------------------------------------------------------------------
(* The gate.                                                               *)

LEMMA Products ==
    ASSUME NEW m \in Int, NEW n \in Nat
    PROVE  /\ m * n \in Int /\ (m + 1) * n = m * n + n
           /\ \A l \in Int : l <= m => l * n <= m * n
<1>1. m * n \in Int /\ (m + 1) * n = m * n + n
  OBVIOUS
<1>2. ASSUME NEW l \in Int, l <= m
      PROVE  l * n <= m * n
  <2>1. (m - l) \in Nat /\ (m - l) * n \in Nat
    BY <1>2
  <2>2. m * n = l * n + (m - l) * n
    OBVIOUS
  <2>3. l * n \in Int
    OBVIOUS
  <2> QED
    BY <1>1, <2>1, <2>2, <2>3
<1> QED
  BY <1>1, <1>2

(* Division by the interval.                                               *)
LEMMA Quotient ==
    ASSUME NEW m \in Int, NEW n \in Nat \ {0}, NEW x \in Nat, m * n <= x
    PROVE  m <= x \div n
<1>1. /\ x \div n \in Int
      /\ x = n * (x \div n) + (x % n) /\ 0 <= x % n /\ x % n < n
  OBVIOUS
<1> DEFINE q == x \div n
<1>2. q \in Int /\ x < (q + 1) * n
  <2>1. (q + 1) * n = q * n + n /\ n * q = q * n
    BY <1>1
  <2>2. x % n \in Int /\ q * n \in Int
    BY <1>1
  <2> QED
    BY <1>1, <2>1, <2>2
<1> HIDE DEF q
<1>3. m < q + 1
  <2>1. SUFFICES ASSUME q + 1 <= m PROVE FALSE
    BY <1>2
  <2>2. (q + 1) * n <= m * n
    BY <1>2, <2>1, Products
  <2>3. (q + 1) * n \in Int /\ m * n \in Int
    BY <1>2
  <2> QED
    BY <1>2, <2>2, <2>3
<1> QED
  BY <1>2, <1>3 DEF q

LEMMA Rates ==
    ASSUME PacingTyped, Gated
    PROVE  /\ pace.interval \in Nat \ {0} /\ Ahead \in Nat /\ Ahead >= pace.interval
           /\ pace.window \in Nat
<1>1. burst \in Nat \ {0} /\ pace.interval \in Nat \ {0} /\ pace.window \in Nat
  BY PacingAssumption DEF PacingTyped, Gated
<1> QED
  BY <1>1, BurstCovers DEF Ahead

LEMMA SpanFacts ==
    ASSUME PacingTyped, Gated
    PROVE  /\ \A m \in Int : Span(m) \in Int /\ Span(m + 1) = Span(m) + pace.interval
           /\ \A l, m \in Int : l <= m => Span(l) <= Span(m)
           /\ Span(0) = 0
<1>1. pace.interval \in Nat
  BY Rates
<1>2. \A m \in Int : Span(m) \in Int /\ Span(m + 1) = Span(m) + pace.interval
  BY <1>1, Products DEF Span
<1>3. ASSUME NEW l \in Int, NEW m \in Int, l <= m
      PROVE  Span(l) <= Span(m)
  BY <1>1, <1>3, Products DEF Span
<1> QED
  BY <1>1, <1>2, <1>3 DEF Span

LEMMA ReserveGated ==
    ASSUME Gated, NEW c, Reserve(c)
    PROVE  due' = [due EXCEPT ![c] = Larger(0, (reserved[KeyOf[c]] + pace.interval) - Ahead)]
BY DEF Reserve

LEMMA WaitFacts ==
    ASSUME PacingTyped, NEW k \in Key, NEW from \in Nat
    PROVE  /\ IsFiniteSet(Waiting(k, from)) /\ Cardinality(Waiting(k, from)) \in Nat
           /\ \A until \in Nat :
                 /\ IsFiniteSet(Waits(k, from, until))
                 /\ Cardinality(Waits(k, from, until)) \in Nat
                 /\ Cardinality(Waits(k, from, until)) <= Cardinality(Waiting(k, from))
<1>1. IsFiniteSet(Waiting(k, from))
  <2>1. Waiting(k, from) \subseteq Connector
    BY DEF Waiting
  <2> QED
    BY <2>1, PacingAssumption, FS_Subset
<1>2. \A until \in Nat : Waits(k, from, until) \subseteq Waiting(k, from)
  BY DEF Waits
<1> QED
  BY <1>1, <1>2, FS_Subset, FS_CardinalityType

(* Fewer waits need no more of a reservation.                              *)
LEMMA WaitsShrink ==
    ASSUME PacingTyped, PacingTyped', Gated, NEW k \in Key, BucketInv(k), pace' = pace,
           reserved'[k] = reserved[k],
           \A from \in Nat :
              /\ Waiting(k, from)' \subseteq Waiting(k, from)
              /\ \A until \in Nat : Waits(k, from, until)' \subseteq Waits(k, from, until)
    PROVE  \A from \in Nat :
              /\ \A until \in Nat : from <= until => WaitsOnly(k, from, until)'
              /\ ReservedAfterWait(k, from)'
<1>1. /\ pace.interval \in Nat /\ Ahead' = Ahead /\ pace'.interval = pace.interval
      /\ Ahead \in Nat
  BY Rates DEF Ahead
<1>2. reserved[k] \in Nat
  BY DEF PacingTyped
<1>3. ASSUME NEW from \in Nat
      PROVE  /\ \A until \in Nat : from <= until => WaitsOnly(k, from, until)'
             /\ ReservedAfterWait(k, from)'
  <2>1. ASSUME NEW until \in Nat, from <= until PROVE WaitsOnly(k, from, until)'
    <3> DEFINE m == Cardinality(Waits(k, from, until))
               l == Cardinality(Waits(k, from, until)')
    <3>1. m \in Nat /\ l \in Nat /\ l <= m
      BY WaitFacts, FS_Subset, FS_CardinalityType
    <3>2. Span(m) <= until - from + Ahead
      BY <2>1 DEF BucketInv, WaitsOnly
    <3> HIDE DEF m, l
    <3>4. Span(l) \in Int /\ Span(m) \in Int /\ Span(l) <= Span(m)
      BY <3>1, SpanFacts
    <3>5. Span(l) <= until - from + Ahead
      BY <1>1, <3>2, <3>4
    <3> QED
      BY <1>1, <3>5 DEF WaitsOnly, Span, l
  <2>2. ReservedAfterWait(k, from)'
    <3> DEFINE m == Cardinality(Waiting(k, from))
               l == Cardinality(Waiting(k, from)')
    <3>1. m \in Nat /\ l \in Nat /\ l <= m
      BY WaitFacts, FS_Subset, FS_CardinalityType
    <3>2. Waiting(k, from) # {} => Span(m) + from <= reserved[k]
      BY DEF BucketInv, ReservedAfterWait
    <3> HIDE DEF m, l
    <3>4. Span(l) \in Int /\ Span(m) \in Int /\ Span(l) <= Span(m)
      BY <3>1, SpanFacts
    <3>5. Waiting(k, from)' # {} => Span(l) + from <= reserved[k]
      BY <1>2, <3>2, <3>4
    <3> QED
      BY <1>1, <3>5 DEF ReservedAfterWait, Span, l
  <2> QED
    BY <2>1, <2>2
<1> QED
  BY <1>3

(* A bucket keeps its invariant when nothing is reserved or admitted and
   nobody joins those who wait.                                            *)
LEMMA BucketShrinks ==
    ASSUME PacingTyped, PacingTyped', Gated, NEW k \in Key, BucketInv(k), pace' = pace,
           admitted'[k] = admitted[k], reserved'[k] = reserved[k],
           \A c \in Connector :
              place'[c] = "gate" => place[c] = "gate" /\ due'[c] = due[c]
    PROVE  BucketInv(k)'
<1>1. /\ pace.interval \in Nat /\ Ahead' = Ahead /\ pace'.interval = pace.interval
      /\ Ahead \in Nat
  BY Rates DEF Ahead
<1>2. \A from \in Nat :
        /\ Waiting(k, from)' \subseteq Waiting(k, from)
        /\ \A until \in Nat : Waits(k, from, until)' \subseteq Waits(k, from, until)
  BY DEF Waiting, Waits
<1>3. /\ Len(admitted[k]) \in Nat
      /\ \A j \in 1..Len(admitted[k]) : Nth(admitted[k], j) \in Nat
      /\ reserved[k] \in Nat
  BY NthFacts DEF PacingTyped
<1>4. ASSUME NEW j \in 1..Len(admitted[k])
      PROVE  (\A until \in Nat : DialsAndWaits(k, j, until)') /\ ReservedAfterDial(k, j)'
  <2>1. ASSUME NEW until \in Nat PROVE DialsAndWaits(k, j, until)'
    <3> DEFINE m == Cardinality(Waits(k, 0, until))
               l == Cardinality(Waits(k, 0, until)')
    <3>1. m \in Nat /\ l \in Nat /\ l <= m
      BY <1>2, WaitFacts, FS_Subset, FS_CardinalityType
    <3>2. Span(j + m) <= Nth(admitted[k], j) + until + Ahead
      BY DEF BucketInv, DialsAndWaits
    <3> HIDE DEF m, l
    <3>3. j + l \in Int /\ j + m \in Int /\ j + l <= j + m
      BY <3>1
    <3>4. Span(j + l) \in Int /\ Span(j + m) \in Int /\ Span(j + l) <= Span(j + m)
      BY <3>3, SpanFacts
    <3>5. Span(j + l) <= Nth(admitted[k], j) + until + Ahead
      BY <1>1, <1>3, <3>2, <3>4
    <3> QED
      BY <1>1, <3>5 DEF DialsAndWaits, Span, l
  <2>2. ReservedAfterDial(k, j)'
    <3> DEFINE m == Cardinality(Waiting(k, 0))
               l == Cardinality(Waiting(k, 0)')
    <3>1. m \in Nat /\ l \in Nat /\ l <= m
      BY <1>2, WaitFacts, FS_Subset, FS_CardinalityType
    <3>2. Span(j + m) <= reserved[k] + Nth(admitted[k], j)
      BY DEF BucketInv, ReservedAfterDial
    <3> HIDE DEF m, l
    <3>3. j + l \in Int /\ j + m \in Int /\ j + l <= j + m
      BY <3>1
    <3>4. Span(j + l) \in Int /\ Span(j + m) \in Int /\ Span(j + l) <= Span(j + m)
      BY <3>3, SpanFacts
    <3>5. Span(j + l) <= reserved[k] + Nth(admitted[k], j)
      BY <1>1, <1>3, <3>2, <3>4
    <3> QED
      BY <1>1, <3>5 DEF ReservedAfterDial, Span, l
  <2> QED
    BY <2>1, <2>2
<1>5. \A from \in Nat :
        /\ \A until \in Nat : from <= until => WaitsOnly(k, from, until)'
        /\ ReservedAfterWait(k, from)'
  BY <1>2, WaitsShrink
<1>6. Spaced(k)'
  <2>1. \A c \in Waiting(k, 1)' : c \in Waiting(k, 1) /\ due'[c] = due[c]
    BY DEF Waiting
  <2>2. \A b, c \in Waiting(k, 1) :
           /\ due[c] + Ahead <= reserved[k]
           /\ b # c => \/ due[b] + pace.interval <= due[c]
                       \/ due[c] + pace.interval <= due[b]
    BY DEF BucketInv, Spaced
  <2> QED
    BY <1>1, <2>1, <2>2 DEF Spaced
<1> QED
  BY <1>4, <1>5, <1>6 DEF BucketInv

(* Whoever joins those who wait reserves a token after all the others.     *)
LEMMA BucketQueue ==
    ASSUME PacingTyped, PacingTyped', Gated, NEW c \in Connector, place[c] # "gate",
           BucketInv(KeyOf[c]), Queue(c), pace' = pace, admitted' = admitted
    PROVE  BucketInv(KeyOf[c])'
<1> DEFINE k == KeyOf[c]
           d == due'[c]
<1>1. /\ pace.interval \in Nat \ {0} /\ Ahead' = Ahead /\ pace'.interval = pace.interval
      /\ Ahead \in Nat /\ Ahead >= pace.interval /\ k \in Key
  BY Rates, PacingAssumption DEF Ahead
<1>2. /\ Len(admitted[k]) \in Nat /\ admitted'[k] = admitted[k]
      /\ \A j \in 1..Len(admitted[k]) : Nth(admitted[k], j) \in Nat
      /\ reserved[k] \in Nat /\ reserved'[k] = reserved[k] + pace.interval
  BY <1>1, NthFacts DEF PacingTyped, Queue, Reserve
<1>3. /\ d \in Nat /\ reserved[k] + pace.interval <= d + Ahead
      /\ d = 0 \/ d = reserved[k] + pace.interval - Ahead
  <2>1. d = Larger(0, (reserved[k] + pace.interval) - Ahead)
    <3>1. due' = [due EXCEPT ![c] = Larger(0, (reserved[k] + pace.interval) - Ahead)]
      BY ReserveGated DEF Queue
    <3>2. c \in DOMAIN due
      BY DEF PacingTyped
    <3> HIDE DEF k
    <3> QED
      BY <3>1, <3>2
  <2> HIDE DEF d, k
  <2> QED
    BY <1>1, <1>2, <2>1 DEF Larger
<1>4. \A b \in Connector : b # c => place'[b] = place[b] /\ due'[b] = due[b]
  BY DEF Queue, Reserve, PacingTyped
<1>5. place'[c] = "gate"
  BY DEF Queue, PacingTyped
<1> HIDE DEF k, d
<1>6. \A from \in Nat :
        /\ c \notin Waiting(k, from)
        /\ Waiting(k, from)' = IF from <= d THEN Waiting(k, from) \cup {c} ELSE Waiting(k, from)
  BY <1>4, <1>5 DEF Waiting, d, k
<1>7. \A from, until \in Nat :
        /\ c \notin Waits(k, from, until)
        /\ Waits(k, from, until)' = IF from <= d /\ d <= until
                                    THEN Waits(k, from, until) \cup {c}
                                    ELSE Waits(k, from, until)
  BY <1>4, <1>5 DEF Waits, Waiting, d, k
<1>11. ASSUME NEW from \in Nat
       PROVE  /\ Cardinality(Waiting(k, from)) \in Nat
              /\ Cardinality(Waiting(k, from)') =
                    IF from <= d THEN Cardinality(Waiting(k, from)) + 1
                                 ELSE Cardinality(Waiting(k, from))
  <2>1. /\ IsFiniteSet(Waiting(k, from)) /\ Cardinality(Waiting(k, from)) \in Nat
        /\ c \notin Waiting(k, from)
    BY <1>1, <1>6, WaitFacts
  <2>2. Cardinality(Waiting(k, from) \cup {c}) = Cardinality(Waiting(k, from)) + 1
    BY <2>1, FS_AddElement
  <2> QED
    BY <1>6, <2>1, <2>2
<1>12. ASSUME NEW from \in Nat, NEW until \in Nat
       PROVE  Cardinality(Waits(k, from, until)') =
                 IF from <= d /\ d <= until THEN Cardinality(Waits(k, from, until)) + 1
                                            ELSE Cardinality(Waits(k, from, until))
  <2>1. IsFiniteSet(Waits(k, from, until)) /\ c \notin Waits(k, from, until)
    BY <1>1, <1>7, WaitFacts
  <2>2. Cardinality(Waits(k, from, until) \cup {c}) = Cardinality(Waits(k, from, until)) + 1
    BY <2>1, FS_AddElement
  <2> QED
    BY <1>7, <2>1, <2>2
<1>8. ASSUME NEW j \in 1..Len(admitted[k])
      PROVE  ReservedAfterDial(k, j)' /\ \A until \in Nat : DialsAndWaits(k, j, until)'
  <2> DEFINE m == Cardinality(Waiting(k, 0))
  <2>1. m \in Nat /\ Cardinality(Waiting(k, 0)') = m + 1
    BY <1>1, <1>3, <1>11
  <2>2. Span(j + m) <= reserved[k] + Nth(admitted[k], j)
    BY DEF BucketInv, ReservedAfterDial, k
  <2> HIDE DEF m
  <2>3. /\ j + m \in Int /\ Span(j + m + 1) = Span(j + m) + pace.interval
        /\ Span(j + m) \in Int /\ j + m + 1 = j + (m + 1)
    <3>1. j + m \in Int /\ j + m + 1 = j + (m + 1)
      BY <2>1
    <3> QED
      BY <3>1, SpanFacts
  <2>4. Span(j + (m + 1)) <= reserved[k] + pace.interval + Nth(admitted[k], j)
    BY <1>1, <1>2, <2>2, <2>3
  <2>5. ReservedAfterDial(k, j)'
    BY <1>1, <1>2, <2>1, <2>4 DEF ReservedAfterDial, Span
  <2>6. ASSUME NEW until \in Nat
        PROVE  DialsAndWaits(k, j, until)'
    <3> DEFINE q == Cardinality(Waits(k, 0, until))
    <3>1. q \in Nat /\ q <= m
      BY <1>1, WaitFacts DEF m
    <3>2. Span(j + q) <= Nth(admitted[k], j) + until + Ahead
      BY DEF BucketInv, DialsAndWaits, k
    <3>3. Cardinality(Waits(k, 0, until)') = IF d <= until THEN q + 1 ELSE q
      <4>1. 0 <= d /\ 0 \in Nat
        BY <1>3
      <4> QED
        BY <1>12, <4>1
    <3> HIDE DEF q
    <3>4. d <= until => Span(j + (q + 1)) <= Nth(admitted[k], j) + until + Ahead
      <4>1. j + (q + 1) \in Int /\ j + (m + 1) \in Int /\ j + (q + 1) <= j + (m + 1)
        BY <2>1, <3>1
      <4>2. /\ Span(j + (q + 1)) <= Span(j + (m + 1))
            /\ Span(j + (q + 1)) \in Int /\ Span(j + (m + 1)) \in Int
        BY <4>1, SpanFacts
      <4>3. Nth(admitted[k], j) \in Nat /\ reserved[k] \in Nat
        BY <1>2
      <4>4. d <= until => reserved[k] + pace.interval <= until + Ahead
        BY <1>1, <1>3, <4>3
      <4>5. Span(j + (q + 1)) <= reserved[k] + pace.interval + Nth(admitted[k], j)
        BY <1>1, <2>4, <4>2, <4>3
      <4> QED
        BY <1>1, <4>2, <4>3, <4>4, <4>5
    <3>5. CASE d <= until
      <4>1. Cardinality(Waits(k, 0, until)') = q + 1
        BY <3>3, <3>5
      <4>2. Span(j + (q + 1)) <= Nth(admitted[k], j) + until + Ahead
        BY <3>4, <3>5
      <4> QED
        BY <1>1, <1>2, <4>1, <4>2 DEF DialsAndWaits, Span
    <3>6. CASE ~(d <= until)
      BY <1>1, <1>2, <3>2, <3>3, <3>6 DEF DialsAndWaits, Span
    <3> QED
      BY <3>5, <3>6
  <2> QED
    BY <2>5, <2>6
<1>9. ASSUME NEW from \in Nat
      PROVE  /\ ReservedAfterWait(k, from)'
             /\ \A until \in Nat : from <= until => WaitsOnly(k, from, until)'
  <2> DEFINE m == Cardinality(Waiting(k, from))
  <2>1. /\ m \in Nat
        /\ Cardinality(Waiting(k, from)') = IF from <= d THEN m + 1 ELSE m
        /\ Waiting(k, from) = {} => m = 0
    BY <1>11, FS_EmptySet
  <2>2. Waiting(k, from) # {} => Span(m) + from <= reserved[k]
    BY DEF BucketInv, ReservedAfterWait, k
  <2> HIDE DEF m
  <2>3. /\ Span(m + 1) = Span(m) + pace.interval /\ Span(m) \in Int /\ Span(m + 1) \in Int
        /\ Span(0) = 0
    BY <2>1, SpanFacts
  <2>4. from <= d => /\ Span(m + 1) + from <= reserved[k] + pace.interval
                     /\ Span(m + 1) + from <= d + Ahead
    <3>1. CASE m = 0
      <4>1. Span(m) = 0 /\ Span(m + 1) = pace.interval
        BY <1>1, <2>3, <3>1
      <4> QED
        BY <1>1, <1>2, <1>3, <4>1
    <3>2. CASE m # 0
      <4>1. Span(m) + from <= reserved[k]
        BY <2>1, <2>2, <3>2
      <4> QED
        BY <1>1, <1>2, <1>3, <2>3, <4>1
    <3> QED
      BY <3>1, <3>2
  <2>5. ReservedAfterWait(k, from)'
    <3>1. CASE from <= d
      BY <1>1, <1>2, <2>1, <2>4, <3>1 DEF ReservedAfterWait, Span
    <3>2. CASE ~(from <= d)
      <4>1. Waiting(k, from)' = Waiting(k, from)
        BY <1>6, <3>2
      <4>2. Waiting(k, from) # {} => Span(m) + from <= reserved'[k]
        BY <1>1, <1>2, <2>2, <2>3
      <4> QED
        BY <1>1, <2>1, <3>2, <4>1, <4>2 DEF ReservedAfterWait, Span
    <3> QED
      BY <3>1, <3>2
  <2>6. ASSUME NEW until \in Nat, from <= until
        PROVE  WaitsOnly(k, from, until)'
    <3> DEFINE q == Cardinality(Waits(k, from, until))
    <3>1. q \in Nat /\ q <= m
      BY <1>1, WaitFacts DEF m
    <3>2. Span(q) <= until - from + Ahead
      BY <2>6 DEF BucketInv, WaitsOnly, k
    <3>3. Cardinality(Waits(k, from, until)') =
             IF from <= d /\ d <= until THEN q + 1 ELSE q
      BY <1>12
    <3> HIDE DEF q
    <3>4. from <= d /\ d <= until => Span(q + 1) <= until - from + Ahead
      <4>1. q + 1 \in Int /\ m + 1 \in Int /\ q + 1 <= m + 1
        BY <2>1, <3>1
      <4>2. Span(q + 1) <= Span(m + 1) /\ Span(q + 1) \in Int
        BY <4>1, SpanFacts
      <4> QED
        BY <1>1, <1>3, <2>3, <2>4, <4>2
    <3> QED
      BY <1>1, <3>2, <3>3, <3>4 DEF WaitsOnly, Span
  <2> QED
    BY <2>5, <2>6
<1>10. Spaced(k)'
  <2>1. \A b \in Waiting(k, 1)' :
           \/ b # c /\ b \in Waiting(k, 1) /\ due'[b] = due[b]
           \/ b = c /\ d >= 1 /\ due'[b] = d
    BY <1>4, <1>6 DEF d, Waiting
  <2>2. \A a, b \in Waiting(k, 1) :
           /\ due[b] + Ahead <= reserved[k]
           /\ a # b => \/ due[a] + pace.interval <= due[b]
                       \/ due[b] + pace.interval <= due[a]
    BY DEF BucketInv, Spaced, k
  <2>3. \A b \in Waiting(k, 1) : due[b] \in Nat
    BY DEF Waiting, PacingTyped
  <2>4. \A b \in Waiting(k, 1) : d >= 1 => due[b] + pace.interval <= d
    BY <1>1, <1>2, <1>3, <2>2, <2>3
  <2>5. d >= 1 => d + Ahead <= reserved'[k]
    BY <1>1, <1>2, <1>3
  <2>6. \A b \in Waiting(k, 1) : due[b] + Ahead <= reserved'[k]
    BY <1>1, <1>2, <2>2, <2>3
  <2> QED
    BY <1>1, <2>1, <2>2, <2>4, <2>5, <2>6 DEF Spaced
<1> QED
  BY <1>2, <1>8, <1>9, <1>10 DEF BucketInv, k

(* A dial takes the place of a wait that is due.                           *)
LEMMA BucketAdmit ==
    ASSUME PacingTyped, PacingTyped', Gated, NEW c \in Connector,
           BucketInv(KeyOf[c]), Admit(c)
    PROVE  BucketInv(KeyOf[c])'
<1> DEFINE k == KeyOf[c]
           dials == admitted[k]
           more == Append(dials, 0)
<1>1. /\ pace.interval \in Nat \ {0} /\ Ahead' = Ahead /\ pace'.interval = pace.interval
      /\ Ahead \in Nat /\ k \in Key
  BY Rates, PacingAssumption DEF Ahead, Admit
<1>2. /\ Len(dials) \in Nat /\ admitted'[k] = more
      /\ \A j \in 1..Len(dials) : Nth(dials, j) \in Nat
      /\ reserved[k] \in Nat /\ reserved'[k] = reserved[k] /\ due' = due
  BY <1>1, NthFacts DEF PacingTyped, Admit
<1>3. /\ Len(more) = Len(dials) + 1 /\ Nth(more, 1) = 0
      /\ \A j \in 1..Len(dials) : Nth(more, j + 1) = Nth(dials, j)
  BY <1>1, AppendFacts DEF PacingTyped
<1>4. /\ place[c] = "gate" /\ due[c] = 0 /\ place'[c] # "gate"
      /\ \A b \in Connector : b # c => place'[b] = place[b]
  BY DEF Admit, PacingTyped
<1> HIDE DEF k, dials, more
<1>5. \A until \in Nat :
        /\ c \in Waits(k, 0, until) /\ Waits(k, 0, until)' = Waits(k, 0, until) \ {c}
        /\ c \in Waiting(k, 0) /\ Waiting(k, 0)' = Waiting(k, 0) \ {c}
  BY <1>2, <1>4 DEF Waits, Waiting, k, PacingTyped
<1>6. \A from, until \in Nat :
        /\ Waiting(k, from)' \subseteq Waiting(k, from)
        /\ Waits(k, from, until)' \subseteq Waits(k, from, until)
  BY <1>2, <1>4 DEF Waits, Waiting
<1>7. \A until \in Nat :
        /\ Cardinality(Waits(k, 0, until)) \in Nat
        /\ Cardinality(Waits(k, 0, until)') + 1 = Cardinality(Waits(k, 0, until))
        /\ Cardinality(Waits(k, 0, until)') \in Nat
  <2> TAKE until \in Nat
  <2>1. /\ IsFiniteSet(Waits(k, 0, until)) /\ Cardinality(Waits(k, 0, until)) \in Nat
        /\ IsFiniteSet(Waits(k, 0, until) \ {c})
    BY <1>1, WaitFacts, FS_RemoveElement
  <2>2. Cardinality(Waits(k, 0, until) \ {c}) = Cardinality(Waits(k, 0, until)) - 1
    BY <1>5, <2>1, FS_RemoveElement
  <2>3. Cardinality(Waits(k, 0, until) \ {c}) \in Nat
    BY <2>1, FS_CardinalityType
  <2>4. Waits(k, 0, until)' = Waits(k, 0, until) \ {c}
    BY <1>5
  <2> QED
    BY <2>1, <2>2, <2>3, <2>4
<1>8. /\ Cardinality(Waiting(k, 0)) \in Nat
      /\ Cardinality(Waiting(k, 0)') + 1 = Cardinality(Waiting(k, 0))
      /\ Cardinality(Waiting(k, 0)') \in Nat
  <2>1. /\ IsFiniteSet(Waiting(k, 0)) /\ Cardinality(Waiting(k, 0)) \in Nat
        /\ IsFiniteSet(Waiting(k, 0) \ {c})
    BY <1>1, WaitFacts, FS_RemoveElement
  <2>2. Cardinality(Waiting(k, 0) \ {c}) = Cardinality(Waiting(k, 0)) - 1
    BY <1>5, <2>1, FS_RemoveElement
  <2>3. Cardinality(Waiting(k, 0) \ {c}) \in Nat
    BY <2>1, FS_CardinalityType
  <2>4. Waiting(k, 0)' = Waiting(k, 0) \ {c}
    BY <1>5
  <2> QED
    BY <2>1, <2>2, <2>3, <2>4
<1>9. ASSUME NEW until \in Nat, NEW j \in 1..Len(more)
      PROVE  DialsAndWaits(k, j, until)'
  <2> DEFINE q == Cardinality(Waits(k, 0, until))
             l == Cardinality(Waits(k, 0, until)')
  <2>1. l + 1 = q /\ l \in Nat /\ q \in Nat
    BY <1>7
  <2> HIDE DEF q, l
  <2>2. Span(j + l) <= Nth(more, j) + until + Ahead
    <3>1. CASE j = 1
      <4>1. 0 <= until /\ Span(q) <= until - 0 + Ahead
        BY DEF BucketInv, WaitsOnly, k, q
      <4>2. j + l = q
        BY <2>1, <3>1
      <4> QED
        BY <1>1, <1>3, <3>1, <4>1, <4>2
    <3>2. CASE j # 1
      <4>1. PICK i \in 1..Len(dials) : j = i + 1
        <5>1. j - 1 \in 1..Len(dials) /\ j = (j - 1) + 1
          BY <1>2, <1>3, <3>2
        <5> QED
          BY <5>1
      <4>2. Span(i + q) <= Nth(dials, i) + until + Ahead
        BY DEF BucketInv, DialsAndWaits, k, q, dials
      <4>3. j + l = i + q
        BY <2>1, <4>1
      <4> QED
        BY <1>3, <4>1, <4>2, <4>3
    <3> QED
      BY <3>1, <3>2
  <2> QED
    BY <1>1, <1>2, <2>2 DEF DialsAndWaits, Span, l
<1>10. ASSUME NEW j \in 1..Len(more)
       PROVE  ReservedAfterDial(k, j)'
  <2> DEFINE q == Cardinality(Waiting(k, 0))
             l == Cardinality(Waiting(k, 0)')
  <2>1. l + 1 = q /\ l \in Nat /\ q \in Nat
    BY <1>8
  <2> HIDE DEF q, l
  <2>2. Span(j + l) <= reserved[k] + Nth(more, j)
    <3>1. CASE j = 1
      <4>1. Span(q) + 0 <= reserved[k]
        BY <1>5 DEF BucketInv, ReservedAfterWait, k, q
      <4>2. j + l = q /\ Span(q) \in Int
        BY <2>1, <3>1, SpanFacts
      <4> QED
        BY <1>2, <1>3, <3>1, <4>1, <4>2
    <3>2. CASE j # 1
      <4>1. PICK i \in 1..Len(dials) : j = i + 1
        <5>1. j - 1 \in 1..Len(dials) /\ j = (j - 1) + 1
          BY <1>2, <1>3, <3>2
        <5> QED
          BY <5>1
      <4>2. Span(i + q) <= reserved[k] + Nth(dials, i)
        BY DEF BucketInv, ReservedAfterDial, k, q, dials
      <4>3. j + l = i + q
        BY <2>1, <4>1
      <4> QED
        BY <1>3, <4>1, <4>2, <4>3
    <3> QED
      BY <3>1, <3>2
  <2> QED
    BY <1>1, <1>2, <2>2 DEF ReservedAfterDial, Span, l
<1>11. BucketInv(k)
  BY DEF k
<1>12. \A from \in Nat :
        /\ \A until \in Nat : from <= until => WaitsOnly(k, from, until)'
        /\ ReservedAfterWait(k, from)'
  BY <1>1, <1>2, <1>6, <1>11, WaitsShrink DEF Admit
<1>13. Spaced(k)'
  <2>1. \A b \in Waiting(k, 1)' : b \in Waiting(k, 1) /\ due'[b] = due[b]
    BY <1>2, <1>6
  <2> QED
    BY <1>1, <1>2, <1>11, <2>1 DEF BucketInv, Spaced
<1> QED
  BY <1>2, <1>9, <1>10, <1>12, <1>13 DEF BucketInv, k

(* A token is given back by the last of those who wait: the others are due an
   interval earlier.                                                       *)
LEMMA BucketGivesBack ==
    ASSUME PacingTyped, PacingTyped', Gated, NEW c \in Connector, BucketInv(KeyOf[c]),
           place[c] = "gate", place'[c] # "gate",
           due[c] > 0, due[c] = reserved[KeyOf[c]] - Ahead,
           reserved'[KeyOf[c]] = reserved[KeyOf[c]] - pace.interval,
           \A b \in Connector : b # c => place'[b] = place[b],
           UNCHANGED <<pace, due, admitted>>
    PROVE  BucketInv(KeyOf[c])'
<1> DEFINE k == KeyOf[c]
<1>1. /\ pace.interval \in Nat \ {0} /\ Ahead' = Ahead /\ pace'.interval = pace.interval
      /\ Ahead \in Nat /\ k \in Key
  BY Rates, PacingAssumption DEF Ahead
<1>2. /\ Len(admitted[k]) \in Nat
      /\ \A j \in 1..Len(admitted[k]) : Nth(admitted[k], j) \in Nat
      /\ reserved[k] \in Nat /\ due[c] \in Nat
      /\ reserved'[k] = reserved[k] - pace.interval
      /\ due[c] = reserved[k] - Ahead
  BY <1>1, NthFacts DEF PacingTyped
<1>3. BucketInv(k)
  BY DEF k
<1> HIDE DEF k
<1>4. \A from \in Nat :
        /\ Waiting(k, from)' = Waiting(k, from) \ {c}
        /\ \A until \in Nat : Waits(k, from, until)' \subseteq Waits(k, from, until)
        /\ from <= due[c] => c \in Waiting(k, from)
  BY DEF Waits, Waiting, k
<1>5. \A b \in Waiting(k, 1)' :
        /\ due[b] + pace.interval <= due[c] /\ due[b] \in Nat
        /\ b \in Waiting(k, 1)
  <2> TAKE b \in Waiting(k, 1)'
  <2>1. b \in Waiting(k, 1) /\ b # c /\ c \in Waiting(k, 1)
    BY <1>2, <1>4
  <2>2. due[b] \in Nat
    BY <2>1 DEF Waiting, PacingTyped
  <2>3. /\ due[b] + Ahead <= reserved[k]
        /\ due[b] + pace.interval <= due[c] \/ due[c] + pace.interval <= due[b]
    BY <1>3, <2>1 DEF BucketInv, Spaced
  <2> QED
    BY <1>1, <1>2, <2>1, <2>2, <2>3
<1>6. ASSUME NEW from \in Nat
      PROVE  /\ from <= due[c] =>
                   Cardinality(Waiting(k, from)) = Cardinality(Waiting(k, from)') + 1
             /\ Waiting(k, from)' # {} => from <= due[c]
             /\ Cardinality(Waiting(k, from)') \in Nat
             /\ Cardinality(Waiting(k, from)) \in Nat
  <2>1. IsFiniteSet(Waiting(k, from)) /\ Cardinality(Waiting(k, from)) \in Nat
    BY <1>1, WaitFacts
  <2>2. /\ IsFiniteSet(Waiting(k, from) \ {c})
        /\ c \in Waiting(k, from) =>
              Cardinality(Waiting(k, from) \ {c}) = Cardinality(Waiting(k, from)) - 1
    BY <2>1, FS_RemoveElement
  <2>3. Cardinality(Waiting(k, from) \ {c}) \in Nat
    BY <2>2, FS_CardinalityType
  <2>4. Waiting(k, from)' # {} => from <= due[c]
    <3>1. ASSUME NEW b \in Waiting(k, from)', ~(from <= due[c])
          PROVE  FALSE
      <4>1. b \in Waiting(k, 1)' /\ from <= due[b]
        BY <1>2, <3>1 DEF Waiting, PacingTyped
      <4>2. due[b] \in Nat /\ due[b] + pace.interval <= due[c]
        BY <1>5, <4>1
      <4> QED
        BY <1>1, <1>2, <3>1, <4>1, <4>2
    <3> QED
      BY <3>1
  <2>5. Waiting(k, from)' = Waiting(k, from) \ {c}
    BY <1>4
  <2>6. Cardinality(Waiting(k, from)') = Cardinality(Waiting(k, from) \ {c})
    BY <2>5
  <2>7. from <= due[c] => c \in Waiting(k, from)
    BY <1>4
  <2>8. from <= due[c] =>
           Cardinality(Waiting(k, from)) = Cardinality(Waiting(k, from)') + 1
    BY <2>1, <2>2, <2>6, <2>7
  <2>9. Cardinality(Waiting(k, from)') \in Nat
    BY <2>3, <2>6
  <2> QED
    BY <2>1, <2>4, <2>8, <2>9
<1>7. ASSUME NEW from \in Nat
      PROVE  ReservedAfterWait(k, from)'
  <2> DEFINE m == Cardinality(Waiting(k, from))
             l == Cardinality(Waiting(k, from)')
  <2>1. Waiting(k, from)' # {} => from <= due[c] /\ m = l + 1
    BY <1>6
  <2>2. m \in Nat /\ l \in Nat
    BY <1>6
  <2>3. Waiting(k, from)' # {} => Span(m) + from <= reserved[k]
    BY <1>3, <1>4 DEF BucketInv, ReservedAfterWait
  <2> HIDE DEF m, l
  <2>4. Span(l + 1) = Span(l) + pace.interval /\ Span(l) \in Int
    BY <2>2, SpanFacts
  <2>5. Waiting(k, from)' # {} => Span(l) + from <= reserved'[k]
    BY <1>1, <1>2, <2>1, <2>3, <2>4
  <2> QED
    BY <1>1, <2>5 DEF ReservedAfterWait, Span, l
<1>8. ASSUME NEW j \in 1..Len(admitted[k])
      PROVE  ReservedAfterDial(k, j)'
  <2> DEFINE m == Cardinality(Waiting(k, 0))
             l == Cardinality(Waiting(k, 0)')
  <2>1. m = l + 1 /\ m \in Nat /\ l \in Nat
    <3>1. 0 <= due[c] /\ 0 \in Nat
      BY <1>2
    <3> QED
      BY <1>6, <3>1
  <2>2. Span(j + m) <= reserved[k] + Nth(admitted[k], j)
    BY <1>3 DEF BucketInv, ReservedAfterDial
  <2> HIDE DEF m, l
  <2>3. j + l \in Int /\ j + m = (j + l) + 1
    BY <2>1
  <2>4. Span(j + m) = Span(j + l) + pace.interval /\ Span(j + l) \in Int
    BY <2>3, SpanFacts
  <2>5. Span(j + l) <= reserved'[k] + Nth(admitted[k], j)
    BY <1>1, <1>2, <2>2, <2>4
  <2> QED
    BY <1>1, <2>5 DEF ReservedAfterDial, Span, l
<1>9. ASSUME NEW j \in 1..Len(admitted[k]), NEW until \in Nat
      PROVE  DialsAndWaits(k, j, until)'
  <2> DEFINE m == Cardinality(Waits(k, 0, until))
             l == Cardinality(Waits(k, 0, until)')
  <2>1. m \in Nat /\ l \in Nat /\ l <= m
    BY <1>1, <1>4, WaitFacts, FS_Subset, FS_CardinalityType
  <2>2. Span(j + m) <= Nth(admitted[k], j) + until + Ahead
    BY <1>3 DEF BucketInv, DialsAndWaits
  <2> HIDE DEF m, l
  <2>3. j + l \in Int /\ j + m \in Int /\ j + l <= j + m
    BY <2>1
  <2>4. Span(j + l) <= Span(j + m) /\ Span(j + l) \in Int /\ Span(j + m) \in Int
    BY <2>3, SpanFacts
  <2>5. Span(j + l) <= Nth(admitted[k], j) + until + Ahead
    BY <1>1, <1>2, <2>2, <2>4
  <2> QED
    BY <1>1, <2>5 DEF DialsAndWaits, Span, l
<1>10. ASSUME NEW from \in Nat, NEW until \in Nat, from <= until
       PROVE  WaitsOnly(k, from, until)'
  <2> DEFINE m == Cardinality(Waits(k, from, until))
             l == Cardinality(Waits(k, from, until)')
  <2>1. m \in Nat /\ l \in Nat /\ l <= m
    BY <1>1, <1>4, WaitFacts, FS_Subset, FS_CardinalityType
  <2>2. Span(m) <= until - from + Ahead
    BY <1>3, <1>10 DEF BucketInv, WaitsOnly
  <2> HIDE DEF m, l
  <2>3. Span(l) <= Span(m) /\ Span(l) \in Int /\ Span(m) \in Int
    BY <2>1, SpanFacts
  <2>4. Span(l) <= until - from + Ahead
    BY <1>1, <2>2, <2>3
  <2> QED
    BY <1>1, <2>4 DEF WaitsOnly, Span, l
<1>11. Spaced(k)'
  <2>1. \A b \in Waiting(k, 1)' : due[b] + Ahead <= reserved'[k]
    BY <1>1, <1>2, <1>5
  <2>2. \A a, b \in Waiting(k, 1) :
           a # b => \/ due[a] + pace.interval <= due[b]
                    \/ due[b] + pace.interval <= due[a]
    BY <1>3 DEF BucketInv, Spaced
  <2> QED
    BY <1>1, <1>5, <2>1, <2>2 DEF Spaced
<1> QED
  BY <1>7, <1>8, <1>9, <1>10, <1>11 DEF BucketInv, k

(* Nobody waits past its time: when time passes, all are due later.        *)
LEMMA BucketTick ==
    ASSUME PacingTyped, PacingTyped', Gated, NEW k \in Key, BucketInv(k), Tick
    PROVE  BucketInv(k)'
<1> DEFINE dials == admitted[k]
           older == Aged(dials, pace.window)
<1>1. /\ pace.interval \in Nat \ {0} /\ Ahead' = Ahead /\ pace'.interval = pace.interval
      /\ Ahead \in Nat /\ pace.window \in Nat
  BY Rates DEF Ahead, Tick
<1>2. /\ Len(dials) \in Nat /\ admitted'[k] = older
      /\ \A j \in 1..Len(dials) : Nth(dials, j) \in Nat
      /\ reserved[k] \in Nat /\ reserved'[k] = Left(reserved[k])
  BY NthFacts DEF PacingTyped, Tick
<1>3. /\ Len(older) \in Nat
      /\ \A j \in 1..Len(older) : j \in 1..Len(dials) /\ Nth(older, j) = Nth(dials, j) + 1
  <2>1. /\ Aging(older) /\ Len(older) <= Len(dials)
        /\ \A j \in 1..Len(older) : Nth(older, j) = Nth(dials, j) + 1
    BY <1>1, AgedFacts DEF PacingTyped
  <2>2. Len(older) \in Nat
    BY <2>1, NthFacts
  <2> HIDE DEF older, dials
  <2> QED
    BY <1>2, <2>1, <2>2
<1> HIDE DEF dials, older
<1>4. \A c \in Connector : place'[c] = "gate" =>
         place[c] = "gate" /\ due[c] \in Nat \ {0} /\ due'[c] = due[c] - 1
  <2> TAKE c \in Connector
  <2> HAVE place'[c] = "gate"
  <2>1. place[c] = "gate" /\ ~Urgent(c) /\ due'[c] = Left(due[c]) /\ due[c] \in Nat
    BY DEF Tick, PacingTyped
  <2>2. due[c] # 0
    BY <2>1 DEF Urgent
  <2> QED
    BY <2>1, <2>2 DEF Left
<1>5. ASSUME NEW from \in Nat
      PROVE  /\ from + 1 \in Nat
             /\ Waiting(k, from)' = Waiting(k, from + 1)
             /\ Waiting(k, from + 1) \subseteq Waiting(k, from)
             /\ \A until \in Nat :
                   /\ Waits(k, from, until)' = Waits(k, from + 1, until + 1)
                   /\ Waits(k, from + 1, until + 1) \subseteq Waits(k, from, until + 1)
  <2>1. place' = place
    BY DEF Tick
  <2>2. Waiting(k, from)' = Waiting(k, from + 1)
    BY <1>4, <2>1 DEF Waiting
  <2>3. ASSUME NEW until \in Nat
        PROVE  Waits(k, from, until)' = Waits(k, from + 1, until + 1)
    BY <1>4, <2>1, <2>2 DEF Waits, Waiting
  <2>4. \A c \in Connector : due[c] \in Nat
    BY DEF PacingTyped
  <2>5. Waiting(k, from + 1) \subseteq Waiting(k, from)
    BY <2>4 DEF Waiting
  <2> QED
    BY <2>2, <2>3, <2>5 DEF Waits
<1>6. ASSUME NEW from \in Nat
      PROVE  ReservedAfterWait(k, from)'
  <2> DEFINE m == Cardinality(Waiting(k, from + 1))
  <2>1. m \in Nat
    BY WaitFacts
  <2>2. Waiting(k, from + 1) # {} => Span(m) + (from + 1) <= reserved[k]
    BY <1>5 DEF BucketInv, ReservedAfterWait
  <2>3. Cardinality(Waiting(k, from)') = m /\ (Waiting(k, from)' # {} <=> Waiting(k, from + 1) # {})
    BY <1>5
  <2> HIDE DEF m
  <2>4. Span(m) \in Int /\ 0 <= Span(m)
    <3>1. 0 \in Int /\ m \in Int /\ 0 <= m
      BY <2>1
    <3> QED
      BY <3>1, SpanFacts
  <2>5. Waiting(k, from)' # {} => Span(m) + from <= reserved'[k]
    BY <1>2, <2>2, <2>3, <2>4 DEF Left
  <2> QED
    BY <1>1, <2>3, <2>5 DEF ReservedAfterWait, Span
<1>7. ASSUME NEW from \in Nat, NEW until \in Nat, from <= until
      PROVE  WaitsOnly(k, from, until)'
  <2> DEFINE m == Cardinality(Waits(k, from + 1, until + 1))
  <2>1. from + 1 \in Nat /\ until + 1 \in Nat /\ from + 1 <= until + 1
    BY <1>7
  <2>2. Span(m) <= (until + 1) - (from + 1) + Ahead
    BY <2>1 DEF BucketInv, WaitsOnly
  <2>3. Cardinality(Waits(k, from, until)') = m
    BY <1>5
  <2>4. m \in Nat
    BY <2>1, WaitFacts
  <2> HIDE DEF m
  <2>5. Span(m) \in Int
    BY <2>4, SpanFacts
  <2>6. Span(m) <= until - from + Ahead
    BY <1>1, <2>2, <2>5
  <2> QED
    BY <1>1, <2>3, <2>6 DEF WaitsOnly, Span
<1>8. ASSUME NEW j \in 1..Len(older)
      PROVE  ReservedAfterDial(k, j)' /\ \A until \in Nat : DialsAndWaits(k, j, until)'
  <2>1. /\ j \in 1..Len(dials) /\ Nth(older, j) = Nth(dials, j) + 1
        /\ Nth(dials, j) \in Nat
    BY <1>2, <1>3
  <2>2. ReservedAfterDial(k, j)'
    <3> DEFINE m == Cardinality(Waiting(k, 0))
               l == Cardinality(Waiting(k, 0 + 1))
    <3>1. m \in Nat /\ l \in Nat /\ l <= m
      BY <1>5, WaitFacts, FS_Subset
    <3>2. Span(j + m) <= reserved[k] + Nth(dials, j)
      BY <2>1 DEF BucketInv, ReservedAfterDial, dials
    <3>3. Cardinality(Waiting(k, 0)') = l
      BY <1>5
    <3> HIDE DEF m, l
    <3>4. j + l \in Int /\ j + m \in Int /\ j + l <= j + m
      BY <3>1
    <3>5. Span(j + l) <= Span(j + m) /\ Span(j + l) \in Int /\ Span(j + m) \in Int
      BY <3>4, SpanFacts
    <3>6. Span(j + l) <= reserved'[k] + Nth(older, j)
      BY <1>2, <2>1, <3>2, <3>5 DEF Left
    <3> QED
      BY <1>1, <1>2, <3>3, <3>6 DEF ReservedAfterDial, Span
  <2>3. ASSUME NEW until \in Nat
        PROVE  DialsAndWaits(k, j, until)'
    <3> DEFINE m == Cardinality(Waits(k, 0, until + 1))
               l == Cardinality(Waits(k, 0 + 1, until + 1))
    <3>1. m \in Nat /\ l \in Nat /\ l <= m
      <4>1. Waits(k, 0 + 1, until + 1) \subseteq Waits(k, 0, until + 1)
        BY <1>5
      <4>2. IsFiniteSet(Waits(k, 0, until + 1))
        BY WaitFacts
      <4> QED
        BY <4>1, <4>2, FS_Subset, FS_CardinalityType
    <3>2. Span(j + m) <= Nth(dials, j) + (until + 1) + Ahead
      BY <2>1 DEF BucketInv, DialsAndWaits, dials
    <3>3. Cardinality(Waits(k, 0, until)') = l
      BY <1>5
    <3> HIDE DEF m, l
    <3>4. j + l \in Int /\ j + m \in Int /\ j + l <= j + m
      BY <3>1
    <3>5. Span(j + l) <= Span(j + m) /\ Span(j + l) \in Int /\ Span(j + m) \in Int
      BY <3>4, SpanFacts
    <3>6. Span(j + l) <= Nth(older, j) + until + Ahead
      BY <1>1, <2>1, <3>2, <3>5
    <3> QED
      BY <1>1, <1>2, <3>3, <3>6 DEF DialsAndWaits, Span
  <2> QED
    BY <2>2, <2>3
<1>9. Spaced(k)'
  <2>1. \A b \in Waiting(k, 1)' : /\ b \in Waiting(k, 1)
                                  /\ due[b] \in Nat \ {0} /\ due'[b] = due[b] - 1
    <3>1. Waiting(k, 1)' \subseteq Waiting(k, 1)
      BY <1>5
    <3>2. \A b \in Waiting(k, 1)' : b \in Connector /\ place'[b] = "gate"
      BY DEF Waiting
    <3> QED
      BY <1>4, <3>1, <3>2
  <2>2. \A a, b \in Waiting(k, 1) :
           /\ due[b] + Ahead <= reserved[k]
           /\ a # b => \/ due[a] + pace.interval <= due[b]
                       \/ due[b] + pace.interval <= due[a]
    BY DEF BucketInv, Spaced
  <2>3. \A b \in Waiting(k, 1)' : due'[b] + Ahead <= reserved'[k]
    <3> TAKE b \in Waiting(k, 1)'
    <3>1. due[b] \in Nat \ {0} /\ due'[b] = due[b] - 1 /\ due[b] + Ahead <= reserved[k]
      BY <2>1, <2>2
    <3> QED
      BY <1>1, <1>2, <3>1 DEF Left
  <2>4. \A a, b \in Waiting(k, 1)' :
           a # b => \/ due'[a] + pace.interval <= due'[b]
                    \/ due'[b] + pace.interval <= due'[a]
    <3> TAKE a, b \in Waiting(k, 1)'
    <3>1. /\ due[a] \in Nat \ {0} /\ due'[a] = due[a] - 1
          /\ due[b] \in Nat \ {0} /\ due'[b] = due[b] - 1
          /\ a # b => \/ due[a] + pace.interval <= due[b]
                      \/ due[b] + pace.interval <= due[a]
      BY <2>1, <2>2
    <3> QED
      BY <1>1, <3>1
  <2> QED
    BY <1>1, <2>3, <2>4 DEF Spaced
<1> QED
  BY <1>2, <1>6, <1>7, <1>8, <1>9 DEF BucketInv

(* One connector goes to or from the gate of another bucket.               *)
LEMMA BucketOthers ==
    ASSUME PacingTyped, PacingTyped', Gated, NEW k \in Key, BucketInv(k), pace' = pace,
           admitted'[k] = admitted[k], reserved'[k] = reserved[k],
           NEW c \in Connector, k # KeyOf[c],
           \A b \in Connector : b # c => place'[b] = place[b] /\ due'[b] = due[b]
    PROVE  BucketInv(k)'
<1>1. \A from \in Nat :
        /\ Waiting(k, from)' = Waiting(k, from)
        /\ \A until \in Nat : Waits(k, from, until)' = Waits(k, from, until)
  BY DEF Waiting, Waits
<1>2. \A b \in Waiting(k, 1) : due'[b] = due[b]
  BY DEF Waiting
<1>3. Ahead' = Ahead /\ pace'.interval = pace.interval
  BY DEF Ahead
<1>4. \A j \in 1..Len(admitted[k]) :
        /\ \A until \in Nat : DialsAndWaits(k, j, until)'
        /\ ReservedAfterDial(k, j)'
  BY <1>1, <1>3 DEF BucketInv, DialsAndWaits, ReservedAfterDial, Span
<1>5. \A from \in Nat :
        /\ \A until \in Nat : from <= until => WaitsOnly(k, from, until)'
        /\ ReservedAfterWait(k, from)'
  BY <1>1, WaitsShrink
<1>6. Spaced(k)'
  BY <1>1, <1>2, <1>3 DEF BucketInv, Spaced
<1> QED
  BY <1>4, <1>5, <1>6 DEF BucketInv

LEMMA GateStep == PacingTyped /\ PacingTyped' /\ GateInv /\ PacingStep => GateInv'
<1> SUFFICES ASSUME PacingTyped, PacingTyped', GateInv, PacingStep, Gated',
                    NEW k \in Key
             PROVE  BucketInv(k)'
  BY DEF GateInv
<1>1. pace' = pace
  BY DEF PacingStep, PacingNext, ConnectorSteps, Admit, SessionEnds, GoesToSleep, Woken, Redial,
         Park, Resume, DialSucceeds, DialFails, Registers, HandshakeFails, ClearsClient, Collect,
         Tick, Begin, End, Ended
<1>2. Gated /\ BucketInv(k)
  BY <1>1 DEF GateInv, Gated
<1>3. ASSUME NEW c \in Connector, Queue(c), admitted' = admitted, place[c] # "gate"
      PROVE  BucketInv(k)'
  <2>1. CASE k = KeyOf[c]
    BY <1>1, <1>2, <1>3, <2>1, BucketQueue
  <2>2. CASE k # KeyOf[c]
    <3>1. /\ reserved' = [reserved EXCEPT ![KeyOf[c]] = reserved[KeyOf[c]] + pace.interval]
          /\ due' = [due EXCEPT ![c] = due'[c]]
      BY <1>2, <1>3, ReserveGated DEF Queue, Reserve, PacingTyped
    <3>2. reserved'[k] = reserved[k] /\ \A b \in Connector : b # c => due'[b] = due[b]
      BY <2>2, <3>1 DEF PacingTyped
    <3> QED
      BY <1>1, <1>2, <1>3, <2>2, <3>2, BucketOthers DEF Queue, PacingTyped
  <2> QED
    BY <2>1, <2>2
<1>4. ASSUME admitted' = admitted, reserved' = reserved, NEW c \in Connector,
             \A b \in Connector : b # c => place'[b] = place[b] /\ due'[b] = due[b],
             place'[c] # "gate"
      PROVE  BucketInv(k)'
  <2>1. \A b \in Connector :
           place'[b] = "gate" => place[b] = "gate" /\ due'[b] = due[b]
    BY <1>4
  <2> QED
    BY <1>1, <1>2, <1>4, <2>1, BucketShrinks
<1>5. ASSUME NEW c \in Connector, ConnectorSteps(c)
      PROVE  BucketInv(k)'
  <2>1. CASE Admit(c)
    <3>1. CASE k = KeyOf[c]
      BY <1>2, <2>1, <3>1, BucketAdmit
    <3>2. CASE k # KeyOf[c]
      <4>1. /\ admitted'[k] = admitted[k] /\ UNCHANGED <<due, reserved>>
            /\ place' = [place EXCEPT ![c] = "dial"]
        BY <2>1, <3>2 DEF Admit, PacingTyped
      <4> QED
        BY <1>1, <1>2, <3>2, <4>1, BucketOthers DEF PacingTyped
    <3> QED
      BY <3>1, <3>2
  <2>2. CASE Redial(c) \/ Resume(c)
    BY <1>3, <2>2 DEF Redial, Resume
  <2>3. CASE GoesToSleep(c) \/ Woken(c)
    BY <1>4, <2>3 DEF GoesToSleep, Woken, Pause, PacingTyped
  <2>4. CASE SessionEnds(c) \/ Park(c) \/ DialSucceeds(c) \/ DialFails(c)
    BY <1>4, <2>4 DEF SessionEnds, Park, DialSucceeds, DialFails, gateVars, PacingTyped
  <2>5. CASE Registers(c) \/ HandshakeFails(c) \/ ClearsClient(c)
    BY <1>4, <2>5 DEF Registers, HandshakeFails, ClearsClient, gateVars, PacingTyped
  <2> QED
    BY <1>5, <2>1, <2>2, <2>3, <2>4, <2>5 DEF ConnectorSteps
<1>6. CASE \E p \in Port : Collect(p)
  BY <1>1, <1>2, <1>6, BucketShrinks DEF Collect, gateVars
<1>7. CASE Tick
  BY <1>2, <1>7, BucketTick
<1>8. ASSUME NEW c \in Connector, Begin(c)
      PROVE  BucketInv(k)'
  BY <1>3, <1>8 DEF Begin
<1>9. ASSUME NEW c \in Connector, End(c)
      PROVE  BucketInv(k)'
  <2>1. /\ place' = [place EXCEPT ![c] = "ending"] /\ UNCHANGED <<due, admitted>>
        /\ place'[c] # "gate"
    BY <1>9 DEF End, PacingTyped
  <2>2. CASE reserved' = reserved
    BY <1>4, <2>1, <2>2 DEF PacingTyped
  <2>3. CASE reserved' # reserved
    <3>1. /\ place[c] = "gate" /\ due[c] > 0 /\ due[c] = reserved[KeyOf[c]] - Ahead
          /\ reserved' = [reserved EXCEPT ![KeyOf[c]] = @ - pace.interval]
      BY <1>9, <2>3 DEF End, Abandoned
    <3>2. CASE k = KeyOf[c]
      BY <1>1, <1>2, <2>1, <3>1, <3>2, BucketGivesBack DEF PacingTyped
    <3>3. CASE k # KeyOf[c]
      BY <1>1, <1>2, <2>1, <3>1, <3>3, BucketOthers DEF PacingTyped
    <3> QED
      BY <3>2, <3>3
  <2> QED
    BY <2>2, <2>3
<1>10. ASSUME NEW c \in Connector, Ended(c)
       PROVE  BucketInv(k)'
  BY <1>4, <1>10 DEF Ended, gateVars, PacingTyped
<1> QED
  BY <1>5, <1>6, <1>7, <1>8, <1>9, <1>10 DEF PacingStep, PacingNext

LEMMA GateInit == PacingInit => GateInv
<1> SUFFICES ASSUME PacingInit, Gated, NEW k \in Key PROVE BucketInv(k)
  BY DEF GateInv
<1>1. PacingTyped
  BY InitTyped
<1>2. Ahead \in Nat /\ admitted[k] = <<>> /\ Span(0) = 0
  BY <1>1, Rates, SpanFacts DEF PacingInit
<1>3. \A from, until \in Nat : Waiting(k, from) = {} /\ Waits(k, from, until) = {}
  BY DEF PacingInit, Waiting, Waits
<1>4. \A from, until \in Nat : Cardinality(Waits(k, from, until)) = 0
  BY <1>3, FS_EmptySet
<1>5. \A from, until \in Nat : from <= until => WaitsOnly(k, from, until)
  BY <1>2, <1>4 DEF WaitsOnly
<1> QED
  BY <1>2, <1>3, <1>5, EmptyAging DEF BucketInv, ReservedAfterWait, Spaced

(* From the youngest dial back to the oldest of a window the bucket has given
   out no more than its burst and what came in since.                      *)
LEMMA BucketBounds ==
    ASSUME PacingTyped, Gated, NEW k \in Key, BucketInv(k), NEW w \in 1..pace.window
    PROVE  Len(Within(admitted[k], w)) <= burst + (w - 1) \div pace.interval
<1> DEFINE recent == Within(admitted[k], w)
           n == Len(recent)
<1>1. /\ pace.interval \in Nat \ {0} /\ burst \in Nat \ {0} /\ pace.window \in Nat
      /\ w \in Nat /\ w - 1 \in Nat
  BY Rates, PacingAssumption
<1>2. Aging(admitted[k])
  BY DEF PacingTyped
<1>3. /\ n \in Nat /\ n <= Len(admitted[k])
      /\ \A j \in 1..n : Nth(admitted[k], j) < w
  BY <1>1, <1>2, WithinFacts, NthFacts
<1> HIDE DEF n, recent
<1>4. CASE n = 0
  <2>1. (w - 1) \div pace.interval >= 0 /\ (w - 1) \div pace.interval \in Int
    BY <1>1
  <2> QED
    BY <1>1, <1>4, <2>1 DEF n, recent
<1>5. CASE n > 0
  <2>1. Len(admitted[k]) \in Nat /\ n \in 1..Len(admitted[k]) /\ n \in 1..n
    BY <1>2, <1>3, <1>5, NthFacts
  <2>2. Nth(admitted[k], n) \in Nat /\ Nth(admitted[k], n) < w
    BY <1>2, <1>3, <2>1, NthFacts
  <2> DEFINE q == Cardinality(Waits(k, 0, 0))
  <2>3. Span(n + q) <= Nth(admitted[k], n) + 0 + Ahead
    BY <2>1 DEF BucketInv, DialsAndWaits
  <2>4. q \in Nat
    BY WaitFacts
  <2> HIDE DEF q
  <2>5. n \in Int /\ n + q \in Int /\ n <= n + q
    BY <1>3, <2>4
  <2>6. Span(n) <= Span(n + q) /\ Span(n) \in Int /\ Span(n + q) \in Int
    BY <2>5, SpanFacts
  <2>7. Span(n) <= (w - 1) + Ahead
    BY <1>1, <2>2, <2>3, <2>6, Rates
  <2>8. Span(n) = (n - burst) * pace.interval + Ahead
    BY <1>1, <1>3 DEF Span, Ahead
  <2>9. (n - burst) * pace.interval <= w - 1
    <3>1. (n - burst) * pace.interval \in Int /\ Ahead \in Nat
      BY <1>1, <1>3, Rates
    <3> QED
      BY <1>1, <2>7, <2>8, <3>1
  <2>10. n - burst <= (w - 1) \div pace.interval
    <3>1. n - burst \in Int
      BY <1>1, <1>3
    <3> QED
      BY <1>1, <2>9, <3>1, Quotient
  <2> QED
    BY <1>1, <1>3, <2>10 DEF n, recent
<1> QED
  BY <1>3, <1>4, <1>5

(* No window sees more dials of one bucket than its burst and the tokens of
   that time, whoever dials, wakes, parks or gives up waiting
   (connect_gate.go:33-63).                                                *)
THEOREM GateHoldsAlways == PoolSpec => []GateHolds
<1>1. Init => GateInv
  BY GateInit DEF Init
<1>2. PacingTyped /\ GateInv /\ [Next]_vars => GateInv'
  <2>1. UNCHANGED pacingVars /\ PacingTyped /\ PacingTyped' /\ GateInv => GateInv'
    <3> SUFFICES ASSUME UNCHANGED pacingVars, PacingTyped, PacingTyped', GateInv, Gated',
                        NEW k \in Key
                 PROVE  BucketInv(k)'
      BY DEF GateInv
    <3>1. UNCHANGED <<pace, place, due, reserved, admitted>>
      BY DEF pacingVars, gateVars
    <3>2. Gated /\ BucketInv(k)
      BY <3>1 DEF GateInv, Gated
    <3> QED
      BY <3>1, <3>2, BucketShrinks
  <2>2. PacingTyped /\ [Next]_vars => PacingTyped'
    BY PoolPaces, StepTyped, PacingFrame
  <2> QED
    BY <2>1, <2>2, PoolPaces, GateStep
<1>3. PacingTyped /\ GateInv => GateHolds
  BY BucketBounds DEF GateInv, GateHolds
<1> QED
  BY <1>1, <1>2, <1>3, PacingTypeCorrect, PTL DEF PoolSpec

=============================================================================
