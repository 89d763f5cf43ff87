---------------------------- MODULE GatewayProofs ----------------------------
(***************************************************************************)
(* What the web gateway promises its browsers, for every number of them,   *)
(* every cap of the ring and however much is published meanwhile; and what *)
(* the web chat promises those that chat with an agent.                    *)
(***************************************************************************)
EXTENDS Gateway, SequenceTheorems, TLAPS

(* What a session has, or is about to be sent by its handler.              *)
Has(c) == got[c] \cup (IF place[c] \in {"replaying", "streaming"} THEN replay[c] ELSE {})

(* The ring, and later the store, was copied for this session.             *)
Copied(c, k) ==
    place[c] \in {"streaming", "reading", "forwarding", "echoing", "rejecting"}
                 \cup (IF k = "notice" THEN {"replaying", "fetching"} ELSE {})

(* From the copy on the session has everything but what was not there to be
   copied, or a broadcast is about to bring it: a session is in the map that
   broadcasts copy before the ring is copied for it.                       *)
KeepsUp(c, k) ==
    Copied(c, k) =>
        \A e \in Items(k) \ skipped[c] :
            e \in Has(c) \/ (e = <<k, published[k]>> /\ Owed(k, c))
NoGapInv == \A c \in clients : \A k \in Kind : KeepsUp(c, k)

(* The same of the state, first read and then shown.                       *)
Showing(c) ==
    place[c] \in {"copying", "replaying", "fetching", "streaming", "reading",
                  "forwarding", "echoing", "rejecting"}
InForm(c) ==
    /\ place[c] = "showing" => read[c] = link \/ Owed("state", c) \/ raced[c]
    /\ Showing(c) => shown[c] = link \/ Owed("state", c) \/ raced[c]
StateInv == subscribed => \A c \in clients : InForm(c)

(* What is broadcast has been published.                                   *)
Founded == \A k \in Kind : phase[k] # "none" => published[k] > 0

GatewayInv == TypeOK /\ Founded /\ NoGapInv /\ StateInv

-----------------------------------------------------------------------------
(* Types.                                                                  *)

Copies == SUBSET (Items("notice") \cup Items("message"))
CopiesTyped == \A f \in {replay, got, skipped} : f \in [Client -> Copies]
LogTyped == /\ published \in [Kind -> Nat] /\ stored \in 0..published["message"]
            /\ serverLog \in Seq(Items("notice")) /\ Len(serverLog) <= serverLogCap
RestTyped ==
    /\ bounds \in Bounds
    /\ place \in [Client -> HandlerPlaces]
    /\ socket \in [Client -> {"open", "stalled", "closed"}]
    /\ clients \subseteq Client
    /\ empty \in [Client -> BOOLEAN]
    /\ read \in [Client -> Link] /\ shown \in [Client -> Link \cup {"none"}]
    /\ raced \in [Client -> BOOLEAN]
    /\ reply \in [Client -> {"none", "due", "echo", "rejected"}]
    /\ job \in [Client -> {"none", "working", "answered", "lost"}]
    /\ says \in Nat /\ asks \in Nat
    /\ link \in Link /\ changes \in Nat /\ subscribed \in BOOLEAN
    /\ phase \in [Broadcaster -> {"none", "copy", "send"}]
    /\ left \in [Broadcaster -> SUBSET Client]
    /\ late \in [Broadcaster -> BOOLEAN]
    /\ timer \in BOOLEAN /\ expired \in Nat /\ idle \in BOOLEAN
    /\ stop \in {"running", "stopping", "closed"}

LEMMA TypeParts ==
    /\ TypeOK <=> RestTyped /\ CopiesTyped /\ LogTyped
    /\ TypeOK' <=> RestTyped' /\ CopiesTyped' /\ LogTyped'
BY DEF TypeOK, RestTyped, CopiesTyped, LogTyped, Copies

LEMMA InitType == Init => TypeOK
<1> SUFFICES ASSUME Init PROVE TypeOK
  OBVIOUS
<1>1. RestTyped
  BY DEF Init, RestTyped, HandlerPlaces, Link, Broadcaster, Publisher, Kind
<1>2. CopiesTyped
  BY DEF Init, CopiesTyped, Copies
<1>3. LogTyped
  BY CapAssumption DEF Init, LogTyped, Kind
<1> QED
  BY <1>1, <1>2, <1>3, TypeParts

(* What only the sources change.                                           *)
LEMMA SameLog ==
    ASSUME LogTyped, UNCHANGED logVars
    PROVE  LogTyped' /\ \A k \in Kind : Items(k)' = Items(k)
BY DEF LogTyped, logVars, Items

LEMMA SameCopies ==
    ASSUME CopiesTyped, LogTyped, UNCHANGED <<logVars, replay, got, skipped>>
    PROVE  CopiesTyped'
<1>1. Copies' = Copies
  BY SameLog DEF Copies, Kind
<1> QED
  BY <1>1 DEF CopiesTyped

(* A handler's step that copies nothing.                                   *)
LEMMA HandlerTypes ==
    ASSUME TypeOK, NEW c \in Client,
           \/ Verify(c) \/ Refuse(c) \/ Register(c) \/ CancelIdleTimer(c) \/ ReadState(c)
           \/ ShowState(c) \/ ReadFails(c) \/ Remove(c) \/ ScheduleIdleShutdown(c)
    PROVE  TypeOK'
<1> USE TypeParts
<1>1. UNCHANGED <<logVars, replay, got, skipped>>
  BY DEF Verify, Refuse, Register, CancelIdleTimer, ReadState, ShowState, ReadFails, Remove,
         ScheduleIdleShutdown, othersVars, sourceVars, browserVars
<1>2. RestTyped'
  <2> USE DEF RestTyped, HandlerPlaces, othersVars, sayVars, sourceVars, castVars, idleVars,
              browserVars
  <2>1. CASE Verify(c)
    BY <2>1 DEF Verify, GoTo
  <2>2. CASE Refuse(c)
    BY <2>2 DEF Refuse, GoTo
  <2>3. CASE Register(c)
    BY <2>3 DEF Register, GoTo
  <2>4. CASE CancelIdleTimer(c)
    BY <2>4 DEF CancelIdleTimer, GoTo
  <2>5. CASE ReadState(c)
    BY <2>5 DEF ReadState, GoTo, Strikes
  <2>6. CASE ShowState(c)
    BY <2>6 DEF ShowState, GoTo, Strikes
  <2>7. CASE ReadFails(c)
    BY <2>7 DEF ReadFails, GoTo
  <2>8. CASE Remove(c)
    BY <2>8 DEF Remove, GoTo
  <2>9. CASE ScheduleIdleShutdown(c)
    BY <2>9 DEF ScheduleIdleShutdown, GoTo
  <2> QED
    BY <2>1, <2>2, <2>3, <2>4, <2>5, <2>6, <2>7, <2>8, <2>9
<1>3. LogTyped' /\ CopiesTyped'
  BY <1>1, SameLog, SameCopies
<1> QED
  BY <1>2, <1>3

LEMMA SayTypes ==
    ASSUME TypeOK, NEW c \in Client,
           \/ Say(c) \/ Forward(c) \/ Reject(c) \/ Echoed(c) \/ Ask(c) \/ Answer(c)
           \/ Stall(c) \/ HangUp(c)
    PROVE  TypeOK'
<1> USE TypeParts
<1>1. UNCHANGED <<logVars, replay, got, skipped>>
  BY DEF Say, Forward, Reject, Echoed, Ask, Answer, Stall, HangUp, sayRest, othersVars,
         sourceVars, browserVars, handlerVars
<1>2. RestTyped'
  <2> USE DEF RestTyped, HandlerPlaces, sayRest, othersVars, sayVars, sourceVars, castVars,
              idleVars, browserVars, handlerVars
  <2>1. CASE Say(c)
    BY <2>1 DEF Say, GoTo
  <2>2. CASE Forward(c)
    BY <2>2 DEF Forward, GoTo, Broadcaster
  <2>3. CASE Reject(c)
    BY <2>3 DEF Reject, GoTo, Strikes
  <2>4. CASE Echoed(c)
    BY <2>4 DEF Echoed, GoTo
  <2>5. CASE Ask(c)
    BY <2>5 DEF Ask, GoTo
  <2>6. CASE Answer(c)
    BY <2>6 DEF Answer, GoTo, Strikes
  <2>7. CASE Stall(c)
    BY <2>7 DEF Stall, GoTo
  <2>8. CASE HangUp(c)
    BY <2>8 DEF HangUp, GoTo
  <2> QED
    BY <2>1, <2>2, <2>3, <2>4, <2>5, <2>6, <2>7, <2>8
<1>3. LogTyped' /\ CopiesTyped'
  BY <1>1, SameLog, SameCopies
<1> QED
  BY <1>2, <1>3

LEMMA GatewayTypes ==
    ASSUME TypeOK,
           \/ Transition \/ (\E b \in Broadcaster : Broadcast(b))
           \/ TimerExpires \/ LookForClients \/ Stop \/ CloseAllClients
    PROVE  RestTyped'
<1> USE TypeParts DEF RestTyped, castRest, stopRest, sayVars, sourceVars, castVars, idleVars,
                      browserVars, handlerVars
<1>1. CASE Transition
  BY <1>1 DEF Transition, Broadcaster, Publisher
<1>2. ASSUME NEW b \in Broadcaster, CopyClients(b) \/ CastDone(b)
      PROVE  RestTyped'
  BY <1>2 DEF CopyClients, CastDone
<1>3. ASSUME NEW b \in Broadcaster, NEW c \in Client, SendTo(b, c)
      PROVE  RestTyped'
  <2>1. left' \in [Broadcaster -> SUBSET Client] /\ clients' \subseteq Client
    BY <1>3 DEF SendTo
  <2>2. socket' \in [Client -> {"open", "stalled", "closed"}] /\ late' \in [Broadcaster -> BOOLEAN]
    BY <1>3 DEF SendTo
  <2>3. /\ shown' \in [Client -> Link \cup {"none"}] /\ raced' \in [Client -> BOOLEAN]
        /\ reply' \in [Client -> {"none", "due", "echo", "rejected"}]
    BY <1>3 DEF SendTo, Learns, At
  <2> QED
    BY <1>3, <2>1, <2>2, <2>3 DEF SendTo
<1>4. CASE TimerExpires
  <2>1. expired' \in Nat
    BY <1>4 DEF TimerExpires
  <2> QED
    BY <1>4, <2>1 DEF TimerExpires
<1>5. CASE LookForClients
  BY <1>5 DEF LookForClients
<1>6. CASE Stop
  BY <1>6 DEF Stop
<1>7. CASE CloseAllClients
  BY <1>7 DEF CloseAllClients
<1> QED
  BY <1>1, <1>2, <1>3, <1>4, <1>5, <1>6, <1>7 DEF Broadcast

(* What is copied and sent was published.                                  *)
LEMMA CopyTypes ==
    ASSUME TypeOK, NEW c \in Client,
           CopyLog(c) \/ FetchHistory(c) \/ Replay(c) \/ History(c)
    PROVE  TypeOK'
<1> USE TypeParts
<1>1. RestTyped'
  BY DEF RestTyped, HandlerPlaces, GoTo, Strikes, CopyLog, FetchHistory, Replay, History,
         othersVars, sayVars, sourceVars, castVars, idleVars, browserVars
<1>2. UNCHANGED logVars
  BY DEF CopyLog, FetchHistory, Replay, History, othersVars, sourceVars
<1>3. LogTyped' /\ Copies' = Copies
  BY <1>2, SameLog DEF Copies, Kind
<1>4. replay \in [Client -> Copies] /\ got \in [Client -> Copies] /\ skipped \in [Client -> Copies]
  BY DEF CopiesTyped
<1>5. {<<"message", n>> : n \in 1..stored} \in Copies
  BY DEF LogTyped, Copies, Items, Kind
<1>6. {serverLog[i] : i \in DOMAIN serverLog} \in Copies
  BY DEF LogTyped, Copies
<1>7. Items("notice") \in Copies /\ Items("message") \in Copies
  BY DEF Copies
<1>8. \A s, t \in Copies : s \cup t \in Copies /\ s \ t \in Copies /\ {} \in Copies
  BY DEF Copies
<1> HIDE DEF Copies
<1>9. CASE CopyLog(c)
  <2>1. /\ replay' \in [Client -> Copies] /\ skipped' \in [Client -> Copies]
        /\ got' \in [Client -> Copies]
    BY <1>4, <1>6, <1>7, <1>8, <1>9 DEF CopyLog, browserVars
  <2> QED
    BY <1>1, <1>3, <2>1 DEF CopiesTyped
<1>10. CASE FetchHistory(c)
  <2>1. /\ replay' \in [Client -> Copies] /\ skipped' \in [Client -> Copies]
        /\ got' \in [Client -> Copies]
    <3> DEFINE history == {<<"message", n>> : n \in 1..stored}
    <3>1. replay' = [replay EXCEPT ![c] = history] /\ got' = got
      BY <1>10 DEF FetchHistory, browserVars
    <3>2. skipped' = [skipped EXCEPT ![c] = skipped[c] \cup (Items("message") \ history)]
      BY <1>10 DEF FetchHistory
    <3>3. skipped[c] \in Copies /\ Items("message") \ history \in Copies
      BY <1>4, <1>5, <1>7, <1>8
    <3> HIDE DEF history
    <3> QED
      BY <1>4, <1>5, <1>8, <3>1, <3>2, <3>3 DEF history
  <2> QED
    BY <1>1, <1>3, <2>1 DEF CopiesTyped
<1>11. CASE Replay(c)
  <2>1. got' \in [Client -> Copies]
    <3>1. got[c] \cup replay[c] \in Copies
      BY <1>4, <1>8
    <3> QED
      BY <1>4, <1>11, <3>1 DEF Replay
  <2>2. replay' \in [Client -> Copies] /\ skipped' \in [Client -> Copies]
    BY <1>4, <1>8, <1>11 DEF Replay
  <2> QED
    BY <1>1, <1>3, <2>1, <2>2 DEF CopiesTyped
<1>12. CASE History(c)
  <2>1. /\ replay' \in [Client -> Copies] /\ skipped' \in [Client -> Copies]
        /\ got' \in [Client -> Copies]
    BY <1>4, <1>5, <1>12 DEF History, browserVars
  <2> QED
    BY <1>1, <1>3, <2>1 DEF CopiesTyped
<1> QED
  BY <1>9, <1>10, <1>11, <1>12

(* The rings differ by what was published, less what falls off.            *)
LEMMA RingType ==
    ASSUME LogTyped, PublishNotice, published' = [published EXCEPT !["notice"] = @ + 1]
    PROVE  serverLog' \in Seq(Items("notice")') /\ Len(serverLog') <= serverLogCap
<1> DEFINE new == <<"notice", published["notice"] + 1>>
           log == Append(serverLog, new)
           over == IF Len(log) > serverLogCap THEN Len(log) - serverLogCap ELSE 0
           items == Items("notice")'
<1>1. published["notice"] \in Nat /\ published'["notice"] = published["notice"] + 1
  BY DEF LogTyped, Kind
<1>2. Items("notice") \subseteq items /\ new \in items
  BY <1>1 DEF Items
<1> HIDE DEF new, items
<1>3. serverLog \in Seq(items) /\ serverLogCap \in Nat
  BY <1>2, CapAssumption DEF LogTyped
<1>4. log \in Seq(items) /\ Len(log) = Len(serverLog) + 1 /\ Len(log) \in Nat
  BY <1>2, <1>3
<1>5. serverLog' = SubSeq(log, over + 1, Len(log))
  BY DEF PublishNotice, new
<1> HIDE DEF log
<1>6. over \in Nat /\ over <= Len(log) /\ Len(log) - over <= serverLogCap
  BY <1>3, <1>4, CapAssumption
<1> HIDE DEF over
<1>7. /\ SubSeq(log, over + 1, Len(log)) \in Seq(items)
      /\ Len(SubSeq(log, over + 1, Len(log))) =
            IF over + 1 <= Len(log) THEN Len(log) - (over + 1) + 1 ELSE 0
  BY <1>4, <1>6, SubSeqProperties
<1> QED
  BY <1>3, <1>4, <1>5, <1>6, <1>7 DEF items

LEMMA PublishTypes ==
    ASSUME TypeOK, NEW k \in Kind, Publish(k)
    PROVE  TypeOK' /\ \A l \in Kind : Items(l) \subseteq Items(l)'
<1> USE TypeParts
<1>1. RestTyped'
  BY DEF RestTyped, Publish, castRest, sayVars, idleVars, browserVars, handlerVars,
         Broadcaster, Publisher
<1>2. /\ published' = [published EXCEPT ![k] = @ + 1] /\ stored' = stored
      /\ UNCHANGED <<replay, got, skipped>>
  BY DEF Publish, castRest, handlerVars, browserVars
<1>3. /\ published' \in [Kind -> Nat]
      /\ \A l \in Kind : /\ published[l] <= published'[l]
                         /\ published[l] \in Nat /\ published'[l] \in Nat
  BY <1>2 DEF LogTyped
<1>4. \A l \in Kind : Items(l) \subseteq Items(l)'
  BY <1>3 DEF Items
<1>5. Copies \subseteq Copies'
  BY <1>4 DEF Copies, Kind
<1>6. CopiesTyped'
  BY <1>2, <1>5 DEF CopiesTyped
<1>7. stored' \in 0..published'["message"]
  BY <1>2, <1>3 DEF LogTyped, Kind
<1>8. serverLog' \in Seq(Items("notice")') /\ Len(serverLog') <= serverLogCap
  <2>1. CASE k = "notice"
    BY <1>2, <2>1, RingType DEF Publish
  <2>2. CASE k # "notice"
    <3>1. serverLog' = serverLog
      BY <2>2 DEF Publish
    <3> QED
      BY <1>4, <3>1 DEF LogTyped, Kind
  <2> QED
    BY <2>1, <2>2
<1> QED
  BY <1>1, <1>3, <1>4, <1>6, <1>7, <1>8 DEF LogTyped

LEMMA SendTypes ==
    ASSUME TypeOK, Founded, NEW b \in Broadcaster, NEW c \in Client, SendTo(b, c)
    PROVE  TypeOK'
<1> USE TypeParts
<1>1. RestTyped'
  BY GatewayTypes DEF Broadcast
<1>2. UNCHANGED logVars /\ UNCHANGED <<replay, skipped>>
  BY DEF SendTo, sourceVars, handlerVars
<1>3. LogTyped' /\ Copies' = Copies
  BY <1>2, SameLog DEF Copies, Kind
<1>4. b \in Kind => <<b, published[b]>> \in Items(b)
  <2> SUFFICES ASSUME b \in Kind PROVE <<b, published[b]>> \in Items(b)
    OBVIOUS
  <2>1. published[b] \in Nat /\ published[b] > 0
    BY DEF SendTo, Founded, LogTyped
  <2> QED
    BY <2>1 DEF Items
<1>5. got' \in [Client -> Copies]
  <2>1. CASE got' = got
    BY <2>1 DEF CopiesTyped
  <2>2. CASE b \in Kind /\ got' = [got EXCEPT ![c] = @ \cup {<<b, published[b]>>}]
    <3>1. got[c] \in Copies /\ got \in [Client -> Copies]
      BY DEF CopiesTyped
    <3>2. got[c] \cup {<<b, published[b]>>} \in Copies
      BY <1>4, <2>2, <3>1 DEF Copies, Kind
    <3> QED
      BY <2>2, <3>1, <3>2
  <2> QED
    BY <2>1, <2>2 DEF SendTo, Learns, browserVars
<1> QED
  BY <1>1, <1>2, <1>3, <1>5 DEF CopiesTyped

LEMMA NextTypes == TypeOK /\ Founded /\ [Next]_vars => TypeOK'
<1> SUFFICES ASSUME TypeOK, Founded, [Next]_vars PROVE TypeOK'
  OBVIOUS
<1> USE TypeParts
<1>1. ASSUME NEW c \in Client,
             Verify(c) \/ Refuse(c) \/ Handler(c) \/ Say(c) \/ History(c) \/ Ask(c) \/ Answer(c)
             \/ Stall(c) \/ HangUp(c)
      PROVE  TypeOK'
  BY <1>1, HandlerTypes, SayTypes, CopyTypes DEF Handler
<1>2. ASSUME NEW k \in Kind, Publish(k) PROVE TypeOK'
  BY <1>2, PublishTypes
<1>3. CASE Store
  <2>1. RestTyped'
    BY <1>3 DEF Store, RestTyped, castRest, sayVars, idleVars, browserVars, handlerVars, castVars
  <2>2. published' = published /\ UNCHANGED <<serverLog, replay, got, skipped>>
    BY <1>3 DEF Store, castRest, browserVars, handlerVars
  <2>3. LogTyped'
    <3>1. stored' \in 0..published["message"]
      BY <1>3 DEF Store, LogTyped, Kind
    <3> QED
      BY <2>2, <3>1 DEF LogTyped, Items
  <2>4. CopiesTyped'
    BY <2>2 DEF CopiesTyped, Copies, Items
  <2> QED
    BY <2>1, <2>3, <2>4
<1>4. ASSUME NEW b \in Broadcaster, NEW c \in Client, SendTo(b, c) PROVE TypeOK'
  BY <1>4, SendTypes
<1>5. ASSUME \/ Transition \/ (\E b \in Broadcaster : CopyClients(b) \/ CastDone(b))
             \/ TimerExpires \/ LookForClients \/ Stop \/ CloseAllClients
      PROVE  TypeOK'
  <2>1. RestTyped'
    BY <1>5, GatewayTypes DEF Broadcast
  <2>2. UNCHANGED <<logVars, replay, got, skipped>>
    BY <1>5 DEF Transition, CopyClients, CastDone, TimerExpires, LookForClients, Stop,
                CloseAllClients, castRest, stopRest, sourceVars, handlerVars, browserVars
  <2>3. LogTyped' /\ CopiesTyped'
    BY <2>2, SameLog, SameCopies
  <2> QED
    BY <2>1, <2>3
<1>6. CASE UNCHANGED vars
  <2>1. UNCHANGED <<logVars, replay, got, skipped>>
    BY <1>6 DEF vars, handlerVars, browserVars, sourceVars
  <2>2. LogTyped' /\ CopiesTyped'
    BY <2>1, SameLog, SameCopies
  <2>3. RestTyped'
    BY <1>6 DEF vars, RestTyped, sayVars, sourceVars, castVars, idleVars, browserVars, handlerVars
  <2> QED
    BY <2>2, <2>3
<1> QED
  BY <1>1, <1>2, <1>3, <1>4, <1>5, <1>6 DEF Next, Broadcast

-----------------------------------------------------------------------------
(* Who is still to hear of what.                                           *)

(* Neither a handler's step that copies nothing nor what the gateway does as a
   whole takes part in a broadcast, ...                                    *)
LEMMA CastFrame ==
    ASSUME [Next]_vars
    PROVE  \/ UNCHANGED <<phase, left, published, link>>
           \/ \E c \in Client : Forward(c)
           \/ \E k \in Kind : Publish(k)
           \/ Transition
           \/ \E b \in Broadcaster : Broadcast(b)
<1> USE DEF othersVars, sayRest, castRest, stopRest, sourceVars, logVars, castVars, handlerVars
<1>1. ASSUME NEW c \in Client,
             \/ Verify(c) \/ Refuse(c) \/ Register(c) \/ CancelIdleTimer(c) \/ ReadState(c)
             \/ ShowState(c) \/ CopyLog(c) \/ FetchHistory(c) \/ Replay(c) \/ ReadFails(c)
             \/ Remove(c) \/ ScheduleIdleShutdown(c)
      PROVE  UNCHANGED <<phase, left, published, link>>
  BY <1>1 DEF Verify, Refuse, Register, CancelIdleTimer, ReadState, ShowState, CopyLog,
              FetchHistory, Replay, ReadFails, Remove, ScheduleIdleShutdown
<1>2. ASSUME NEW c \in Client,
             \/ Say(c) \/ Reject(c) \/ Echoed(c) \/ History(c) \/ Ask(c) \/ Answer(c)
             \/ Stall(c) \/ HangUp(c)
      PROVE  UNCHANGED <<phase, left, published, link>>
  BY <1>2 DEF Say, Reject, Echoed, History, Ask, Answer, Stall, HangUp
<1>3. CASE Store \/ TimerExpires \/ LookForClients \/ Stop \/ CloseAllClients
  BY <1>3 DEF Store, TimerExpires, LookForClients, Stop, CloseAllClients
<1>4. CASE UNCHANGED vars
  BY <1>4 DEF vars
<1> QED
  BY <1>1, <1>2, <1>3, <1>4 DEF Next, Handler

LEMMA FoundedStays == TypeOK /\ Founded /\ [Next]_vars => Founded'
<1> SUFFICES ASSUME TypeOK, Founded, [Next]_vars, NEW k \in Kind, phase'[k] # "none"
             PROVE  published'[k] > 0
  BY DEF Founded
<1>1. /\ published[k] \in Nat /\ k \in Broadcaster /\ k \notin Client /\ k # "state"
      /\ phase \in [Broadcaster -> {"none", "copy", "send"}] /\ published \in [Kind -> Nat]
  BY ClientAssumption DEF TypeOK, Kind, Broadcaster, Publisher
<1>2. phase[k] # "none" => published[k] > 0
  BY DEF Founded
<1>3. CASE UNCHANGED <<phase, left, published, link>>
  BY <1>2, <1>3
<1>4. ASSUME NEW c \in Client, Forward(c) PROVE published'[k] > 0
  <2>1. phase'[k] = phase[k] /\ published' = published
    BY <1>1, <1>4 DEF Forward, sayRest, sourceVars, logVars
  <2> QED
    BY <1>2, <2>1
<1>5. ASSUME NEW l \in Kind, Publish(l) PROVE published'[k] > 0
  <2>1. /\ published' = [published EXCEPT ![l] = @ + 1]
        /\ phase' = [phase EXCEPT ![l] = "copy"]
    BY <1>5 DEF Publish
  <2>2. CASE k = l
    BY <1>1, <2>1, <2>2
  <2>3. CASE k # l
    BY <1>1, <1>2, <2>1, <2>3
  <2> QED
    BY <2>2, <2>3
<1>6. CASE Transition
  BY <1>1, <1>2, <1>6 DEF Transition, logVars
<1>7. ASSUME NEW b \in Broadcaster, Broadcast(b) PROVE published'[k] > 0
  <2>1. published' = published
    BY <1>7 DEF Broadcast, CopyClients, SendTo, CastDone, sourceVars, logVars
  <2>2. phase'[k] # "none" => phase[k] # "none"
    BY <1>1, <1>7 DEF Broadcast, CopyClients, SendTo, CastDone
  <2> QED
    BY <1>2, <2>1, <2>2
<1> QED
  BY <1>3, <1>4, <1>5, <1>6, <1>7, CastFrame

(* ... and who is owed what is last stays so until it is sent.             *)
LEMMA OwedStays ==
    ASSUME TypeOK, NEW b \in Broadcaster, NEW c \in clients, Owed(b, c),
           \/ UNCHANGED <<phase, left>>
           \/ \E d \in Client : Forward(d)
           \/ \E k \in Kind : Publish(k)
           \/ Transition
           \/ \E d \in Broadcaster : CopyClients(d) \/ CastDone(d)
    PROVE  Owed(b, c)'
<1>1. /\ phase \in [Broadcaster -> {"none", "copy", "send"}]
      /\ left \in [Broadcaster -> SUBSET Client] /\ c \in Client
  BY DEF TypeOK
<1>2. ASSUME NEW d \in Client, Forward(d) PROVE Owed(b, c)'
  BY <1>1, <1>2 DEF Forward, Owed
<1>3. ASSUME NEW k \in Kind, Publish(k) PROVE Owed(b, c)'
  BY <1>1, <1>3 DEF Publish, Owed
<1>4. CASE Transition
  BY <1>1, <1>4 DEF Transition, Owed
<1>5. ASSUME NEW d \in Broadcaster, CopyClients(d) PROVE Owed(b, c)'
  BY <1>1, <1>5 DEF CopyClients, Owed
<1>6. ASSUME NEW d \in Broadcaster, CastDone(d) PROVE Owed(b, c)'
  BY <1>1, <1>6 DEF CastDone, Owed
<1> QED
  BY <1>2, <1>3, <1>4, <1>5, <1>6 DEF Owed

-----------------------------------------------------------------------------
(* No gap.                                                                 *)

CopyVars == <<published, replay, skipped, got>>

(* Whoever stays where it is, or moves on without copying, misses nothing. *)
LEMMA MoveKeepsUp ==
    ASSUME TypeOK, NoGapInv, clients' \subseteq clients, UNCHANGED CopyVars,
           NEW c \in Client, NEW to \in HandlerPlaces,
           \/ place' = place
           \/ /\ place' = [place EXCEPT ![c] = to]
              /\ place[c] \notin {"replaying", "fetching", "streaming"}
              /\ \/ to \in {"forwarding", "echoing", "rejecting", "reading"}
                    /\ place[c] \in {"reading", "forwarding", "echoing", "rejecting"}
                 \/ to \in {"away", "verified", "registered", "attaching", "showing", "copying",
                            "leaving", "removed", "gone"},
           \A k \in Kind : \A x \in clients' : Owed(k, x) => Owed(k, x)'
    PROVE  NoGapInv'
<1> SUFFICES ASSUME NEW x \in clients', NEW k \in Kind, Copied(x, k)',
                    NEW e \in Items(k)' \ skipped'[x]
             PROVE  e \in Has(x)' \/ (e = <<k, published'[k]>> /\ Owed(k, x)')
  BY DEF NoGapInv, KeepsUp
<1>1. x \in clients /\ x \in Client /\ place \in [Client -> HandlerPlaces]
  BY DEF TypeOK
<1>2. Copied(x, k) /\ Has(x) \subseteq Has(x)'
  <2>1. CASE place'[x] = place[x]
    BY <2>1 DEF Copied, Has, CopyVars
  <2>2. CASE place'[x] # place[x]
    <3>1. /\ x = c /\ place'[x] = to /\ place[x] \notin {"replaying", "streaming"}
          /\ to \in {"forwarding", "echoing", "rejecting", "reading"}
          /\ place[x] \in {"reading", "forwarding", "echoing", "rejecting"}
      BY <1>1, <2>2 DEF Copied
    <3> QED
      BY <3>1 DEF Copied, Has, CopyVars
  <2> QED
    BY <2>1, <2>2
<1>3. e \in Items(k) \ skipped[x] /\ published' = published
  BY DEF CopyVars, Items
<1> QED
  BY <1>1, <1>2, <1>3 DEF NoGapInv, KeepsUp

LEMMA HandlerKeepsUp ==
    ASSUME TypeOK, NoGapInv, NEW c \in Client,
           \/ Verify(c) \/ Refuse(c) \/ CancelIdleTimer(c) \/ ReadState(c) \/ ShowState(c)
           \/ ReadFails(c) \/ Remove(c) \/ ScheduleIdleShutdown(c)
           \/ Say(c) \/ Forward(c) \/ Reject(c) \/ Echoed(c) \/ Ask(c) \/ Answer(c)
           \/ Stall(c) \/ HangUp(c)
    PROVE  NoGapInv'
<1> USE DEF othersVars, sayRest, sourceVars, logVars, castVars, handlerVars, browserVars
<1>1. UNCHANGED CopyVars
  BY DEF Verify, Refuse, CancelIdleTimer, ReadState, ShowState, ReadFails, Remove,
         ScheduleIdleShutdown, Say, Forward, Reject, Echoed, Ask, Answer, Stall, HangUp, CopyVars
<1>2. clients' \subseteq clients
  BY DEF Verify, Refuse, CancelIdleTimer, ReadState, ShowState, ReadFails, Remove, Strikes,
         ScheduleIdleShutdown, Say, Forward, Reject, Echoed, Ask, Answer, Stall, HangUp
<1>3. UNCHANGED <<phase, left>> \/ Forward(c)
  BY DEF Verify, Refuse, CancelIdleTimer, ReadState, ShowState, ReadFails, Remove,
         ScheduleIdleShutdown, Say, Reject, Echoed, Ask, Answer, Stall, HangUp
<1>4. \A k \in Kind : \A x \in clients' : Owed(k, x) => Owed(k, x)'
  BY <1>2, <1>3, OwedStays DEF Broadcaster, Publisher
<1>5. CASE Verify(c) \/ Refuse(c) \/ CancelIdleTimer(c) \/ ReadState(c) \/ ShowState(c)
  BY <1>1, <1>2, <1>4, <1>5, MoveKeepsUp
     DEF Verify, Refuse, CancelIdleTimer, ReadState, ShowState, GoTo, At, HandlerPlaces
<1>6. CASE ReadFails(c) \/ Remove(c) \/ ScheduleIdleShutdown(c)
  BY <1>1, <1>2, <1>4, <1>6, MoveKeepsUp
     DEF ReadFails, Remove, ScheduleIdleShutdown, GoTo, At, HandlerPlaces
<1>7. CASE Say(c) \/ Forward(c) \/ Reject(c) \/ Echoed(c)
  BY <1>1, <1>2, <1>4, <1>7, MoveKeepsUp
     DEF Say, Forward, Reject, Echoed, GoTo, At, HandlerPlaces
<1>8. CASE Ask(c) \/ Answer(c) \/ Stall(c) \/ HangUp(c)
  <2>1. place' = place
    BY <1>8 DEF Ask, Answer, Stall, HangUp
  <2>2. "away" \in HandlerPlaces
    BY DEF HandlerPlaces
  <2> QED
    BY <1>1, <1>2, <1>4, <2>1, <2>2, MoveKeepsUp
<1> QED
  BY <1>5, <1>6, <1>7, <1>8

(* Nothing was copied yet for a session that comes to the map.             *)
LEMMA RegisterKeepsUp ==
    ASSUME TypeOK, NoGapInv, NEW c \in Client, Register(c)
    PROVE  NoGapInv'
<1> SUFFICES ASSUME NEW x \in clients', NEW k \in Kind, Copied(x, k)',
                    NEW e \in Items(k)' \ skipped'[x]
             PROVE  e \in Has(x)' \/ (e = <<k, published'[k]>> /\ Owed(k, x)')
  BY DEF NoGapInv, KeepsUp
<1>1. /\ place' = [place EXCEPT ![c] = "registered"] /\ clients' = clients \cup {c}
      /\ UNCHANGED <<published, replay, skipped, got, phase, left>>
  BY DEF Register, GoTo, othersVars, sourceVars, logVars, castVars, browserVars
<1>2. x # c
  BY <1>1 DEF Copied, TypeOK
<1>3. place'[x] = place[x] /\ x \in clients
  BY <1>1, <1>2 DEF TypeOK
<1> QED
  BY <1>1, <1>3 DEF NoGapInv, KeepsUp, Copied, Has, Owed, Items

(* The copies themselves, and what is then sent of them.                   *)
LEMMA CopyKeepsUp ==
    ASSUME TypeOK, NoGapInv, NEW c \in Client,
           CopyLog(c) \/ FetchHistory(c) \/ Replay(c) \/ History(c)
    PROVE  NoGapInv'
<1> SUFFICES ASSUME NEW x \in clients', NEW k \in Kind, Copied(x, k)',
                    NEW e \in Items(k)' \ skipped'[x]
             PROVE  e \in Has(x)' \/ (e = <<k, published'[k]>> /\ Owed(k, x)')
  BY DEF NoGapInv, KeepsUp
<1>1. /\ clients' \subseteq clients /\ UNCHANGED <<published, phase, left>>
      /\ \E to \in HandlerPlaces : place' = [place EXCEPT ![c] = to]
  BY DEF CopyLog, FetchHistory, Replay, History, Strikes, GoTo, HandlerPlaces, othersVars,
         sourceVars, logVars, castVars, browserVars
<1>2. x \in clients /\ x \in Client /\ e \in Items(k)
  BY <1>1 DEF TypeOK, Items
<1>3. CASE x # c
  <2>1. place'[x] = place[x] /\ got'[x] = got[x] /\ replay'[x] = replay[x]
    BY <1>1, <1>2, <1>3 DEF CopyLog, FetchHistory, Replay, History, TypeOK, browserVars
  <2>2. skipped'[x] = skipped[x]
    BY <1>2, <1>3 DEF CopyLog, FetchHistory, Replay, History, TypeOK
  <2> QED
    BY <1>1, <1>2, <2>1, <2>2 DEF NoGapInv, KeepsUp, Copied, Has, Owed
<1>4. CASE x = c /\ CopyLog(c)
  <2>1. k = "notice" /\ place'[c] = "replaying"
    BY <1>2, <1>4 DEF CopyLog, GoTo, Copied, TypeOK, Kind
  <2>2. skipped'[c] = Items("notice") \ replay'[c]
    BY <1>2, <1>4 DEF CopyLog, TypeOK
  <2> QED
    BY <1>2, <1>4, <2>1, <2>2 DEF Has
<1>5. CASE x = c /\ FetchHistory(c)
  <2>1. place'[c] = "streaming" /\ place[c] = "fetching" /\ got' = got
    BY <1>2, <1>5 DEF FetchHistory, GoTo, At, TypeOK, browserVars
  <2>2. skipped'[c] = skipped[c] \cup (Items("message") \ replay'[c])
    BY <1>2, <1>5 DEF FetchHistory, TypeOK
  <2>3. CASE k = "message"
    BY <1>2, <1>5, <2>1, <2>2, <2>3 DEF Has
  <2>4. CASE k = "notice"
    <3>1. Copied(c, k) /\ Has(c) \subseteq Has(c)'
      BY <2>1, <2>4 DEF Copied, Has
    <3> QED
      BY <1>1, <1>2, <1>5, <2>2, <3>1 DEF NoGapInv, KeepsUp, Owed
  <2> QED
    BY <2>3, <2>4 DEF Kind
<1>6. CASE x = c /\ Replay(c)
  <2>1. Delivers(c)
    BY <1>6 DEF Replay, Strikes
  <2>2. /\ place[c] \in {"replaying", "streaming"} /\ got'[c] = got[c] \cup replay[c]
        /\ skipped' = skipped
        /\ place'[c] = IF place[c] = "replaying" THEN "fetching" ELSE "reading"
    BY <1>2, <1>6, <2>1 DEF Replay, GoTo, At, TypeOK
  <2>3. Copied(c, k) /\ Has(c) \subseteq Has(c)'
    BY <1>6, <2>2 DEF Copied, Has
  <2> QED
    BY <1>1, <1>2, <1>6, <2>2, <2>3 DEF NoGapInv, KeepsUp, Owed
<1>7. CASE x = c /\ History(c)
  <2>1. place[c] = "reading" /\ UNCHANGED <<got, skipped>>
    BY <1>7 DEF History, At, browserVars
  <2>2. Copied(c, k) /\ Has(c) \subseteq Has(c)'
    BY <2>1 DEF Copied, Has
  <2> QED
    BY <1>1, <1>2, <1>7, <2>1, <2>2 DEF NoGapInv, KeepsUp, Owed
<1> QED
  BY <1>3, <1>4, <1>5, <1>6, <1>7

(* Who had everything is owed the one that is new.                         *)
LEMMA PublishKeepsUp ==
    ASSUME TypeOK, NoGapInv, NEW l \in Kind, Publish(l)
    PROVE  NoGapInv'
<1> SUFFICES ASSUME NEW x \in clients', NEW k \in Kind, Copied(x, k)',
                    NEW e \in Items(k)' \ skipped'[x]
             PROVE  e \in Has(x)' \/ (e = <<k, published'[k]>> /\ Owed(k, x)')
  BY DEF NoGapInv, KeepsUp
<1>1. /\ phase[l] = "none" /\ phase' = [phase EXCEPT ![l] = "copy"]
      /\ published' = [published EXCEPT ![l] = published[l] + 1]
      /\ UNCHANGED <<place, clients, replay, skipped, got, left>>
  BY DEF Publish, castRest, handlerVars, browserVars
<1>2. x \in clients /\ Copied(x, k) /\ Has(x)' = Has(x)
  BY <1>1 DEF Copied, Has
<1>3. published[k] \in Nat /\ k \in DOMAIN phase /\ k \in DOMAIN published
  BY DEF TypeOK, Broadcaster, Publisher
<1>4. CASE k # l
  <2>1. published'[k] = published[k] /\ phase'[k] = phase[k]
    BY <1>1, <1>3, <1>4
  <2>2. e \in Items(k) \ skipped[x]
    BY <1>1, <2>1 DEF Items
  <2> QED
    BY <1>1, <1>2, <2>1, <2>2 DEF NoGapInv, KeepsUp, Owed
<1>5. CASE k = l
  <2>1. published'[k] = published[k] + 1 /\ Owed(k, x)' /\ ~Owed(k, x)
    BY <1>1, <1>3, <1>5 DEF Owed
  <2>2. e = <<k, published'[k]>> \/ e \in Items(k)
    BY <1>3, <2>1 DEF Items
  <2> QED
    BY <1>1, <1>2, <2>1, <2>2 DEF NoGapInv, KeepsUp
<1> QED
  BY <1>4, <1>5

(* A broadcast delivers what it owes, or the session leaves the map.       *)
LEMMA SendKeepsUp ==
    ASSUME TypeOK, NoGapInv, NEW b \in Broadcaster, NEW c \in Client, SendTo(b, c)
    PROVE  NoGapInv'
<1> SUFFICES ASSUME NEW x \in clients', NEW k \in Kind, Copied(x, k)',
                    NEW e \in Items(k)' \ skipped'[x]
             PROVE  e \in Has(x)' \/ (e = <<k, published'[k]>> /\ Owed(k, x)')
  BY DEF NoGapInv, KeepsUp
<1>1. /\ left' = [left EXCEPT ![b] = left[b] \ {c}] /\ phase' = phase
      /\ UNCHANGED <<place, replay, skipped, published>>
  BY DEF SendTo, handlerVars, sourceVars, logVars
<1>2. x \in clients /\ x \in Client /\ Copied(x, k) /\ e \in Items(k) \ skipped[x]
  BY <1>1 DEF SendTo, Copied, Items, TypeOK
<1>3. Has(x) \subseteq Has(x)'
  <2>1. got[x] \subseteq got'[x]
    <3>1. \/ got' = got
          \/ got' = [got EXCEPT ![c] = got[c] \cup {<<b, published[b]>>}]
      BY DEF SendTo, Learns, browserVars
    <3>2. got \in [Client -> SUBSET (Items("notice") \cup Items("message"))]
      BY DEF TypeOK
    <3> QED
      BY <1>2, <3>1, <3>2
  <2> QED
    BY <1>1, <2>1 DEF Has
<1>4. CASE k = b /\ x = c
  <2>1. <<k, published[k]>> \in got'[x]
    BY <1>2, <1>4 DEF SendTo, Learns, TypeOK
  <2> QED
    BY <1>1, <1>2, <1>3, <2>1 DEF NoGapInv, KeepsUp, Has
<1>5. CASE ~(k = b /\ x = c)
  <2>1. Owed(k, x) => Owed(k, x)'
    BY <1>1, <1>5 DEF Owed, TypeOK
  <2> QED
    BY <1>1, <1>2, <1>3, <2>1 DEF NoGapInv, KeepsUp
<1> QED
  BY <1>4, <1>5

LEMMA NextKeepsUp == TypeOK /\ NoGapInv /\ [Next]_vars => NoGapInv'
<1> SUFFICES ASSUME TypeOK, NoGapInv, [Next]_vars PROVE NoGapInv'
  OBVIOUS
<1>1. ASSUME NEW c \in Client,
             \/ Verify(c) \/ Refuse(c) \/ Handler(c) \/ Say(c) \/ History(c) \/ Ask(c)
             \/ Answer(c) \/ Stall(c) \/ HangUp(c)
      PROVE  NoGapInv'
  BY <1>1, HandlerKeepsUp, RegisterKeepsUp, CopyKeepsUp DEF Handler
<1>2. ASSUME NEW k \in Kind, Publish(k) PROVE NoGapInv'
  BY <1>2, PublishKeepsUp
<1>3. ASSUME NEW b \in Broadcaster, NEW c \in Client, SendTo(b, c) PROVE NoGapInv'
  BY <1>3, SendKeepsUp
<1>4. ASSUME \/ Store \/ Transition \/ (\E b \in Broadcaster : CopyClients(b) \/ CastDone(b))
             \/ TimerExpires \/ LookForClients \/ Stop \/ CloseAllClients \/ UNCHANGED vars
      PROVE  NoGapInv'
  <2> USE DEF castRest, stopRest, handlerVars, browserVars, sourceVars, logVars, castVars
  <2>1. UNCHANGED <<place, CopyVars>> /\ clients' \subseteq clients
    BY <1>4 DEF Store, Transition, CopyClients, CastDone, TimerExpires, LookForClients, Stop,
                CloseAllClients, vars, CopyVars
  <2>2. \/ UNCHANGED <<phase, left>> \/ Transition
        \/ \E b \in Broadcaster : CopyClients(b) \/ CastDone(b)
    BY <1>4 DEF Store, TimerExpires, LookForClients, Stop, CloseAllClients, vars
  <2>3. \A x \in clients' : \A k \in Kind : Owed(k, x) => Owed(k, x)'
    BY <2>1, <2>2, OwedStays DEF Broadcaster, Publisher
  <2>4. ASSUME NEW x \in clients', NEW k \in Kind, KeepsUp(x, k) PROVE KeepsUp(x, k)'
    BY <2>1, <2>3, <2>4 DEF KeepsUp, Copied, Has, Items, CopyVars
  <2> QED
    BY <2>1, <2>4 DEF NoGapInv
<1> QED
  BY <1>1, <1>2, <1>3, <1>4 DEF Next, Broadcast

-----------------------------------------------------------------------------
(* The state that is shown.                                                *)

StateVars == <<read, shown, raced, link>>

LEMMA StateStays ==
    ASSUME TypeOK, StateInv, clients' \subseteq clients, UNCHANGED StateVars,
           subscribed' => subscribed,
           \A x \in clients' : /\ place'[x] = "showing" => place[x] = "showing"
                               /\ Showing(x)' => Showing(x)
                               /\ Owed("state", x) => Owed("state", x)'
    PROVE  StateInv'
<1> SUFFICES ASSUME subscribed', NEW x \in clients' PROVE InForm(x)'
  BY DEF StateInv
<1>1. InForm(x)
  BY DEF StateInv
<1> QED
  BY <1>1 DEF InForm, StateVars

LEMMA HandlerInForm ==
    ASSUME TypeOK, StateInv, NEW c \in Client,
           \/ Verify(c) \/ Refuse(c) \/ CancelIdleTimer(c) \/ CopyLog(c)
           \/ FetchHistory(c) \/ Replay(c) \/ History(c)
           \/ ReadFails(c) \/ Remove(c) \/ ScheduleIdleShutdown(c)
           \/ Say(c) \/ Forward(c) \/ Reject(c) \/ Echoed(c) \/ Ask(c) \/ Answer(c)
           \/ Stall(c) \/ HangUp(c)
    PROVE  StateInv'
<1> USE DEF othersVars, sayRest, sourceVars, castVars, handlerVars, browserVars
<1>1. UNCHANGED StateVars /\ subscribed' = subscribed
  BY DEF Verify, Refuse, CancelIdleTimer, CopyLog, FetchHistory, Replay, History, ReadFails,
         Remove, ScheduleIdleShutdown, Say, Forward, Reject, Echoed, Ask, Answer, Stall, HangUp,
         StateVars
<1>2. clients' \subseteq clients
  BY DEF Verify, Refuse, CancelIdleTimer, CopyLog, FetchHistory, Replay, History, ReadFails,
         Remove, ScheduleIdleShutdown, Say, Forward, Reject, Echoed, Ask, Answer, Stall, HangUp,
         Strikes
<1>3. UNCHANGED <<phase, left>> \/ Forward(c)
  BY DEF Verify, Refuse, CancelIdleTimer, CopyLog, FetchHistory, Replay, History, ReadFails,
         Remove, ScheduleIdleShutdown, Say, Reject, Echoed, Ask, Answer, Stall, HangUp
<1>4. \A x \in clients' : Owed("state", x) => Owed("state", x)'
  BY <1>2, <1>3, OwedStays DEF Broadcaster, Publisher
<1>5. \A x \in clients' : /\ place'[x] = "showing" => place[x] = "showing"
                          /\ Showing(x)' => Showing(x)
  <2>1. CASE Verify(c) \/ Refuse(c) \/ CancelIdleTimer(c)
    BY <2>1 DEF Verify, Refuse, CancelIdleTimer, GoTo, At, Showing, TypeOK
  <2>2. CASE CopyLog(c)
    BY <2>2 DEF CopyLog, GoTo, At, Showing, TypeOK
  <2>3. CASE FetchHistory(c)
    BY <2>3 DEF FetchHistory, GoTo, At, Showing, TypeOK
  <2>4. CASE Replay(c)
    BY <2>4 DEF Replay, GoTo, At, Showing, TypeOK
  <2>5. CASE History(c)
    BY <2>5 DEF History, GoTo, At, Showing, TypeOK
  <2>6. CASE ReadFails(c) \/ Remove(c) \/ ScheduleIdleShutdown(c)
    BY <2>6 DEF ReadFails, Remove, ScheduleIdleShutdown, GoTo, At, Showing, TypeOK
  <2>7. CASE Say(c)
    BY <2>7 DEF Say, GoTo, At, Showing, TypeOK
  <2>8. CASE Forward(c)
    BY <2>8 DEF Forward, GoTo, At, Showing, TypeOK
  <2>9. CASE Reject(c) \/ Echoed(c)
    <3>1. /\ place[c] \in {"rejecting", "echoing"}
          /\ place' = [place EXCEPT ![c] = "reading"]
      BY <2>9 DEF Reject, Echoed, GoTo, At
    <3> QED
      BY <3>1 DEF Showing, TypeOK
  <2>10. CASE Ask(c) \/ Answer(c) \/ Stall(c) \/ HangUp(c)
    BY <2>10 DEF Ask, Answer, Stall, HangUp, Showing
  <2> QED
    BY <2>1, <2>2, <2>3, <2>4, <2>5, <2>6, <2>7, <2>8, <2>9, <2>10
<1> QED
  BY <1>1, <1>2, <1>4, <1>5, StateStays

(* The state is read before it is sent, and what changes meanwhile is owed or
   has overtaken it.                                                       *)
LEMMA AttachInForm ==
    ASSUME TypeOK, StateInv, NEW c \in Client,
           Register(c) \/ ReadState(c) \/ ShowState(c)
    PROVE  StateInv'
<1> SUFFICES ASSUME subscribed', NEW x \in clients' PROVE InForm(x)'
  BY DEF StateInv
<1>1. /\ UNCHANGED <<link, phase, left, subscribed>>
      /\ \E to \in HandlerPlaces : place' = [place EXCEPT ![c] = to]
  BY DEF Register, ReadState, ShowState, GoTo, HandlerPlaces, othersVars, sourceVars, castVars
<1>2. x \in Client
  BY DEF Register, ReadState, ShowState, Strikes, TypeOK
<1>3. CASE x # c
  <2>1. x \in clients /\ place'[x] = place[x]
    BY <1>1, <1>2, <1>3 DEF Register, ReadState, ShowState, Strikes, TypeOK
  <2>2. read'[x] = read[x] /\ shown'[x] = shown[x] /\ raced'[x] = raced[x]
    BY <1>2, <1>3 DEF Register, ReadState, ShowState, TypeOK, browserVars
  <2> QED
    BY <1>1, <2>1, <2>2 DEF StateInv, InForm, Showing, Owed
<1>4. CASE x = c /\ Register(c)
  BY <1>2, <1>4 DEF Register, GoTo, InForm, Showing, TypeOK
<1>5. CASE x = c /\ ReadState(c)
  <2>1. place'[c] = "showing" /\ read'[c] = link
    BY <1>2, <1>5 DEF ReadState, GoTo, TypeOK
  <2> QED
    BY <1>1, <1>5, <2>1 DEF InForm, Showing
<1>6. CASE x = c /\ ShowState(c)
  <2>1. Delivers(c) /\ c \in clients
    BY <1>6 DEF ShowState, Strikes
  <2>2. /\ place[c] = "showing" /\ place'[c] = "copying" /\ shown'[c] = read[c]
        /\ raced' = raced
    BY <1>2, <1>6, <2>1 DEF ShowState, GoTo, At, TypeOK
  <2> QED
    BY <1>1, <1>6, <2>1, <2>2 DEF StateInv, InForm, Owed
<1> QED
  BY <1>3, <1>4, <1>5, <1>6

(* A change is broadcast while the gateway listens, and none comes before the
   former has been.                                                        *)
LEMMA TransitionInForm ==
    ASSUME TypeOK, StateInv, Transition
    PROVE  StateInv'
<1> SUFFICES ASSUME subscribed', NEW x \in clients' PROVE InForm(x)'
  BY DEF StateInv
<1>1. subscribed /\ "state" \in DOMAIN phase
  BY DEF Transition, castRest, TypeOK, Broadcaster, Publisher
<1>2. Owed("state", x)'
  BY <1>1 DEF Transition, Owed
<1> QED
  BY <1>2 DEF InForm

LEMMA SendInForm ==
    ASSUME TypeOK, StateInv, NEW b \in Broadcaster, NEW c \in Client, SendTo(b, c)
    PROVE  StateInv'
<1> SUFFICES ASSUME subscribed', NEW x \in clients' PROVE InForm(x)'
  BY DEF StateInv
<1>1. /\ left' = [left EXCEPT ![b] = left[b] \ {c}] /\ phase' = phase
      /\ UNCHANGED <<place, read, link, subscribed>>
  BY DEF SendTo, handlerVars, sourceVars
<1>2. x \in clients /\ x \in Client /\ InForm(x)
  BY <1>1 DEF SendTo, TypeOK, StateInv
<1>3. CASE b = "state" /\ x = c
  <2>1. shown'[x] = link /\ (place[x] = "showing" => raced'[x])
    BY <1>2, <1>3 DEF SendTo, Learns, At, TypeOK
  <2> QED
    BY <1>1, <2>1 DEF InForm
<1>4. CASE ~(b = "state" /\ x = c)
  <2>1. Owed("state", x) => Owed("state", x)'
    BY <1>1, <1>4 DEF Owed, TypeOK
  <2>2. shown'[x] = shown[x] /\ raced'[x] = raced[x]
    BY <1>2, <1>4 DEF SendTo, Learns, TypeOK, browserVars
  <2> QED
    BY <1>1, <1>2, <2>1, <2>2 DEF InForm, Showing
<1> QED
  BY <1>3, <1>4

LEMMA NextInForm == TypeOK /\ StateInv /\ [Next]_vars => StateInv'
<1> SUFFICES ASSUME TypeOK, StateInv, [Next]_vars PROVE StateInv'
  OBVIOUS
<1>1. ASSUME NEW c \in Client,
             \/ Verify(c) \/ Refuse(c) \/ Handler(c) \/ Say(c) \/ History(c) \/ Ask(c)
             \/ Answer(c) \/ Stall(c) \/ HangUp(c)
      PROVE  StateInv'
  BY <1>1, HandlerInForm, AttachInForm DEF Handler
<1>2. ASSUME NEW b \in Broadcaster, NEW c \in Client, SendTo(b, c) PROVE StateInv'
  BY <1>2, SendInForm
<1>3. CASE Transition
  BY <1>3, TransitionInForm
<1>4. ASSUME \/ Store \/ (\E k \in Kind : Publish(k))
             \/ (\E b \in Broadcaster : CopyClients(b) \/ CastDone(b))
             \/ TimerExpires \/ LookForClients \/ Stop \/ CloseAllClients \/ UNCHANGED vars
      PROVE  StateInv'
  <2> USE DEF castRest, stopRest, handlerVars, browserVars, sourceVars, castVars
  <2>1. /\ UNCHANGED <<place, StateVars>> /\ clients' \subseteq clients
        /\ subscribed' => subscribed
    BY <1>4 DEF Store, Publish, CopyClients, CastDone, TimerExpires, LookForClients, Stop,
                CloseAllClients, vars, StateVars
  <2>2. \/ UNCHANGED <<phase, left>> \/ \E k \in Kind : Publish(k)
        \/ \E b \in Broadcaster : CopyClients(b) \/ CastDone(b)
    BY <1>4 DEF Store, TimerExpires, LookForClients, Stop, CloseAllClients, vars
  <2>3. \A x \in clients' : Owed("state", x) => Owed("state", x)'
    BY <2>1, <2>2, OwedStays DEF Broadcaster, Publisher
  <2> QED
    BY <2>1, <2>3, StateStays DEF Showing
<1> QED
  BY <1>1, <1>2, <1>3, <1>4 DEF Next, Broadcast

-----------------------------------------------------------------------------

LEMMA GatewayHolds == Spec => []GatewayInv
<1>1. Init => GatewayInv
  <2> SUFFICES ASSUME Init PROVE GatewayInv
    OBVIOUS
  <2>1. clients = {} /\ \A b \in Broadcaster : phase[b] = "none"
    BY DEF Init
  <2>2. Founded /\ NoGapInv /\ StateInv
    BY <2>1 DEF Founded, NoGapInv, StateInv, Broadcaster, Publisher
  <2> QED
    BY <2>2, InitType DEF GatewayInv
<1>2. GatewayInv /\ [Next]_vars => GatewayInv'
  BY NextTypes, FoundedStays, NextKeepsUp, NextInForm DEF GatewayInv
<1> QED
  BY <1>1, <1>2, PTL DEF Spec

(* The gateway's variables keep their types: the ring never exceeds its cap, and
   a browser has only what was published (gateway.go:355-372).             *)
THEOREM TypeCorrect == Spec => []TypeOK
<1>1. GatewayInv => TypeOK
  BY DEF GatewayInv
<1> QED
  BY <1>1, GatewayHolds, PTL

(* Between what was copied for a browser when it attached and what it is then
   broadcast nothing is lost, whoever publishes, says or leaves meanwhile and
   whatever broadcasts overlap (handleWS, broadcast).                      *)
THEOREM NoGapHolds == Spec => []NoGap
<1>1. GatewayInv => NoGap
  BY DEF GatewayInv, NoGapInv, NoGap, KeepsUp, Copied, Has, Attached
<1> QED
  BY <1>1, GatewayHolds, PTL

(* A browser shows the state the upstream is in, or is about to be told, but
   for a change between the reading and the sending of the first one.      *)
THEOREM StateIsShownHolds == Spec => []StateIsShown
<1>1. GatewayInv => StateIsShown
  BY DEF GatewayInv, StateInv, StateIsShown, InForm, Showing, Attached
<1> QED
  BY <1>1, GatewayHolds, PTL

=============================================================================
