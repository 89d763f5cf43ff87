---------------------------- MODULE BouncerProofs ----------------------------
(***************************************************************************)
(* What holds of Bouncer for any clients, lines and outages.  The three    *)
(* properties rest on what the handlers, the clients map and the fan-outs  *)
(* keep to in step (PlacesOK, NumbersOK); each then has an invariant that  *)
(* says which promise is still on its way, and to which client.            *)
(***************************************************************************)
EXTENDS Bouncer, SequenceTheorems, TLAPS

USE ClientAssumption, SenderAssumption, BoundAssumption

(* A line under way has been counted, and no outage is spoken of that has not
   begun.                                                                  *)
NumbersOK ==
    /\ \A s \in Sender : /\ fan[s].job = "line" => fan[s].n \in 1..lines
                         /\ fan[s].job \in {"announceDown", "down"} => fan[s].n <= outage
    /\ \A c \in Client : told[c] <= outage /\ seen[c] <= outage

(* Where a connection is tells what is known of it.  Until Stop, a handler's
   client is attached unless a write to it has failed.                     *)
PlaceOK(c) ==
    /\ c \in clients => pc[c] \notin {"gone", "accepted"}
    /\ stop = "idle" /\ ~lost[c] /\ pc[c] \notin {"gone", "accepted"} => c \in clients
    /\ auth[c] => pc[c] \in Handling
    /\ welcomed[c] => auth[c]
    /\ pc[c] \in {"surface", "tell", "replay"} => auth[c] /\ ~deferred[c]
    /\ deferred[c] => auth[c] /\ caps[c] = "open"
    /\ pc[c] # "fan" => fan[c].job = "none"
    /\ fan[c].job \in {"none", "line"}
PlacesOK == \A c \in Client : PlaceOK(c)

(* A sequence over a set is one over a larger set.                         *)
LEMMA SeqMonotone ==
    ASSUME NEW S, NEW T, S \subseteq T, NEW q \in Seq(S)
    PROVE  q \in Seq(T)
  OBVIOUS

(* What a fan-out may become.                                              *)
LEMMA NoFanType == NoFan \in FanOuts
  BY DEF NoFan, FanOuts

LEMMA FanOutUpdate ==
    ASSUME NEW f \in FanOuts
    PROVE  \A c : [f EXCEPT !.todo = f.todo \ {c}] \in FanOuts
  BY DEF FanOuts

(* The start.                                                              *)
LEMMA TypeInitially == Init => TypeOK /\ NumbersOK
<1> SUFFICES ASSUME Init PROVE TypeOK /\ NumbersOK
  OBVIOUS
<1>1. <<>> \in Seq(1..0)
  OBVIOUS
<1>2. TypeOK
  BY <1>1, NoFanType DEF Init, TypeOK, Sender, Machine, Places
<1>3. NumbersOK
  BY DEF Init, NumbersOK, NoFan
<1> QED
  BY <1>2, <1>3

(* A line that is counted leaves what was counted before in place.         *)
LEMMA StartLineType ==
    ASSUME TypeOK, NEW s \in Sender, StartLine(s), UNCHANGED <<inbox, stored, replayed, gap>>
    PROVE  /\ lines' \in Nat /\ inbox' \in Seq(1..lines') /\ fan' \in [Sender -> FanOuts]
           /\ stored' \subseteq 1..lines' /\ got' \in [Client -> SUBSET (1..lines')]
           /\ replayed' \in [Client -> SUBSET (1..lines')]
           /\ gap' \in [Client -> SUBSET (1..lines')]
<1> USE DEF TypeOK
<1>1. lines' = lines + 1 /\ lines' \in Nat
  BY DEF StartLine
<1>2. 1..lines \subseteq 1..lines' /\ lines' \in 1..lines'
  BY <1>1
<1>3. inbox' \in Seq(1..lines')
  BY <1>2, SeqMonotone
<1>4. fan' \in [Sender -> FanOuts]
  <2>1. [job |-> "line", n |-> lines + 1, todo |-> clients \ Excluded(s)] \in FanOuts
    BY DEF FanOuts
  <2> QED
    BY <2>1 DEF StartLine
<1>5. got' \in [Client -> SUBSET (1..lines')]
  BY <1>1, <1>2 DEF StartLine
<1> QED
  BY <1>1, <1>2, <1>3, <1>4, <1>5

(* A change of the upstream state, and the notice it calls for.            *)
LEMMA PublishType ==
    ASSUME TypeOK, NEW s \in Sender, NEW to \in Machine, Publish(s, to)
    PROVE  fan' \in [Sender -> FanOuts] /\ outage' \in Nat /\ outage' >= outage
<1> USE DEF TypeOK
<1>1. outage' \in Nat /\ outage' >= outage
  BY DEF Publish
<1>2. Announcement(machine, to) \in {"none", "announceDown", "announceUp"}
  BY DEF Announcement
<1>3. [job |-> Announcement(machine, to), n |-> outage', todo |-> {}] \in FanOuts
  BY <1>1, <1>2 DEF FanOuts
<1> QED
  BY <1>1, <1>3, NoFanType DEF Publish

(* Types after every step: each fan-out and each line needs its own case.  *)
LEMMA TypeStep ==
    ASSUME TypeOK, NumbersOK, [Next]_vars
    PROVE  TypeOK'
<1> USE DEF TypeOK, serverVars, connVars, upVars, storeVars, seenVars, heardVars, GoTo,
   Again
<1>1. ASSUME NEW d \in Client, Accept(d) \/ ServeConn(d) PROVE TypeOK'
  <2>1. Connect(d)
    BY <1>1 DEF Accept, ServeConn
  <2> QED
    BY <2>1 DEF Connect, Places, Handling
<1>2. ASSUME NEW d \in Client, Attach(d) \/ StartHandler(d) PROVE TypeOK'
  BY <1>2 DEF Attach, StartHandler, Places, Handling
<1>3. ASSUME NEW d \in Client, PassAccepted(d) PROVE TypeOK'
  BY <1>3 DEF PassAccepted, Line, Places, Handling
<1>4. ASSUME NEW d \in Client, PassRefused(d) PROVE TypeOK'
  BY <1>4 DEF PassRefused, Line, Places, Handling
<1>5. ASSUME NEW d \in Client, CapStart(d) \/ OtherLine(d) \/ Message(d) PROVE TypeOK'
  <2>1. pc' \in [Client -> Places] /\ caps' \in [Client -> {"none", "open", "done"}]
    BY <1>5 DEF CapStart, OtherLine, Message, UnchangedByLine, Places, Handling
  <2>2. UNCHANGED <<serverVars, clients, sock, peer, auth, deferred, fan, upVars, storeVars,
                    seenVars, heardVars>>
    BY <1>5 DEF CapStart, OtherLine, Message, UnchangedByLine
  <2> QED
    BY <2>1, <2>2
<1>6. ASSUME NEW d \in Client, CapEnd(d) PROVE TypeOK'
  BY <1>6 DEF CapEnd, Line, UnchangedByLine, Places, Handling
<1>7. ASSUME NEW d \in Client, SendFails(d) \/ ReadFails(d) PROVE TypeOK'
  <2>1. pc' \in [Client -> Places]
    BY <1>7 DEF SendFails, ReadFails, Places, Handling
  <2> QED
    BY <1>7, <2>1 DEF SendFails, ReadFails
<1>8. ASSUME NEW d \in Client, Exit(d) PROVE TypeOK'
  BY <1>8 DEF Exit, Places, Handling
<1>9. ASSUME NEW d \in Client, Surface(d) PROVE TypeOK'
  BY <1>9 DEF Surface, Places, Handling
<1>10. ASSUME NEW d \in Client, Tell(d) PROVE TypeOK'
  <2>1. pc' \in [Client -> Places] /\ seen' \in [Client -> Nat]
    BY <1>10 DEF Tell, Places, Handling
  <2>2. told' \in [Client -> Nat] /\ lost' \in [Client -> BOOLEAN]
    BY <1>10 DEF Tell
  <2> QED
    BY <1>10, <2>1, <2>2 DEF Tell
<1>11. ASSUME NEW d \in Client, Replay(d) PROVE TypeOK'
  <2>1. replayed' \in [Client -> SUBSET (1..lines)]
    BY <1>11 DEF Replay
  <2> QED
    BY <1>11, <2>1 DEF Replay, Places, Handling
<1>12. ASSUME NEW d \in Client, SendUpstream(d) PROVE TypeOK'
  <2>1. StartLine(d) /\ d \in Sender
    BY <1>12 DEF SendUpstream, Sender
  <2>2. lines' \in Nat /\ inbox' \in Seq(1..lines') /\ fan' \in [Sender -> FanOuts]
        /\ stored' \subseteq 1..lines' /\ got' \in [Client -> SUBSET (1..lines')]
        /\ replayed' \in [Client -> SUBSET (1..lines')] /\ gap' \in [Client -> SUBSET (1..lines')]
    BY <1>12, <2>1, StartLineType DEF SendUpstream
  <2> QED
    BY <1>12, <2>2 DEF SendUpstream, Places, Handling
<1>13. ASSUME Dispatch PROVE TypeOK'
  <2>1. StartLine(Upstream) /\ Upstream \in Sender
    BY <1>13 DEF Dispatch, Sender
  <2>2. lines' \in Nat /\ inbox' \in Seq(1..lines') /\ fan' \in [Sender -> FanOuts]
        /\ stored' \subseteq 1..lines' /\ got' \in [Client -> SUBSET (1..lines')]
        /\ replayed' \in [Client -> SUBSET (1..lines')] /\ gap' \in [Client -> SUBSET (1..lines')]
    BY <1>13, <2>1, StartLineType DEF Dispatch
  <2> QED
    BY <1>13, <2>2 DEF Dispatch, Places, Handling
<1>14. ASSUME NEW s \in Sender, NEW d \in Client, PassOver(s, d) PROVE TypeOK'
  <2>1. [fan[s] EXCEPT !.todo = fan[s].todo \ {d}] \in FanOuts
    BY FanOutUpdate
  <2>2. fan' \in [Sender -> FanOuts]
    BY <1>14, <2>1 DEF PassOver
  <2> QED
    BY <1>14, <2>2 DEF PassOver
<1>15. ASSUME NEW s \in Sender, NEW d \in Client, Write(s, d) PROVE TypeOK'
  <2>1. [fan[s] EXCEPT !.todo = fan[s].todo \ {d}] \in FanOuts
    BY FanOutUpdate
  <2>2. fan' \in [Sender -> FanOuts]
    BY <1>15, <2>1 DEF Write
  <2>3. fan[s].n \in Nat
    BY DEF FanOuts
  <2>4. got' \in [Client -> SUBSET (1..lines)]
    BY <1>15 DEF Write, NumbersOK
  <2>5. told' \in [Client -> Nat]
    BY <1>15, <2>3 DEF Write
  <2> QED
    BY <1>15, <2>2, <2>4, <2>5 DEF Write
<1>16. ASSUME NEW s \in Sender, NEW d \in Client, WriteFails(s, d) PROVE TypeOK'
  <2>1. [fan[s] EXCEPT !.todo = fan[s].todo \ {d}] \in FanOuts
    BY FanOutUpdate
  <2>2. fan' \in [Sender -> FanOuts]
    BY <1>16, <2>1 DEF WriteFails
  <2> QED
    BY <1>16, <2>2 DEF WriteFails
<1>17. ASSUME NEW s \in Sender, LineDone(s) PROVE TypeOK'
  <2>1. fan' \in [Sender -> FanOuts]
    BY <1>17, NoFanType DEF LineDone
  <2>2. fan[s].n \in 1..lines /\ lines' = lines
    BY <1>17 DEF LineDone, NumbersOK
  <2>3. inbox' \in Seq(1..lines) /\ stored' \subseteq 1..lines
    <3>1. inbox' = inbox \/ inbox' = Append(inbox, fan[s].n)
      BY <1>17 DEF LineDone
    <3>2. stored' = stored \/ stored' = stored \cup {fan[s].n}
      BY <1>17 DEF LineDone
    <3>3. Append(inbox, fan[s].n) \in Seq(1..lines)
      BY <2>2
    <3> QED
      BY <2>2, <3>1, <3>2, <3>3
  <2>4. pc' \in [Client -> Places]
    BY <1>17 DEF LineDone, Places, Handling
  <2> QED
    BY <1>17, <2>1, <2>2, <2>3, <2>4 DEF LineDone
<1>18. ASSUME Store PROVE TypeOK'
  <2>1. Head(inbox) \in 1..lines /\ Tail(inbox) \in Seq(1..lines)
    BY <1>18 DEF Store
  <2> QED
    BY <1>18, <2>1 DEF Store
<1>19. ASSUME NEW s \in Sender, StartNotice(s) PROVE TypeOK'
  <2>1. \A j \in {"up", "down"} : [job |-> j, n |-> fan[s].n, todo |-> clients] \in FanOuts
    BY DEF FanOuts
  <2>2. fan' \in [Sender -> FanOuts]
    BY <1>19, <2>1 DEF StartNotice
  <2> QED
    BY <1>19, <2>2 DEF StartNotice
<1>20. ASSUME NEW s \in Sender, NoticeDone(s) PROVE TypeOK'
  <2>1. fan' \in [Sender -> FanOuts]
    BY <1>20, NoFanType DEF NoticeDone
  <2> QED
    BY <1>20, <2>1 DEF NoticeDone
<1>21. ASSUME Dial \/ Registered \/ Lose \/ Suspend PROVE TypeOK'
  <2>1. PICK s \in {Upstream, Control}, to \in Machine :
            Publish(s, to) /\ session' \in {"away", "dial", "up"}
    BY <1>21 DEF Dial, Registered, Lose, Suspend, Machine
  <2>2. fan' \in [Sender -> FanOuts] /\ outage' \in Nat /\ machine' \in Machine
    BY <2>1, PublishType DEF Sender, Publish
  <2> QED
    BY <2>1, <2>2 DEF Publish
<1>22. ASSUME NEW d \in Client, Stall(d) \/ Recover(d) \/ Vanish(d) PROVE TypeOK'
  <2>1. PICK from, to \in {"up", "stalled", "gone"} : PeerTurns(d, {from}, to)
    BY <1>22 DEF Stall, Recover, Vanish, PeerTurns
  <2> QED
    BY <2>1 DEF PeerTurns
<1>23. ASSUME ParentEnds \/ StopCancels \/ StopListener PROVE TypeOK'
  BY <1>23 DEF ParentEnds, StopCancels, StopListener, UnchangedByStop, Places, Handling
<1>24. ASSUME StopBegins PROVE TypeOK'
  BY <1>24 DEF StopBegins, UnchangedByStop, Places, Handling
<1>25. ASSUME NEW d \in Client, StopCloses(d) PROVE TypeOK'
  BY <1>25 DEF StopCloses, UnchangedByStop, Places, Handling
<1>26. ASSUME AcceptLoopEnds PROVE TypeOK'
  BY <1>26 DEF AcceptLoopEnds, UnchangedByStop, Places, Handling
<1>27. ASSUME StopReturns PROVE TypeOK'
  BY <1>27 DEF StopReturns, UnchangedByStop, Places, Handling
<1>28. ASSUME UNCHANGED vars PROVE TypeOK'
  BY <1>28 DEF vars, Places, Handling
<1> QED
  BY <1>1, <1>2, <1>3, <1>4, <1>5, <1>6, <1>7, <1>8, <1>9, <1>10, <1>11, <1>12, <1>13,
     <1>14, <1>15, <1>16, <1>17, <1>18, <1>19, <1>20, <1>21, <1>22, <1>23, <1>24, <1>25,
     <1>26, <1>27, <1>28
  DEF Next, Handler, Reads, Fan, Stopping

(* Nothing is numbered ahead of its count.                                 *)
LEMMA NumbersStep ==
    ASSUME TypeOK, NumbersOK, [Next]_vars
    PROVE  NumbersOK'
<1> USE DEF NumbersOK, TypeOK, FanOuts, serverVars, connVars, upVars, storeVars, seenVars,
   heardVars, GoTo, Again
<1>1. ASSUME NEW d \in Client, Accept(d) \/ ServeConn(d) PROVE NumbersOK'
  BY <1>1 DEF Accept, ServeConn, Connect, Unused
<1>2. ASSUME NEW d \in Client, Attach(d) \/ StartHandler(d) PROVE NumbersOK'
  BY <1>2 DEF Attach, StartHandler
<1>3. ASSUME NEW d \in Client, PassAccepted(d) PROVE NumbersOK'
  BY <1>3 DEF PassAccepted, Line
<1>4. ASSUME NEW d \in Client, PassRefused(d) PROVE NumbersOK'
  BY <1>4 DEF PassRefused, Line
<1>5. ASSUME NEW d \in Client, CapStart(d) \/ OtherLine(d) \/ Message(d) PROVE NumbersOK'
  BY <1>5 DEF CapStart, OtherLine, Message, Line, UnchangedByLine
<1>6. ASSUME NEW d \in Client, CapEnd(d) PROVE NumbersOK'
  BY <1>6 DEF CapEnd, Line, UnchangedByLine
<1>7. ASSUME NEW d \in Client, SendFails(d) \/ ReadFails(d) PROVE NumbersOK'
  BY <1>7 DEF SendFails, ReadFails
<1>8. ASSUME NEW d \in Client, Exit(d) PROVE NumbersOK'
  BY <1>8 DEF Exit
<1>9. ASSUME NEW d \in Client, Surface(d) PROVE NumbersOK'
  BY <1>9 DEF Surface
<1>10. ASSUME NEW d \in Client, Tell(d) PROVE NumbersOK'
  BY <1>10 DEF Tell
<1>11. ASSUME NEW d \in Client, Replay(d) PROVE NumbersOK'
  BY <1>11 DEF Replay
<1>12. ASSUME NEW d \in Client, SendUpstream(d) PROVE NumbersOK'
  BY <1>12 DEF SendUpstream, StartLine
<1>13. ASSUME Dispatch PROVE NumbersOK'
  BY <1>13 DEF Dispatch, StartLine
<1>14. ASSUME NEW s \in Sender, NEW d \in Client, PassOver(s, d) PROVE NumbersOK'
  BY <1>14 DEF PassOver
<1>15. ASSUME NEW s \in Sender, NEW d \in Client, Write(s, d) PROVE NumbersOK'
  BY <1>15 DEF Write
<1>16. ASSUME NEW s \in Sender, NEW d \in Client, WriteFails(s, d) PROVE NumbersOK'
  BY <1>16 DEF WriteFails
<1>17. ASSUME NEW s \in Sender, LineDone(s) PROVE NumbersOK'
  BY <1>17 DEF LineDone, NoFan
<1>18. ASSUME Store PROVE NumbersOK'
  BY <1>18 DEF Store
<1>19. ASSUME NEW s \in Sender, StartNotice(s) PROVE NumbersOK'
  <2>1. \A t \in Sender : fan'[t].n = fan[t].n
    BY <1>19 DEF StartNotice
  <2>2. \A t \in Sender : fan'[t].job = "line" => fan[t].job = "line"
    BY <1>19 DEF StartNotice
  <2>3. \A t \in Sender : fan'[t].job \in {"announceDown", "down"}
                           => fan[t].job \in {"announceDown", "down"}
    <3>1. fan[s].job # "announceUp" => fan[s].job = "announceDown"
      BY <1>19 DEF StartNotice
    <3>2. fan[s].job = "announceUp" => fan'[s].job = "up"
      BY <1>19 DEF StartNotice
    <3>3. \A t \in Sender \ {s} : fan'[t] = fan[t]
      BY <1>19 DEF StartNotice
    <3> QED
      BY <3>1, <3>2, <3>3
  <2>4. lines' = lines /\ outage' = outage /\ told' = told /\ seen' = seen
    BY <1>19 DEF StartNotice
  <2> QED
    BY <2>1, <2>2, <2>3, <2>4
<1>20. ASSUME NEW s \in Sender, NoticeDone(s) PROVE NumbersOK'
  BY <1>20 DEF NoticeDone, NoFan
<1>21. ASSUME Dial \/ Registered \/ Lose \/ Suspend PROVE NumbersOK'
  <2>1. PICK s \in {Upstream, Control}, to \in Machine : Publish(s, to)
    BY <1>21 DEF Dial, Registered, Lose, Suspend, Machine
  <2>2. outage' >= outage /\ outage' \in Nat
    BY <2>1, PublishType DEF Sender
  <2>3. \A t \in Sender \ {s} : fan'[t] = fan[t]
    BY <2>1 DEF Publish
  <2>4. fan'[s].job # "line" /\ fan'[s].job # "down"
        /\ (fan'[s].job = "announceDown" => fan'[s].n = outage')
    BY <2>1 DEF Publish, Announcement, NoFan, Sender
  <2>5. lines' = lines /\ told' = told /\ seen' = seen
    BY <2>1 DEF Publish
  <2>6. \A t \in Sender : fan'[t].job \in {"announceDown", "down"} => fan'[t].n <= outage'
    <3>1. ASSUME NEW t \in Sender, fan'[t].job \in {"announceDown", "down"}, t # s
          PROVE  fan'[t].n <= outage'
      <4>1. fan[t].n \in Nat /\ fan[t].n <= outage /\ fan'[t].n = fan[t].n
        BY <3>1, <2>3
      <4> QED
        BY <4>1, <2>2
    <3>2. fan'[s].job \in {"announceDown", "down"} => fan'[s].n <= outage'
      BY <2>2, <2>4
    <3> QED
      BY <3>1, <3>2
  <2>7. \A c \in Client : told[c] <= outage' /\ seen[c] <= outage'
    BY <2>2
  <2> QED
    BY <2>3, <2>4, <2>5, <2>6, <2>7
<1>22. ASSUME NEW d \in Client, Stall(d) \/ Recover(d) \/ Vanish(d) PROVE NumbersOK'
  BY <1>22 DEF Stall, Recover, Vanish, PeerTurns
<1>23. ASSUME ParentEnds \/ StopCancels \/ StopListener PROVE NumbersOK'
  BY <1>23 DEF ParentEnds, StopCancels, StopListener, UnchangedByStop
<1>24. ASSUME StopBegins PROVE NumbersOK'
  BY <1>24 DEF StopBegins, UnchangedByStop
<1>25. ASSUME NEW d \in Client, StopCloses(d) PROVE NumbersOK'
  BY <1>25 DEF StopCloses, UnchangedByStop
<1>26. ASSUME AcceptLoopEnds PROVE NumbersOK'
  BY <1>26 DEF AcceptLoopEnds, UnchangedByStop
<1>27. ASSUME StopReturns PROVE NumbersOK'
  BY <1>27 DEF StopReturns, UnchangedByStop
<1>28. ASSUME UNCHANGED vars PROVE NumbersOK'
  BY <1>28 DEF vars
<1> QED
  BY <1>1, <1>2, <1>3, <1>4, <1>5, <1>6, <1>7, <1>8, <1>9, <1>10, <1>11, <1>12, <1>13,
     <1>14, <1>15, <1>16, <1>17, <1>18, <1>19, <1>20, <1>21, <1>22, <1>23, <1>24, <1>25,
     <1>26, <1>27, <1>28
  DEF Next, Handler, Reads, Fan, Stopping

(* The handlers, the clients map and the fan-outs agree after every step.  *)
LEMMA PlacesStep ==
    ASSUME TypeOK, PlacesOK, [Next]_vars
    PROVE  PlacesOK'
<1> USE DEF PlacesOK, PlaceOK, TypeOK, serverVars, connVars, upVars, storeVars, seenVars,
   heardVars, GoTo, Again
<1>1. ASSUME NEW d \in Client, Accept(d) \/ ServeConn(d) PROVE PlacesOK'
  BY <1>1 DEF Accept, ServeConn, Connect, Unused, Handling, NoFan, Sender
<1>2. ASSUME NEW d \in Client, Attach(d) \/ StartHandler(d) PROVE PlacesOK'
  BY <1>2 DEF Attach, StartHandler, Handling, NoFan, Sender
<1>3. ASSUME NEW d \in Client, PassAccepted(d) PROVE PlacesOK'
  BY <1>3 DEF PassAccepted, Line, Handling, NoFan, Sender
<1>4. ASSUME NEW d \in Client, PassRefused(d) PROVE PlacesOK'
  BY <1>4 DEF PassRefused, Line, Handling, NoFan, Sender
<1>5. ASSUME NEW d \in Client, CapStart(d) \/ OtherLine(d) \/ Message(d) PROVE PlacesOK'
  BY <1>5 DEF CapStart, OtherLine, Message, Line, UnchangedByLine, Handling, NoFan, Sender
<1>6. ASSUME NEW d \in Client, CapEnd(d) PROVE PlacesOK'
  <2>1. /\ pc' = [pc EXCEPT ![d] = pc'[d]] /\ deferred' = [deferred EXCEPT ![d] = FALSE]
        /\ caps' = [caps EXCEPT ![d] = "done"]
    BY <1>6 DEF CapEnd
  <2>2. pc[d] = "read" /\ pc'[d] \in {"read", "exit", "surface"}
        /\ (pc'[d] = "surface" => deferred[d])
    BY <1>6 DEF CapEnd, Line
  <2>3. deferred[d] => auth[d]
    OBVIOUS
  <2>4. UNCHANGED <<clients, stop, lost, auth, welcomed, fan>>
    BY <1>6 DEF CapEnd, UnchangedByLine
  <2> QED
    BY <2>1, <2>2, <2>3, <2>4 DEF Handling
<1>7. ASSUME NEW d \in Client, SendFails(d) \/ ReadFails(d) PROVE PlacesOK'
  BY <1>7 DEF SendFails, ReadFails, Handling, NoFan, Sender
<1>8. ASSUME NEW d \in Client, Exit(d) PROVE PlacesOK'
  BY <1>8 DEF Exit, Handling, NoFan, Sender
<1>9. ASSUME NEW d \in Client, Surface(d) PROVE PlacesOK'
  BY <1>9 DEF Surface, Handling, NoFan, Sender
<1>10. ASSUME NEW d \in Client, Tell(d) PROVE PlacesOK'
  BY <1>10 DEF Tell, Handling, NoFan, Sender
<1>11. ASSUME NEW d \in Client, Replay(d) PROVE PlacesOK'
  BY <1>11 DEF Replay, Handling, NoFan, Sender
<1>12. ASSUME NEW d \in Client, SendUpstream(d) PROVE PlacesOK'
  BY <1>12 DEF SendUpstream, Handling, NoFan, Sender, StartLine
<1>13. ASSUME Dispatch PROVE PlacesOK'
  BY <1>13 DEF Dispatch, Handling, NoFan, Sender, StartLine
<1>14. ASSUME NEW s \in Sender, NEW d \in Client, PassOver(s, d) PROVE PlacesOK'
  BY <1>14 DEF PassOver, Handling, NoFan, Sender
<1>15. ASSUME NEW s \in Sender, NEW d \in Client, Write(s, d) PROVE PlacesOK'
  BY <1>15 DEF Write, Handling, NoFan, Sender
<1>16. ASSUME NEW s \in Sender, NEW d \in Client, WriteFails(s, d) PROVE PlacesOK'
  BY <1>16 DEF WriteFails, Handling, NoFan, Sender
<1>17. ASSUME NEW s \in Sender, LineDone(s) PROVE PlacesOK'
  BY <1>17 DEF LineDone, Handling, NoFan, Sender
<1>18. ASSUME Store PROVE PlacesOK'
  BY <1>18 DEF Store, Handling, NoFan, Sender
<1>19. ASSUME NEW s \in Sender, StartNotice(s) PROVE PlacesOK'
  BY <1>19 DEF StartNotice, Handling, NoFan, Sender
<1>20. ASSUME NEW s \in Sender, NoticeDone(s) PROVE PlacesOK'
  BY <1>20 DEF NoticeDone, Handling, NoFan, Sender
<1>21. ASSUME Dial \/ Registered \/ Lose \/ Suspend PROVE PlacesOK'
  <2>1. PICK s \in {Upstream, Control}, to \in Machine : Publish(s, to)
    BY <1>21 DEF Dial, Registered, Lose, Suspend, Machine
  <2>2. \A t \in Sender \ {s} : fan'[t] = fan[t]
    BY <2>1 DEF Publish
  <2>3. \A c \in Client : fan'[c] = fan[c]
    BY <2>1, <2>2 DEF Sender
  <2> QED
    BY <2>1, <2>3 DEF Publish
<1>22. ASSUME NEW d \in Client, Stall(d) \/ Recover(d) \/ Vanish(d) PROVE PlacesOK'
  BY <1>22 DEF Stall, Recover, Vanish, PeerTurns, Handling, NoFan, Sender
<1>23. ASSUME ParentEnds \/ StopCancels \/ StopListener PROVE PlacesOK'
  BY <1>23 DEF ParentEnds, StopCancels, StopListener, UnchangedByStop, Handling, NoFan,
     Sender
<1>24. ASSUME StopBegins PROVE PlacesOK'
  BY <1>24 DEF StopBegins, UnchangedByStop, Handling, NoFan, Sender
<1>25. ASSUME NEW d \in Client, StopCloses(d) PROVE PlacesOK'
  BY <1>25 DEF StopCloses, UnchangedByStop, Handling, NoFan, Sender
<1>26. ASSUME AcceptLoopEnds PROVE PlacesOK'
  BY <1>26 DEF AcceptLoopEnds, UnchangedByStop, Handling, NoFan, Sender
<1>27. ASSUME StopReturns PROVE PlacesOK'
  BY <1>27 DEF StopReturns, UnchangedByStop, Handling, NoFan, Sender
<1>28. ASSUME UNCHANGED vars PROVE PlacesOK'
  BY <1>28 DEF vars, Handling, NoFan, Sender
<1> QED
  BY <1>1, <1>2, <1>3, <1>4, <1>5, <1>6, <1>7, <1>8, <1>9, <1>10, <1>11, <1>12, <1>13,
     <1>14, <1>15, <1>16, <1>17, <1>18, <1>19, <1>20, <1>21, <1>22, <1>23, <1>24, <1>25,
     <1>26, <1>27, <1>28
  DEF Next, Handler, Reads, Fan, Stopping

(* Once the accept loop has ended no connection is on its way to a handler,
   and once Stop has returned there is none at all.                        *)
LoopOK ==
    listening => /\ ~accepting => \A c \in Client : pc[c] \notin {"accepted", "added"}
                 /\ stop = "returned" => ~accepting /\ \A c \in Client : pc[c] = "gone"

(* Every line has reached c, is on its way to it, or is in the store for its
   welcome.                                                                *)
LinesOK(c) ==
    auth[c] /\ ~lost[c] /\ stop = "idle" =>
        \A n \in 1..lines : \/ n \in got[c] \cup gap[c] \/ Pending(c, n)
                            \/ n \in IF welcomed[c] THEN replayed[c] ELSE stored

(* The notice of this outage has yet to reach c.                           *)
NoticeToCome(c) ==
    \E s \in Sender : /\ fan[s].n = outage
                      /\ \/ fan[s].job = "announceDown"
                         \/ fan[s].job = "down" /\ c \in fan[s].todo

(* The welcome of c has yet to tell it of this outage.                     *)
WelcomeToCome(c) ==
    ~welcomed[c] /\ (deferred[c] \/ pc[c] = "surface" \/ (pc[c] = "tell" /\ seen[c] = outage))

ToldOK(c) ==
    auth[c] /\ ~lost[c] /\ stop = "idle" /\ machine # "registered" =>
        told[c] = outage \/ NoticeToCome(c) \/ WelcomeToCome(c)

(* Stop and the accept loop.                                               *)
LEMMA LoopStep ==
    ASSUME TypeOK, PlacesOK, LoopOK, [Next]_vars
    PROVE  LoopOK'
<1> USE DEF LoopOK, PlacesOK, PlaceOK, TypeOK, Handling, Places, Sender, serverVars,
   connVars, upVars, storeVars, seenVars, heardVars, GoTo, Again
<1>1. ASSUME NEW d \in Client, Accept(d) \/ ServeConn(d) PROVE LoopOK'
  BY <1>1 DEF Accept, ServeConn, Connect, Unused, Places, Handling
<1>2. ASSUME NEW d \in Client, Attach(d) \/ StartHandler(d) PROVE LoopOK'
  BY <1>2 DEF Attach, StartHandler
<1>3. ASSUME NEW d \in Client, PassAccepted(d) PROVE LoopOK'
  BY <1>3 DEF PassAccepted, Line
<1>4. ASSUME NEW d \in Client, PassRefused(d) PROVE LoopOK'
  BY <1>4 DEF PassRefused, Line
<1>5. ASSUME NEW d \in Client, CapStart(d) \/ OtherLine(d) \/ Message(d) PROVE LoopOK'
  <2>1. UNCHANGED <<listening, accepting, stop>>
    BY <1>5 DEF CapStart, OtherLine, Message, Line, UnchangedByLine
  <2>2. pc[d] \in {"read", "send"} /\ \E p \in {"read", "exit", "send"} : pc' = [pc EXCEPT ![d] = p]
    BY <1>5 DEF CapStart, OtherLine, Message, Line, UnchangedByLine
  <2> QED
    BY <2>1, <2>2
<1>6. ASSUME NEW d \in Client, CapEnd(d) PROVE LoopOK'
  BY <1>6 DEF CapEnd, Line, UnchangedByLine
<1>7. ASSUME NEW d \in Client, SendFails(d) \/ ReadFails(d) PROVE LoopOK'
  <2>1. UNCHANGED <<listening, accepting, stop>>
    BY <1>7 DEF SendFails, ReadFails
  <2>2. pc[d] \in {"read", "send"} /\ \E p \in {"read", "exit", "send"} : pc' = [pc EXCEPT ![d] = p]
    BY <1>7 DEF SendFails, ReadFails
  <2> QED
    BY <2>1, <2>2
<1>8. ASSUME NEW d \in Client, Exit(d) PROVE LoopOK'
  BY <1>8 DEF Exit
<1>9. ASSUME NEW d \in Client, Surface(d) PROVE LoopOK'
  BY <1>9 DEF Surface
<1>10. ASSUME NEW d \in Client, Tell(d) PROVE LoopOK'
  BY <1>10 DEF Tell
<1>11. ASSUME NEW d \in Client, Replay(d) PROVE LoopOK'
  BY <1>11 DEF Replay
<1>12. ASSUME NEW d \in Client, SendUpstream(d) PROVE LoopOK'
  BY <1>12 DEF SendUpstream, StartLine
<1>13. ASSUME Dispatch PROVE LoopOK'
  BY <1>13 DEF Dispatch, StartLine
<1>14. ASSUME NEW s \in Sender, NEW d \in Client, PassOver(s, d) PROVE LoopOK'
  BY <1>14 DEF PassOver
<1>15. ASSUME NEW s \in Sender, NEW d \in Client, Write(s, d) PROVE LoopOK'
  BY <1>15 DEF Write
<1>16. ASSUME NEW s \in Sender, NEW d \in Client, WriteFails(s, d) PROVE LoopOK'
  BY <1>16 DEF WriteFails
<1>17. ASSUME NEW s \in Sender, LineDone(s) PROVE LoopOK'
  <2>1. UNCHANGED <<listening, accepting, stop>>
    BY <1>17 DEF LineDone
  <2>2. \/ pc' = pc
        \/ s \in Client /\ pc[s] = "fan" /\ \E p \in {"read", "exit"} : pc' = [pc EXCEPT ![s] = p]
    BY <1>17 DEF LineDone
  <2> QED
    BY <2>1, <2>2
<1>18. ASSUME Store PROVE LoopOK'
  BY <1>18 DEF Store
<1>19. ASSUME NEW s \in Sender, StartNotice(s) PROVE LoopOK'
  BY <1>19 DEF StartNotice
<1>20. ASSUME NEW s \in Sender, NoticeDone(s) PROVE LoopOK'
  BY <1>20 DEF NoticeDone
<1>21. ASSUME Dial \/ Registered \/ Lose \/ Suspend PROVE LoopOK'
  BY <1>21 DEF Dial, Registered, Lose, Suspend, Publish
<1>22. ASSUME NEW d \in Client, Stall(d) \/ Recover(d) \/ Vanish(d) PROVE LoopOK'
  BY <1>22 DEF Stall, Recover, Vanish, PeerTurns
<1>23. ASSUME ParentEnds \/ StopCancels \/ StopListener PROVE LoopOK'
  BY <1>23 DEF ParentEnds, StopCancels, StopListener, UnchangedByStop
<1>24. ASSUME StopBegins PROVE LoopOK'
  BY <1>24 DEF StopBegins, UnchangedByStop
<1>25. ASSUME NEW d \in Client, StopCloses(d) PROVE LoopOK'
  BY <1>25 DEF StopCloses, UnchangedByStop
<1>26. ASSUME AcceptLoopEnds PROVE LoopOK'
  BY <1>26 DEF AcceptLoopEnds, UnchangedByStop, Places, Handling
<1>27. ASSUME StopReturns PROVE LoopOK'
  BY <1>27 DEF StopReturns, UnchangedByStop, Places, Handling
<1>28. ASSUME UNCHANGED vars PROVE LoopOK'
  BY <1>28 DEF vars, Places, Handling
<1> QED
  BY <1>1, <1>2, <1>3, <1>4, <1>5, <1>6, <1>7, <1>8, <1>9, <1>10, <1>11, <1>12, <1>13,
     <1>14, <1>15, <1>16, <1>17, <1>18, <1>19, <1>20, <1>21, <1>22, <1>23, <1>24, <1>25,
     <1>26, <1>27, <1>28
  DEF Next, Handler, Reads, Fan, Stopping

(* A fan-out that changes keeps what it had for c.                         *)
LEMMA PendingKept ==
    ASSUME NEW c \in Client, NEW s \in Sender, NEW f, fan \in [Sender -> FanOuts],
           fan' = [fan EXCEPT ![s] = f],
           fan[s].job = "line" => /\ f.job = "line" /\ f.n = fan[s].n
                                  /\ c \in fan[s].todo => c \in f.todo
    PROVE  \A n : Pending(c, n) => Pending(c, n)'
  BY DEF Pending

(* The snapshot of a fan-out holds c, if c is attached, or c knows the line. *)
LEMMA StartLineKeeps ==
    ASSUME TypeOK, PlacesOK, NEW c \in Client, LinesOK(c), NEW s \in Sender, ~Busy(s),
           StartLine(s), UNCHANGED <<auth, lost, stop, gap, welcomed, replayed, stored>>
    PROVE  LinesOK(c)'
<1> SUFFICES ASSUME auth[c], ~lost[c], stop = "idle", NEW n \in 1..lines'
             PROVE  \/ n \in got'[c] \cup gap[c] \/ Pending(c, n)'
                    \/ n \in IF welcomed[c] THEN replayed[c] ELSE stored
  BY DEF LinesOK
<1>1. c \in clients
  BY DEF PlacesOK, PlaceOK, Handling
<1>2. lines \in Nat /\ lines' = lines + 1
  BY DEF TypeOK, StartLine
<1>3. CASE n = lines + 1
  <2>1. CASE c \in Excluded(s)
    BY <1>3, <2>1 DEF StartLine
  <2>2. CASE c \notin Excluded(s)
    <3>1. fan'[s] = [job |-> "line", n |-> n, todo |-> clients \ Excluded(s)]
      BY <1>3 DEF StartLine, TypeOK
    <3> QED
      BY <1>1, <2>2, <3>1 DEF Pending
  <2> QED
    BY <2>1, <2>2
<1>4. CASE n \in 1..lines
  <2>1. Pending(c, n) => Pending(c, n)'
    <3>1. fan[s].job # "line"
      BY DEF Busy
    <3> QED
      BY <3>1, PendingKept DEF StartLine, TypeOK
  <2>2. got[c] \subseteq got'[c]
    BY DEF StartLine
  <2> QED
    BY <1>4, <2>1, <2>2 DEF LinesOK
<1> QED
  BY <1>2, <1>3, <1>4

(* No line is lost on the way from a fan-out to the store and to c.        *)
LEMMA LinesStep ==
    ASSUME TypeOK, PlacesOK, NEW c \in Client, LinesOK(c), [Next]_vars
    PROVE  LinesOK(c)'
<1> USE DEF serverVars, connVars, upVars, storeVars, seenVars, heardVars, GoTo, Again
<1>1. ASSUME NEW d \in Client, Accept(d) \/ ServeConn(d) PROVE LinesOK(c)'
  <2>1. UNCHANGED <<auth, lost, stop, lines, got, gap, fan, welcomed, replayed, stored>>
    BY <1>1 DEF Accept, ServeConn, Connect
  <2> QED
    BY <2>1 DEF LinesOK, Pending
<1>2. ASSUME NEW d \in Client, Attach(d) \/ StartHandler(d) PROVE LinesOK(c)'
  <2>1. UNCHANGED <<auth, lost, stop, lines, got, gap, fan, welcomed, replayed, stored>>
    BY <1>2 DEF Attach, StartHandler
  <2> QED
    BY <2>1 DEF LinesOK, Pending
<1>3. ASSUME NEW d \in Client, PassAccepted(d) PROVE LinesOK(c)'
  <2>1. UNCHANGED <<lost, stop, lines, got, fan, welcomed, replayed, stored>>
    BY <1>3 DEF PassAccepted
  <2>2. CASE auth[c]
    <3>1. auth'[c] /\ gap'[c] = gap[c]
      BY <1>3, <2>2 DEF PassAccepted, TypeOK
    <3> QED
      BY <2>1, <2>2, <3>1 DEF LinesOK, Pending
  <2>3. CASE ~auth[c] /\ auth'[c]
    <3>1. d = c /\ ~welcomed[c]
      BY <1>3, <2>3 DEF PassAccepted, TypeOK, PlacesOK, PlaceOK
    <3>2. gap'[c] = {n \in (1..lines) \ stored : ~Pending(c, n)}
      BY <1>3, <2>3, <3>1 DEF PassAccepted, TypeOK
    <3>3. \A n : Pending(c, n) <=> Pending(c, n)'
      BY <2>1 DEF Pending
    <3> QED
      BY <2>1, <3>1, <3>2, <3>3 DEF LinesOK
  <2> QED
    BY <2>2, <2>3 DEF LinesOK
<1>4. ASSUME NEW d \in Client, PassRefused(d) PROVE LinesOK(c)'
  <2>1. UNCHANGED <<auth, lost, stop, lines, got, gap, fan, welcomed, replayed, stored>>
    BY <1>4 DEF PassRefused
  <2> QED
    BY <2>1 DEF LinesOK, Pending
<1>5. ASSUME NEW d \in Client, CapStart(d) \/ OtherLine(d) \/ Message(d) PROVE LinesOK(c)'
  <2>1. UNCHANGED <<auth, lost, stop, lines, got, gap, fan, welcomed, replayed, stored>>
    BY <1>5 DEF CapStart, OtherLine, Message, UnchangedByLine
  <2> QED
    BY <2>1 DEF LinesOK, Pending
<1>6. ASSUME NEW d \in Client, CapEnd(d) PROVE LinesOK(c)'
  <2>1. UNCHANGED <<auth, lost, stop, lines, got, gap, fan, welcomed, replayed, stored>>
    BY <1>6 DEF CapEnd, UnchangedByLine
  <2> QED
    BY <2>1 DEF LinesOK, Pending
<1>7. ASSUME NEW d \in Client, SendFails(d) \/ ReadFails(d) PROVE LinesOK(c)'
  <2>1. UNCHANGED <<auth, lost, stop, lines, got, gap, fan, welcomed, replayed, stored>>
    BY <1>7 DEF SendFails, ReadFails
  <2> QED
    BY <2>1 DEF LinesOK, Pending
<1>8. ASSUME NEW d \in Client, Exit(d) PROVE LinesOK(c)'
  BY <1>8 DEF Exit, LinesOK, Pending, PlacesOK, PlaceOK, TypeOK, Handling, NoFan, Sender
<1>9. ASSUME NEW d \in Client, Surface(d) PROVE LinesOK(c)'
  <2>1. UNCHANGED <<auth, lost, stop, lines, got, gap, fan, welcomed, replayed, stored>>
    BY <1>9 DEF Surface
  <2> QED
    BY <2>1 DEF LinesOK, Pending
<1>10. ASSUME NEW d \in Client, Tell(d) PROVE LinesOK(c)'
  <2>1. UNCHANGED <<auth, stop, lines, got, gap, fan, welcomed, replayed, stored>>
    BY <1>10 DEF Tell
  <2>2. ~lost'[c] => ~lost[c]
    BY <1>10 DEF Tell, TypeOK
  <2> QED
    BY <2>1, <2>2 DEF LinesOK, Pending
<1>11. ASSUME NEW d \in Client, Replay(d) PROVE LinesOK(c)'
  <2>1. UNCHANGED <<auth, stop, lines, got, gap, fan, stored>>
    BY <1>11 DEF Replay
  <2>2. ~lost'[c] => ~lost[c]
    BY <1>11 DEF Replay, TypeOK
  <2>3. CASE d = c
    <3>1. welcomed'[c] /\ replayed'[c] = replayed[c] \cup stored
      BY <1>11, <2>3 DEF Replay, TypeOK
    <3> QED
      BY <2>1, <2>2, <3>1 DEF LinesOK, Pending
  <2>4. CASE d # c
    <3>1. welcomed'[c] = welcomed[c] /\ replayed'[c] = replayed[c]
      BY <1>11, <2>4 DEF Replay, TypeOK
    <3> QED
      BY <2>1, <2>2, <3>1 DEF LinesOK, Pending
  <2> QED
    BY <2>3, <2>4
<1>12. ASSUME NEW d \in Client, SendUpstream(d) PROVE LinesOK(c)'
  <2>1. d \in Sender /\ ~Busy(d)
    BY <1>12 DEF SendUpstream, Busy, Sender, PlacesOK, PlaceOK
  <2> QED
    BY <1>12, <2>1, StartLineKeeps DEF SendUpstream
<1>13. ASSUME Dispatch PROVE LinesOK(c)'
  BY <1>13, StartLineKeeps DEF Dispatch, Sender
<1>14. ASSUME NEW s \in Sender, NEW d \in Client, PassOver(s, d) PROVE LinesOK(c)'
  <2>1. UNCHANGED <<auth, lost, stop, lines, got, gap, welcomed, replayed, stored>>
    BY <1>14 DEF PassOver
  <2>2. ASSUME auth[c] PROVE \A n : Pending(c, n) => Pending(c, n)'
    BY <1>14, <2>2 DEF PassOver, Pending, TypeOK, FanOuts
  <2> QED
    BY <2>1, <2>2 DEF LinesOK
<1>15. ASSUME NEW s \in Sender, NEW d \in Client, Write(s, d) PROVE LinesOK(c)'
  <2>1. UNCHANGED <<auth, stop, lines, gap, welcomed, replayed, stored>>
    BY <1>15 DEF Write
  <2>2. CASE auth[c] /\ ~lost'[c] /\ stop = "idle"
    <3>1. ~lost[c] /\ got[c] \subseteq got'[c]
      BY <1>15, <2>2 DEF Write, TypeOK
    <3>2. \A n : Pending(c, n) => Pending(c, n)' \/ (d = c /\ fan[s].job = "line" /\ n = fan[s].n)
      BY <1>15 DEF Write, Pending, TypeOK, FanOuts
    <3>3. d = c /\ fan[s].job = "line" => fan[s].n \in got'[c]
      BY <1>15, <2>2 DEF Write, TypeOK
    <3> QED
      BY <2>1, <2>2, <3>1, <3>2, <3>3 DEF LinesOK
  <2> QED
    BY <2>1, <2>2 DEF LinesOK
<1>16. ASSUME NEW s \in Sender, NEW d \in Client, WriteFails(s, d) PROVE LinesOK(c)'
  <2>1. UNCHANGED <<auth, stop, lines, gap, welcomed, replayed, stored>>
    BY <1>16 DEF WriteFails
  <2>2. CASE auth[c] /\ ~lost'[c] /\ stop = "idle"
    <3>1. ~lost[c] /\ got[c] \subseteq got'[c]
      BY <1>16, <2>2 DEF WriteFails, TypeOK
    <3>2. \A n : Pending(c, n) => Pending(c, n)' \/ (d = c /\ fan[s].job = "line" /\ n = fan[s].n)
      BY <1>16 DEF WriteFails, Pending, TypeOK, FanOuts
    <3>3. d = c /\ fan[s].job = "line" => fan[s].n \in got'[c]
      BY <1>16, <2>2 DEF WriteFails, TypeOK
    <3> QED
      BY <2>1, <2>2, <3>1, <3>2, <3>3 DEF LinesOK
  <2> QED
    BY <2>1, <2>2 DEF LinesOK
<1>17. ASSUME NEW s \in Sender, LineDone(s) PROVE LinesOK(c)'
  <2>1. UNCHANGED <<auth, lost, stop, lines, got, gap, welcomed, replayed>>
        /\ stored \subseteq stored'
    BY <1>17 DEF LineDone
  <2>2. \A n : Pending(c, n) => Pending(c, n)'
    BY <1>17 DEF LineDone, Pending, TypeOK
  <2> QED
    BY <2>1, <2>2 DEF LinesOK
<1>18. ASSUME Store PROVE LinesOK(c)'
  BY <1>18 DEF Store, LinesOK, Pending, PlacesOK, PlaceOK, TypeOK, Handling, NoFan, Sender
<1>19. ASSUME NEW s \in Sender, StartNotice(s) PROVE LinesOK(c)'
  BY <1>19 DEF StartNotice, LinesOK, Pending, PlacesOK, PlaceOK, TypeOK, Handling, NoFan,
     Sender
<1>20. ASSUME NEW s \in Sender, NoticeDone(s) PROVE LinesOK(c)'
  BY <1>20 DEF NoticeDone, LinesOK, Pending, PlacesOK, PlaceOK, TypeOK, Handling, NoFan,
     Sender
<1>21. ASSUME Dial \/ Registered \/ Lose \/ Suspend PROVE LinesOK(c)'
  <2>1. PICK s \in {Upstream, Control}, to \in Machine : Publish(s, to)
    BY <1>21 DEF Dial, Registered, Lose, Suspend, Machine
  <2>2. fan[s].job # "line" /\ s \in Sender
    BY <2>1 DEF Publish, Busy, Sender
  <2>3. \A n : Pending(c, n) => Pending(c, n)'
    BY <2>1, <2>2, PendingKept DEF Publish, TypeOK
  <2>4. UNCHANGED <<auth, lost, stop, lines, got, gap, welcomed, replayed, stored>>
    BY <2>1 DEF Publish
  <2> QED
    BY <2>3, <2>4 DEF LinesOK
<1>22. ASSUME NEW d \in Client, Stall(d) \/ Recover(d) \/ Vanish(d) PROVE LinesOK(c)'
  <2>1. UNCHANGED <<auth, lost, stop, lines, got, gap, fan, welcomed, replayed, stored>>
    BY <1>22 DEF Stall, Recover, Vanish, PeerTurns
  <2> QED
    BY <2>1 DEF LinesOK, Pending
<1>23. ASSUME ParentEnds \/ StopCancels \/ StopListener PROVE LinesOK(c)'
  BY <1>23 DEF ParentEnds, StopCancels, StopListener, UnchangedByStop, LinesOK, Pending,
     PlacesOK, PlaceOK, TypeOK, Handling, NoFan, Sender
<1>24. ASSUME StopBegins PROVE LinesOK(c)'
  BY <1>24 DEF StopBegins, UnchangedByStop, LinesOK, Pending, PlacesOK, PlaceOK, TypeOK,
     Handling, NoFan, Sender
<1>25. ASSUME NEW d \in Client, StopCloses(d) PROVE LinesOK(c)'
  BY <1>25 DEF StopCloses, UnchangedByStop, LinesOK, Pending, PlacesOK, PlaceOK, TypeOK,
     Handling, NoFan, Sender
<1>26. ASSUME AcceptLoopEnds PROVE LinesOK(c)'
  BY <1>26 DEF AcceptLoopEnds, UnchangedByStop, LinesOK, Pending, PlacesOK, PlaceOK, TypeOK,
     Handling, NoFan, Sender
<1>27. ASSUME StopReturns PROVE LinesOK(c)'
  BY <1>27 DEF StopReturns, UnchangedByStop, LinesOK, Pending, PlacesOK, PlaceOK, TypeOK,
     Handling, NoFan, Sender
<1>28. ASSUME UNCHANGED vars PROVE LinesOK(c)'
  <2>1. UNCHANGED <<auth, lost, stop, lines, got, gap, fan, welcomed, replayed, stored>>
    BY <1>28 DEF vars
  <2> QED
    BY <2>1 DEF LinesOK, Pending
<1> QED
  BY <1>1, <1>2, <1>3, <1>4, <1>5, <1>6, <1>7, <1>8, <1>9, <1>10, <1>11, <1>12, <1>13,
     <1>14, <1>15, <1>16, <1>17, <1>18, <1>19, <1>20, <1>21, <1>22, <1>23, <1>24, <1>25,
     <1>26, <1>27, <1>28
  DEF Next, Handler, Reads, Fan, Stopping

(* No outage passes c by.                                                  *)
LEMMA ToldStep ==
    ASSUME TypeOK, NumbersOK, PlacesOK, NEW c \in Client, ToldOK(c), [Next]_vars
    PROVE  ToldOK(c)'
<1> USE DEF ToldOK, NoticeToCome, WelcomeToCome, NumbersOK, PlacesOK, PlaceOK, TypeOK,
   Handling, NoFan, Sender, serverVars, connVars, upVars, storeVars, seenVars, heardVars,
   GoTo, Again
<1>1. ASSUME NEW d \in Client, Accept(d) \/ ServeConn(d) PROVE ToldOK(c)'
  BY <1>1 DEF Accept, ServeConn, Connect, Unused
<1>2. ASSUME NEW d \in Client, Attach(d) \/ StartHandler(d) PROVE ToldOK(c)'
  BY <1>2 DEF Attach, StartHandler
<1>3. ASSUME NEW d \in Client, PassAccepted(d) PROVE ToldOK(c)'
  BY <1>3 DEF PassAccepted, Line
<1>4. ASSUME NEW d \in Client, PassRefused(d) PROVE ToldOK(c)'
  BY <1>4 DEF PassRefused, Line
<1>5. ASSUME NEW d \in Client, CapStart(d) \/ OtherLine(d) \/ Message(d) PROVE ToldOK(c)'
  BY <1>5 DEF CapStart, OtherLine, Message, Line, UnchangedByLine
<1>6. ASSUME NEW d \in Client, CapEnd(d) PROVE ToldOK(c)'
  BY <1>6 DEF CapEnd, Line, UnchangedByLine
<1>7. ASSUME NEW d \in Client, SendFails(d) \/ ReadFails(d) PROVE ToldOK(c)'
  BY <1>7 DEF SendFails, ReadFails
<1>8. ASSUME NEW d \in Client, Exit(d) PROVE ToldOK(c)'
  BY <1>8 DEF Exit
<1>9. ASSUME NEW d \in Client, Surface(d) PROVE ToldOK(c)'
  BY <1>9 DEF Surface
<1>10. ASSUME NEW d \in Client, Tell(d) PROVE ToldOK(c)'
  BY <1>10 DEF Tell
<1>11. ASSUME NEW d \in Client, Replay(d) PROVE ToldOK(c)'
  BY <1>11 DEF Replay
<1>12. ASSUME NEW d \in Client, SendUpstream(d) PROVE ToldOK(c)'
  BY <1>12 DEF SendUpstream, StartLine, Busy
<1>13. ASSUME Dispatch PROVE ToldOK(c)'
  BY <1>13 DEF Dispatch, StartLine, Busy
<1>14. ASSUME NEW s \in Sender, NEW d \in Client, PassOver(s, d) PROVE ToldOK(c)'
  BY <1>14 DEF PassOver
<1>15. ASSUME NEW s \in Sender, NEW d \in Client, Write(s, d) PROVE ToldOK(c)'
  <2>1. UNCHANGED <<auth, lost, stop, machine, outage, welcomed, deferred, pc, seen>>
    BY <1>15 DEF Write
  <2>2. told[c] = outage => told'[c] = outage
    <3>1. fan[s].n \in Nat /\ outage \in Nat /\ (fan[s].job = "down" => fan[s].n <= outage)
      BY DEF FanOuts
    <3>2. told[c] = outage => ~(fan[s].job = "down" /\ fan[s].n > told[c])
      BY <3>1
    <3> QED
      BY <1>15, <3>2 DEF Write
  <2>3. NoticeToCome(c) => NoticeToCome(c)' \/ told'[c] = outage
    <3> SUFFICES ASSUME NEW t \in Sender, fan[t].n = outage,
                        fan[t].job = "announceDown" \/ (fan[t].job = "down" /\ c \in fan[t].todo)
                 PROVE  NoticeToCome(c)' \/ told'[c] = outage
      OBVIOUS
    <3>1. fan'[t].n = outage /\ fan'[t].job = fan[t].job
      BY <1>15 DEF Write, FanOuts
    <3>2. CASE fan[t].job = "announceDown" \/ t # s \/ c # d
      <4>1. fan[t].job = "down" => c \in fan'[t].todo
        BY <1>15, <3>2 DEF Write, FanOuts
      <4> QED
        BY <2>1, <3>1, <4>1
    <3>3. CASE fan[t].job = "down" /\ t = s /\ c = d
      <4>1. told[c] \in Nat /\ outage \in Nat /\ told[c] <= outage
        OBVIOUS
      <4> QED
        BY <1>15, <3>3, <4>1 DEF Write
    <3> QED
      BY <3>2, <3>3
  <2> QED
    BY <2>1, <2>2, <2>3
<1>16. ASSUME NEW s \in Sender, NEW d \in Client, WriteFails(s, d) PROVE ToldOK(c)'
  BY <1>16 DEF WriteFails
<1>17. ASSUME NEW s \in Sender, LineDone(s) PROVE ToldOK(c)'
  BY <1>17 DEF LineDone
<1>18. ASSUME Store PROVE ToldOK(c)'
  BY <1>18 DEF Store
<1>19. ASSUME NEW s \in Sender, StartNotice(s) PROVE ToldOK(c)'
  BY <1>19 DEF StartNotice
<1>20. ASSUME NEW s \in Sender, NoticeDone(s) PROVE ToldOK(c)'
  BY <1>20 DEF NoticeDone
<1>21. ASSUME Dial \/ Registered \/ Lose \/ Suspend PROVE ToldOK(c)'
  <2>1. PICK s \in {Upstream, Control}, to \in Machine : Publish(s, to)
    BY <1>21 DEF Dial, Registered, Lose, Suspend, Machine
  <2>2. UNCHANGED <<auth, lost, stop, welcomed, deferred, pc, seen, told>> /\ machine' = to
    BY <2>1 DEF Publish
  <2>3. CASE machine = "registered" /\ to # "registered"
    <3>1. fan'[s].job = "announceDown" /\ fan'[s].n = outage'
      BY <2>1, <2>3 DEF Publish, Announcement
    <3> QED
      BY <3>1
  <2>4. CASE machine # "registered"
    <3>1. outage' = outage
      BY <2>1, <2>4 DEF Publish
    <3>2. NoticeToCome(c) => NoticeToCome(c)'
      BY <2>1, <3>1 DEF Publish, Busy
    <3> QED
      BY <2>2, <2>4, <3>1, <3>2
  <2> QED
    BY <2>2, <2>3, <2>4
<1>22. ASSUME NEW d \in Client, Stall(d) \/ Recover(d) \/ Vanish(d) PROVE ToldOK(c)'
  BY <1>22 DEF Stall, Recover, Vanish, PeerTurns
<1>23. ASSUME ParentEnds \/ StopCancels \/ StopListener PROVE ToldOK(c)'
  BY <1>23 DEF ParentEnds, StopCancels, StopListener, UnchangedByStop
<1>24. ASSUME StopBegins PROVE ToldOK(c)'
  BY <1>24 DEF StopBegins, UnchangedByStop
<1>25. ASSUME NEW d \in Client, StopCloses(d) PROVE ToldOK(c)'
  BY <1>25 DEF StopCloses, UnchangedByStop
<1>26. ASSUME AcceptLoopEnds PROVE ToldOK(c)'
  BY <1>26 DEF AcceptLoopEnds, UnchangedByStop
<1>27. ASSUME StopReturns PROVE ToldOK(c)'
  BY <1>27 DEF StopReturns, UnchangedByStop
<1>28. ASSUME UNCHANGED vars PROVE ToldOK(c)'
  BY <1>28 DEF vars
<1> QED
  BY <1>1, <1>2, <1>3, <1>4, <1>5, <1>6, <1>7, <1>8, <1>9, <1>10, <1>11, <1>12, <1>13,
     <1>14, <1>15, <1>16, <1>17, <1>18, <1>19, <1>20, <1>21, <1>22, <1>23, <1>24, <1>25,
     <1>26, <1>27, <1>28
  DEF Next, Handler, Reads, Fan, Stopping

(* Each of the strengthenings holds at the start.                          *)
LEMMA Initially == Init => PlacesOK /\ LoopOK /\ \A c \in Client : LinesOK(c) /\ ToldOK(c)
  BY DEF Init, PlacesOK, PlaceOK, LoopOK, LinesOK, ToldOK, Handling, NoFan, Sender

(* The inductive invariant.                                                *)
IInv ==
    TypeOK /\ NumbersOK /\ PlacesOK /\ LoopOK /\ \A c \in Client : LinesOK(c) /\ ToldOK(c)

LEMMA Inductive == Spec => []IInv
<1>1. Init => IInv
  BY TypeInitially, Initially DEF IInv
<1>2. IInv /\ [Next]_vars => IInv'
  BY TypeStep, NumbersStep, PlacesStep, LoopStep, LinesStep, ToldStep DEF IInv
<1> QED
  BY <1>1, <1>2, PTL DEF Spec

(* The bouncer's state keeps its types: whatever the clients, the threads and
   the network do, no fan-out, welcome or store refers to a line that was not
   fanned out.                                                             *)
THEOREM TypeCorrect == Spec => []TypeOK
<1>1. IInv => TypeOK
  BY DEF IInv
<1> QED
  BY <1>1, Inductive, PTL

(* When Stop returns no handler of a bouncer with a listener of its own is
   left, and none can start: acceptLoop hands over what it accepted before it
   leaves the wait group.                                                  *)
THEOREM StopWaitsHolds == Spec => []StopWaits
<1>1. IInv => StopWaits
  BY DEF IInv, LoopOK, StopWaits
<1> QED
  BY <1>1, Inductive, PTL

(* A line is sent live, replayed by the welcome, or of those the client was
   passed over for just before it authenticated: for any number of clients,
   fan-outs and lines.                                                     *)
THEOREM NothingMissedHolds == Spec => []NothingMissed
<1>1. ASSUME IInv, NEW c \in Client, welcomed[c], ~lost[c], stop = "idle", NEW n \in 1..lines
      PROVE  n \in got[c] \cup replayed[c] \cup gap[c] \/ Pending(c, n)
  BY <1>1 DEF IInv, LinesOK, PlacesOK, PlaceOK
<1>2. IInv => NothingMissed
  BY <1>1 DEF NothingMissed
<1> QED
  BY <1>2, Inductive, PTL

(* A welcomed client knows of the outage that lasts, whichever of the notice
   and the welcome came first: for any number of clients and outages.      *)
THEOREM OutageIsAnnouncedHolds == Spec => []OutageIsAnnounced
<1>1. IInv => OutageIsAnnounced
  BY DEF IInv, ToldOK, NoticeToCome, WelcomeToCome, PlacesOK, PlaceOK, OutageIsAnnounced
<1> QED
  BY <1>1, Inductive, PTL

=============================================================================
