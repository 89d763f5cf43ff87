----------------------- MODULE TenantSupervisorProofs -----------------------
(***************************************************************************)
(* What is proved of a tenant of the pooled server, for every number of    *)
(* connectors, every set of values and whatever the control plane edits.   *)
(***************************************************************************)
EXTENDS TenantSupervisor, TLAPS

USE ConnectorsAssumption, ValueAssumption, EditedAssumption

-----------------------------------------------------------------------------
(* Types.                                                                  *)

LEMMA BlankTyped ==
    Blank \in Specs /\ [c \in Connectors |-> Blank] \in [Connectors -> Specs]
BY DEF Blank, Specs

(* A facet taken from another spec leaves a spec.                          *)
LEMMA SpecUpdate ==
    ASSUME NEW s \in Specs, NEW t \in Specs, NEW f \in Facets
    PROVE  [s EXCEPT ![f] = t[f]] \in Specs
BY DEF Specs

LEMMA AgedTyped == \A h \in Handles : Aged(h) \in Handles
BY DEF Aged, Handles, Nil, Stale

(* A facet is applied to what was built, or nothing changes.               *)
LEMMA ApplyTyped ==
    ASSUME TypeOK, NEW f \in Facets, ApplyFacet(f)
    PROVE  built' \in [Connectors -> Specs]
<1>1. \A c \in Connectors : [built[c] EXCEPT ![f] = spec[f]] \in Specs
  BY SpecUpdate DEF TypeOK
<1> QED
  BY <1>1 DEF TypeOK, ApplyFacet

(* Between the runs, and until the connectors are built, nothing is built;
   a connector that is published is one of them.                           *)
NextInv ==
    /\ sup \in {"top", "prefix", "read", "ended", "idle", "quarantine"} => next = 1
    /\ sup = "publish" => next <= N

(* The place of the next connector, through every step.                    *)
LEMMA NextStep == TypeOK /\ NextInv /\ [Next]_vars => NextInv'
<1> SUFFICES ASSUME TypeOK, NextInv, [Next]_vars PROVE NextInv'
  OBVIOUS
<1> USE DEF TypeOK, NextInv, At, GoTo, elsewhere, rest, runVars, refVars,
            updVars, runRest
<1>1. CASE Supervise
  <2>1. CASE BeginRun
    BY <2>1 DEF BeginRun, Aged
  <2>2. CASE SuperviseReturns
    BY <2>2 DEF SuperviseReturns
  <2>3. CASE ReadPrefix
    BY <2>3 DEF ReadPrefix
  <2>4. CASE ReadSpec
    BY <2>4 DEF ReadSpec
  <2>5. CASE BuildConnector
    BY <2>5 DEF BuildConnector
  <2>6. CASE PublishConnector
    BY <2>6 DEF PublishConnector
  <2>7. CASE Attach
    BY <2>7 DEF Attach
  <2>8. CASE StartConnector
    BY <2>8 DEF StartConnector
  <2>9. CASE StartFails
    BY <2>9 DEF StartFails
  <2>10. CASE AllStarted
    BY <2>10 DEF AllStarted
  <2>11. CASE ConnectorEnds
    BY <2>11 DEF ConnectorEnds
  <2>12. CASE StopConnectors
    BY <2>12 DEF StopConnectors
  <2>13. CASE Teardown
    BY <2>13 DEF Teardown, Abandon
  <2>14. CASE RunEnded
    BY <2>14 DEF RunEnded
  <2>15. CASE WorkPanics
    BY <2>15 DEF WorkPanics
  <2>16. CASE EnterQuarantine
    BY <2>16 DEF EnterQuarantine, Abandon
  <2>17. CASE LeaveQuarantine
    BY <2>17 DEF LeaveQuarantine
  <2>18. CASE Restart
    BY <2>18 DEF Restart
  <2> QED
    BY <1>1, <2>1, <2>2, <2>3, <2>4, <2>5, <2>6, <2>7, <2>8, <2>9,
       <2>10, <2>11, <2>12, <2>13, <2>14, <2>15, <2>16, <2>17, <2>18 DEF Supervise
<1>2. CASE Update
  BY <1>2 DEF Update
<1>3. CASE FinishUpdate
  <2>1. CASE ApplySkills
    BY <2>1 DEF ApplySkills, ApplyNext, ApplyFacet, StillApplied
  <2>2. CASE ApplyFlows
    BY <2>2 DEF ApplyFlows, ApplyNext, ApplyFacet, StillApplied
  <2>3. CASE ApplyIgnored
    BY <2>3 DEF ApplyIgnored, ApplyNext, ApplyFacet, StillApplied
  <2>4. CASE ApplyLink
    BY <2>4 DEF ApplyLink, ApplyFacet, StillApplied, UpdateReturns
  <2>5. CASE CancelRun
    BY <2>5 DEF CancelRun
  <2>6. CASE SignalRestart
    BY <2>6 DEF SignalRestart, UpdateReturns
  <2> QED
    BY <1>3, <2>1, <2>2, <2>3, <2>4, <2>5, <2>6 DEF FinishUpdate
<1>4. CASE Stop
  BY <1>4 DEF Stop
<1>5. CASE UNCHANGED vars
  BY <1>5 DEF vars
<1> QED
  BY <1>1, <1>2, <1>3, <1>4, <1>5 DEF Next

(* The variables keep their types through every step.                      *)
LEMMA TypeStep == TypeOK /\ NextInv /\ [Next]_vars => TypeOK'
<1> SUFFICES ASSUME TypeOK, NextInv, [Next]_vars PROVE TypeOK'
  OBVIOUS
<1> USE BlankTyped DEF TypeOK, At, GoTo, elsewhere, rest, runVars, refVars,
            updVars, runRest,
            SupervisePlaces, UpdatePlaces, Handles, Nil, Stale, Connectors
<1>1. CASE Supervise
  <2>1. CASE BeginRun
    <3>1. irc' \in Handles /\ agent' \in Handles /\ wiring' \in Handles
      BY <2>1, AgedTyped DEF BeginRun
    <3> QED
      BY <2>1, <3>1 DEF BeginRun
  <2>2. CASE SuperviseReturns
    BY <2>2 DEF SuperviseReturns
  <2>3. CASE ReadPrefix
    <3>1. seen' \in Specs
      BY <2>3, SpecUpdate DEF ReadPrefix, Facets
    <3> QED
      BY <2>3, <3>1 DEF ReadPrefix
  <2>4. CASE ReadSpec
    <3>1. seen' \in Specs
      BY <2>4, SpecUpdate DEF ReadSpec, Facets
    <3> QED
      BY <2>4, <3>1 DEF ReadSpec
  <2>5. CASE BuildConnector
    <3>1. [seen EXCEPT !["flows"] = spec["flows"]] \in Specs
      BY SpecUpdate DEF Facets
    <3>2. built' \in [Connectors -> Specs]
      BY <2>5, <3>1 DEF BuildConnector
    <3> QED
      BY <2>5, <3>2 DEF BuildConnector
  <2>6. CASE PublishConnector
    BY <2>6 DEF PublishConnector, NextInv
  <2>7. CASE Attach
    BY <2>7 DEF Attach
  <2>8. CASE StartConnector
    BY <2>8 DEF StartConnector
  <2>9. CASE StartFails
    BY <2>9 DEF StartFails
  <2>10. CASE AllStarted
    BY <2>10 DEF AllStarted
  <2>11. CASE ConnectorEnds
    BY <2>11 DEF ConnectorEnds
  <2>12. CASE StopConnectors
    BY <2>12 DEF StopConnectors
  <2>13. CASE Teardown
    BY <2>13 DEF Teardown, Abandon
  <2>14. CASE RunEnded
    BY <2>14 DEF RunEnded
  <2>15. CASE WorkPanics
    BY <2>15 DEF WorkPanics
  <2>16. CASE EnterQuarantine
    BY <2>16 DEF EnterQuarantine, Abandon
  <2>17. CASE LeaveQuarantine
    BY <2>17 DEF LeaveQuarantine
  <2>18. CASE Restart
    BY <2>18 DEF Restart
  <2> QED
    BY <1>1, <2>1, <2>2, <2>3, <2>4, <2>5, <2>6, <2>7, <2>8, <2>9,
       <2>10, <2>11, <2>12, <2>13, <2>14, <2>15, <2>16, <2>17, <2>18 DEF Supervise
<1>2. CASE Update
  BY <1>2 DEF Update
<1>3. CASE FinishUpdate
  <2>1. CASE ApplySkills
    <3>1. ApplyFacet("skills")
      BY <2>1 DEF ApplySkills, ApplyNext
    <3>2. built' \in [Connectors -> Specs]
      BY <3>1, ApplyTyped DEF Facets
    <3>3. applied' \in BOOLEAN
      BY <2>1, Zenon DEF ApplySkills, ApplyNext, StillApplied, Applicable
    <3> QED
      BY <2>1, <3>2, <3>3 DEF ApplySkills, ApplyNext, ApplyFacet
  <2>2. CASE ApplyFlows
    <3>1. ApplyFacet("flows")
      BY <2>2 DEF ApplyFlows, ApplyNext
    <3>2. built' \in [Connectors -> Specs]
      BY <3>1, ApplyTyped DEF Facets
    <3>3. applied' \in BOOLEAN
      BY <2>2, Zenon DEF ApplyFlows, ApplyNext, StillApplied, Applicable
    <3> QED
      BY <2>2, <3>2, <3>3 DEF ApplyFlows, ApplyNext, ApplyFacet
  <2>3. CASE ApplyIgnored
    <3>1. ApplyFacet("ignored")
      BY <2>3 DEF ApplyIgnored, ApplyNext
    <3>2. built' \in [Connectors -> Specs]
      BY <3>1, ApplyTyped DEF Facets
    <3>3. applied' \in BOOLEAN
      BY <2>3, Zenon DEF ApplyIgnored, ApplyNext, StillApplied, Applicable
    <3> QED
      BY <2>3, <3>2, <3>3 DEF ApplyIgnored, ApplyNext, ApplyFacet
  <2>4. CASE ApplyLink
    <3>1. ApplyFacet("link")
      BY <2>4 DEF ApplyLink
    <3>2. built' \in [Connectors -> Specs]
      BY <3>1, ApplyTyped DEF Facets
    <3>3. /\ changed' \subseteq Facets /\ applied' \in BOOLEAN /\ upd' \in UpdatePlaces
          /\ target' \in {"none", "present", "old"}
      BY <2>4 DEF ApplyLink, UpdateReturns, UpdatePlaces
    <3>4. UNCHANGED <<spec, runRest, cancelled, token, edited>>
      BY <3>1 DEF ApplyFacet
    <3> QED
      BY <3>2, <3>3, <3>4
  <2>5. CASE CancelRun
    BY <2>5 DEF CancelRun
  <2>6. CASE SignalRestart
    BY <2>6 DEF SignalRestart, UpdateReturns
  <2> QED
    BY <1>3, <2>1, <2>2, <2>3, <2>4, <2>5, <2>6 DEF FinishUpdate
<1>4. CASE Stop
  BY <1>4 DEF Stop
<1>5. CASE UNCHANGED vars
  BY <1>5 DEF vars
<1> QED
  BY <1>1, <1>2, <1>3, <1>4, <1>5 DEF Next

(* Every reachable state has its type.                                     *)
THEOREM TypeCorrect == Spec => []TypeOK
<1>1. Init => TypeOK /\ NextInv
  <2> SUFFICES ASSUME Init PROVE TypeOK /\ NextInv
    OBVIOUS
  <2>1. spec \in Specs /\ seen \in Specs /\ built \in [Connectors -> Specs]
    BY BlankTyped DEF Init
  <2>2. /\ cancelled \in BOOLEAN /\ token \in BOOLEAN /\ stopping \in BOOLEAN
        /\ applied \in BOOLEAN /\ edited \in BOOLEAN
    BY Zenon DEF Init
  <2> QED
    BY <2>1, <2>2 DEF Init, TypeOK, NextInv, SupervisePlaces, UpdatePlaces,
           Handles, Nil,
                Connectors
<1> QED
  BY <1>1, TypeStep, NextStep, PTL DEF Spec

-----------------------------------------------------------------------------
(* What a restart would read.                                              *)

Building == sup \in {"build", "publish"}
Up == sup \in {"start", "running"}
Built(c) == c < next \/ (sup = "publish" /\ c = next)

(* The run will not serve: it is cancelled, or about to be.                *)
Doomed == cancelled \/ (upd = "cancel" /\ target = "present")

CoreInv ==
    ~Doomed =>
        /\ sup \in {"read", "build", "publish"} => seen["prefix"] = spec["prefix"]
        /\ Building => seen["core"] = spec["core"]
        /\ \A c \in Connectors, f \in {"prefix", "core"} :
               (Building /\ Built(c)) \/ Up => built[c][f] = spec[f]

(* What was built is current unless the run is doomed, through every step. *)
LEMMA CoreStep ==
    TypeOK /\ NextInv /\ CoreInv /\ [Next]_vars => CoreInv'
<1> SUFFICES ASSUME TypeOK, NextInv, CoreInv, [Next]_vars PROVE CoreInv'
  OBVIOUS
<1> USE DEF TypeOK, NextInv, CoreInv, Doomed, Building, Built, Up, Specs,
            Facets,
            Connectors, At, GoTo, elsewhere, rest, runVars, refVars, updVars,
            runRest
<1>1. CASE Supervise
  <2>1. CASE BeginRun
    BY <2>1 DEF BeginRun, Aged
  <2>2. CASE SuperviseReturns
    BY <2>2 DEF SuperviseReturns
  <2>3. CASE ReadPrefix
    BY <2>3 DEF ReadPrefix
  <2>4. CASE ReadSpec
    BY <2>4 DEF ReadSpec
  <2>5. CASE BuildConnector
    BY <2>5 DEF BuildConnector
  <2>6. CASE PublishConnector
    BY <2>6 DEF PublishConnector
  <2>7. CASE Attach
    BY <2>7 DEF Attach
  <2>8. CASE StartConnector
    BY <2>8 DEF StartConnector
  <2>9. CASE StartFails
    BY <2>9 DEF StartFails
  <2>10. CASE AllStarted
    BY <2>10 DEF AllStarted
  <2>11. CASE ConnectorEnds
    BY <2>11 DEF ConnectorEnds
  <2>12. CASE StopConnectors
    BY <2>12 DEF StopConnectors
  <2>13. CASE Teardown
    BY <2>13 DEF Teardown, Abandon
  <2>14. CASE RunEnded
    BY <2>14 DEF RunEnded
  <2>15. CASE WorkPanics
    BY <2>15 DEF WorkPanics
  <2>16. CASE EnterQuarantine
    BY <2>16 DEF EnterQuarantine, Abandon
  <2>17. CASE LeaveQuarantine
    BY <2>17 DEF LeaveQuarantine
  <2>18. CASE Restart
    BY <2>18 DEF Restart
  <2> QED
    BY <1>1, <2>1, <2>2, <2>3, <2>4, <2>5, <2>6, <2>7, <2>8, <2>9,
       <2>10, <2>11, <2>12, <2>13, <2>14, <2>15, <2>16, <2>17, <2>18 DEF Supervise
<1>2. CASE Update
  BY <1>2 DEF Update, LiveFacets
<1>3. CASE FinishUpdate
  <2>1. CASE ApplySkills
    BY <2>1 DEF ApplySkills, ApplyNext, ApplyFacet, StillApplied
  <2>2. CASE ApplyFlows
    BY <2>2 DEF ApplyFlows, ApplyNext, ApplyFacet, StillApplied
  <2>3. CASE ApplyIgnored
    BY <2>3 DEF ApplyIgnored, ApplyNext, ApplyFacet, StillApplied
  <2>4. CASE ApplyLink
    BY <2>4 DEF ApplyLink, ApplyFacet, StillApplied, UpdateReturns
  <2>5. CASE CancelRun
    BY <2>5 DEF CancelRun
  <2>6. CASE SignalRestart
    BY <2>6 DEF SignalRestart, UpdateReturns
  <2> QED
    BY <1>3, <2>1, <2>2, <2>3, <2>4, <2>5, <2>6 DEF FinishUpdate
<1>4. CASE Stop
  BY <1>4 DEF Stop
<1>5. CASE UNCHANGED vars
  BY <1>5 DEF vars
<1> QED
  BY <1>1, <1>2, <1>3, <1>4, <1>5 DEF Next

(* A run that nobody has cancelled serves the present prefix and connectors. *)
THEOREM CoreIsCurrentHolds == Spec => []CoreIsCurrent
<1>1. Init => NextInv /\ CoreInv
  BY DEF Init, NextInv, CoreInv, Building, Up
<1>2. CoreInv => CoreIsCurrent
  BY DEF CoreInv, CoreIsCurrent, Serving, Doomed, Up
<1> QED
  BY <1>1, <1>2, TypeCorrect, NextStep, CoreStep, PTL DEF Spec

-----------------------------------------------------------------------------
(* What is applied in place.                                               *)

(* Without a panic, a handle refers to the present run and is set exactly as
   far as the run has come.                                                *)
HandleInv ==
    /\ sup \notin {"panicked", "quarantine"}
    /\ sup \in {"top", "prefix", "read", "ended", "idle", "stopped"}
           => irc = Nil /\ agent = Nil /\ wiring = Nil
    /\ Building => /\ agent = Nil
                   /\ irc = IF next > 1 THEN 1 ELSE Nil
                   /\ wiring = next - 1
    /\ sup \in {"start", "running", "unwind", "teardown"}
           => irc = 1 /\ agent = 1 /\ wiring = N

(* The places of update up to that where it applies f.                     *)
UpTo(f) ==
    CASE f = "skills" -> {"skills"}
      [] f = "flows" -> {"skills", "flows"}
      [] f = "ignored" -> {"skills", "flows", "ignored"}
      [] f = "link" -> {"skills", "flows", "ignored", "link"}

(* The run may be behind in f: it will not serve, or an update that began
   after it is going to apply f, or to find that it cannot.                *)
Excused(f) ==
    \/ cancelled
    \/ /\ target = "present"
       /\ \/ upd = "cancel"
          \/ upd \in LiveFacets /\ ~applied
          \/ f \in changed /\ upd \in UpTo(f)

SeenInv ==
    \A f \in {"link", "ignored", "skills"} :
        Building /\ (f = "link" => sup = "build" /\ next = 1) /\ ~Excused(f)
            => seen[f] = spec[f]

BuiltInv ==
    \A c \in Connectors, f \in LiveFacets :
        ((Building /\ Built(c)) \/ Up) /\ InPlace(c, f) /\ ~Excused(f)
            => built[c][f] = spec[f]

(* The handles, through every step.                                        *)
LEMMA HandleStep ==
    ASSUME ~Panics, TypeOK, NextInv, HandleInv, [Next]_vars
    PROVE  HandleInv'
<1> USE DEF TypeOK, NextInv, HandleInv, Building, Handles, Nil, At, GoTo,
            elsewhere, rest, runVars, refVars, updVars, runRest
<1>1. CASE Supervise
  <2>1. CASE BeginRun
    BY <2>1 DEF BeginRun, Aged
  <2>2. CASE SuperviseReturns
    BY <2>2 DEF SuperviseReturns
  <2>3. CASE ReadPrefix
    BY <2>3 DEF ReadPrefix
  <2>4. CASE ReadSpec
    BY <2>4 DEF ReadSpec
  <2>5. CASE BuildConnector
    BY <2>5 DEF BuildConnector
  <2>6. CASE PublishConnector
    <3>1. irc' = 1 /\ agent' = Nil
      BY <2>6 DEF PublishConnector
    <3>2. sup' = "build" /\ next' > 1 /\ wiring' = next' - 1
      BY <2>6 DEF PublishConnector
    <3> QED
      BY <3>1, <3>2
  <2>7. CASE Attach
    BY <2>7 DEF Attach
  <2>8. CASE StartConnector
    BY <2>8 DEF StartConnector
  <2>9. CASE StartFails
    BY <2>9 DEF StartFails
  <2>10. CASE AllStarted
    BY <2>10 DEF AllStarted
  <2>11. CASE ConnectorEnds
    BY <2>11 DEF ConnectorEnds
  <2>12. CASE StopConnectors
    BY <2>12 DEF StopConnectors
  <2>13. CASE Teardown
    BY <2>13 DEF Teardown, Abandon
  <2>14. CASE RunEnded
    BY <2>14 DEF RunEnded
  <2>15. CASE WorkPanics
    BY <2>15 DEF WorkPanics
  <2>16. CASE EnterQuarantine
    BY <2>16 DEF EnterQuarantine, Abandon
  <2>17. CASE LeaveQuarantine
    BY <2>17 DEF LeaveQuarantine
  <2>18. CASE Restart
    BY <2>18 DEF Restart
  <2> QED
    BY <1>1, <2>1, <2>2, <2>3, <2>4, <2>5, <2>6, <2>7, <2>8, <2>9,
       <2>10, <2>11, <2>12, <2>13, <2>14, <2>15, <2>16, <2>17, <2>18 DEF Supervise
<1>2. CASE Update
  BY <1>2 DEF Update
<1>3. CASE FinishUpdate
  <2>1. CASE ApplySkills
    BY <2>1 DEF ApplySkills, ApplyNext, ApplyFacet, StillApplied
  <2>2. CASE ApplyFlows
    BY <2>2 DEF ApplyFlows, ApplyNext, ApplyFacet, StillApplied
  <2>3. CASE ApplyIgnored
    BY <2>3 DEF ApplyIgnored, ApplyNext, ApplyFacet, StillApplied
  <2>4. CASE ApplyLink
    BY <2>4 DEF ApplyLink, ApplyFacet, StillApplied, UpdateReturns
  <2>5. CASE CancelRun
    BY <2>5 DEF CancelRun
  <2>6. CASE SignalRestart
    BY <2>6 DEF SignalRestart, UpdateReturns
  <2> QED
    BY <1>3, <2>1, <2>2, <2>3, <2>4, <2>5, <2>6 DEF FinishUpdate
<1>4. CASE Stop
  BY <1>4 DEF Stop
<1>5. CASE UNCHANGED vars
  BY <1>5 DEF vars
<1> QED
  BY <1>1, <1>2, <1>3, <1>4, <1>5 DEF Next

(* What was read for the connectors still to be built, through every step. *)
LEMMA SeenStep ==
    ASSUME ~Panics, TypeOK, NextInv, HandleInv, SeenInv, [Next]_vars
    PROVE  SeenInv'
<1> USE DEF TypeOK, NextInv, HandleInv, SeenInv, Excused, UpTo, Building, Nil,
            LiveFacets, Facets, Specs, Applicable, At, GoTo, elsewhere, rest,
            runVars, refVars, updVars, runRest
<1>1. CASE Supervise
  <2>1. CASE BeginRun
    BY <2>1 DEF BeginRun, Aged
  <2>2. CASE SuperviseReturns
    BY <2>2 DEF SuperviseReturns
  <2>3. CASE ReadPrefix
    BY <2>3 DEF ReadPrefix
  <2>4. CASE ReadSpec
    BY <2>4 DEF ReadSpec
  <2>5. CASE BuildConnector
    BY <2>5 DEF BuildConnector
  <2>6. CASE PublishConnector
    BY <2>6 DEF PublishConnector
  <2>7. CASE Attach
    BY <2>7 DEF Attach
  <2>8. CASE StartConnector
    BY <2>8 DEF StartConnector
  <2>9. CASE StartFails
    BY <2>9 DEF StartFails
  <2>10. CASE AllStarted
    BY <2>10 DEF AllStarted
  <2>11. CASE ConnectorEnds
    BY <2>11 DEF ConnectorEnds
  <2>12. CASE StopConnectors
    BY <2>12 DEF StopConnectors
  <2>13. CASE Teardown
    BY <2>13 DEF Teardown, Abandon
  <2>14. CASE RunEnded
    BY <2>14 DEF RunEnded
  <2>15. CASE WorkPanics
    BY <2>15 DEF WorkPanics
  <2>16. CASE EnterQuarantine
    BY <2>16 DEF EnterQuarantine, Abandon
  <2>17. CASE LeaveQuarantine
    BY <2>17 DEF LeaveQuarantine
  <2>18. CASE Restart
    BY <2>18 DEF Restart
  <2> QED
    BY <1>1, <2>1, <2>2, <2>3, <2>4, <2>5, <2>6, <2>7, <2>8, <2>9,
       <2>10, <2>11, <2>12, <2>13, <2>14, <2>15, <2>16, <2>17, <2>18 DEF Supervise
<1>2. CASE Update
  BY <1>2 DEF Update
<1>3. CASE FinishUpdate
  <2>1. CASE ApplySkills
    BY <2>1 DEF ApplySkills, ApplyNext, ApplyFacet, StillApplied
  <2>2. CASE ApplyFlows
    BY <2>2 DEF ApplyFlows, ApplyNext, ApplyFacet, StillApplied
  <2>3. CASE ApplyIgnored
    BY <2>3 DEF ApplyIgnored, ApplyNext, ApplyFacet, StillApplied
  <2>4. CASE ApplyLink
    BY <2>4 DEF ApplyLink, ApplyFacet, StillApplied, UpdateReturns
  <2>5. CASE CancelRun
    BY <2>5 DEF CancelRun
  <2>6. CASE SignalRestart
    BY <2>6 DEF SignalRestart, UpdateReturns
  <2> QED
    BY <1>3, <2>1, <2>2, <2>3, <2>4, <2>5, <2>6 DEF FinishUpdate
<1>4. CASE Stop
  BY <1>4 DEF Stop
<1>5. CASE UNCHANGED vars
  BY <1>5 DEF vars
<1> QED
  BY <1>1, <1>2, <1>3, <1>4, <1>5 DEF Next

(* A connector that is built is among those a handle reaches, if it is set. *)
LEMMA ApplyReaches ==
    ASSUME TypeOK, NextInv, HandleInv, NEW c \in Connectors, NEW f \in LiveFacets,
           (Building /\ Built(c)) \/ Up, InPlace(c, f), Applicable(f)
    PROVE  c \in Reached(f)
<1> USE DEF TypeOK, NextInv, HandleInv, Building, Up, InPlace, Applicable,
            Reached,
            Handles, Nil, Stale, Connectors
<1>1. CASE f = "skills"
  BY <1>1
<1>2. CASE f = "flows"
  BY <1>2
<1>3. CASE f = "ignored"
  BY <1>3
<1>4. CASE f = "link"
  BY <1>4
<1> QED
  BY <1>1, <1>2, <1>3, <1>4 DEF LiveFacets

ApplyLive(g) ==
    /\ ApplyFacet(g)
    /\ \/ g = "skills" /\ ApplySkills
       \/ g = "flows" /\ ApplyFlows
       \/ g = "ignored" /\ ApplyIgnored
       \/ g = "link" /\ ApplyLink

(* Where the run has no excuse after a facet was applied, it had none before,
   or the facet is the one that was applied.                                *)
LEMMA ApplyExcuses ==
    ASSUME TypeOK, NEW g \in LiveFacets, ApplyLive(g), NEW f \in LiveFacets,
           ~Excused(f)'
    PROVE  \/ f = g /\ f \in changed /\ Applicable(f)
           \/ ~Excused(f)
<1> USE DEF TypeOK, ApplyLive, ApplyFacet, StillApplied, Excused, UpTo,
            LiveFacets
<1>1. CASE g = "skills"
  BY <1>1 DEF ApplySkills, ApplyNext
<1>2. CASE g = "flows"
  BY <1>2 DEF ApplyFlows, ApplyNext
<1>3. CASE g = "ignored"
  BY <1>3 DEF ApplyIgnored, ApplyNext
<1>4. CASE g = "link"
  BY <1>4 DEF ApplyLink, UpdateReturns
<1> QED
  BY <1>1, <1>2, <1>3, <1>4

LEMMA ApplyKeeps ==
    ASSUME TypeOK, NextInv, HandleInv, BuiltInv, NEW g \in LiveFacets, ApplyLive(g)
    PROVE  BuiltInv'
<1> SUFFICES ASSUME NEW c \in Connectors, NEW f \in LiveFacets,
                    ((Building /\ Built(c)) \/ Up)', InPlace(c, f), ~Excused(f)'
             PROVE  built'[c][f] = spec'[f]
  BY DEF BuiltInv, InPlace
<1>1. spec' = spec /\ ((Building /\ Built(c)) \/ Up)
  BY DEF ApplyLive, ApplyFacet, runRest, Building, Built, Up
<1>2. built[c] \in [Facets -> Value] /\ f \in Facets
  BY DEF TypeOK, Specs, LiveFacets, Facets
<1>3. CASE f = g /\ f \in changed /\ Applicable(f)
  <2>1. c \in Reached(f)
    BY <1>1, <1>3, ApplyReaches
  <2>2. built'[c] = [built[c] EXCEPT ![f] = spec[f]]
    BY <1>3, <2>1 DEF ApplyLive, ApplyFacet
  <2> QED
    BY <1>1, <1>2, <2>2
<1>4. CASE ~Excused(f)
  <2>1. built[c][f] = spec[f]
    BY <1>1, <1>4 DEF BuiltInv
  <2>2. built'[c] \in {built[c], [built[c] EXCEPT ![g] = spec[g]]}
    BY DEF ApplyLive, ApplyFacet
  <2> QED
    BY <1>1, <1>2, <2>1, <2>2
<1> QED
  BY <1>3, <1>4, ApplyExcuses

(* A step that changes neither the spec nor what is built, brings no connector
   into service and takes no excuse away.                                  *)
LEMMA BuiltFrame ==
    ASSUME BuiltInv, built' = built, spec' = spec,
           \A c \in Connectors :
               ((Building /\ Built(c)) \/ Up)' => (Building /\ Built(c)) \/ Up,
           \A f \in LiveFacets : Excused(f) => Excused(f)'
    PROVE  BuiltInv'
<1> SUFFICES ASSUME NEW c \in Connectors, NEW f \in LiveFacets,
                    ((Building /\ Built(c)) \/ Up)', InPlace(c, f), ~Excused(f)'
             PROVE  built'[c][f] = spec'[f]
  BY DEF BuiltInv, InPlace
<1>1. ((Building /\ Built(c)) \/ Up) /\ ~Excused(f)
  OBVIOUS
<1> QED
  BY <1>1 DEF BuiltInv

(* The same for the supervise goroutine, which no excuse depends on.       *)
LEMMA BuiltSupervise ==
    ASSUME BuiltInv, built' = built, UNCHANGED elsewhere,
           target' = target, cancelled => cancelled',
           \A c \in Connectors :
               ((Building /\ Built(c)) \/ Up)' => (Building /\ Built(c)) \/ Up
    PROVE  BuiltInv'
<1>1. spec' = spec /\ UNCHANGED updVars
  BY DEF elsewhere
<1>2. \A f \in LiveFacets : Excused(f) => Excused(f)'
  BY <1>1 DEF Excused, updVars, UpTo
<1> QED
  BY <1>1, <1>2, BuiltFrame

(* A step of another part of the tenant.                                   *)
LEMMA BuiltUnmoved ==
    ASSUME BuiltInv, built' = built, spec' = spec,
           UNCHANGED <<sup, next, cancelled, target, upd, changed, applied>>
    PROVE  BuiltInv'
<1>1. \A c \in Connectors :
         ((Building /\ Built(c)) \/ Up)' => (Building /\ Built(c)) \/ Up
  BY DEF Building, Built, Up
<1>2. \A f \in LiveFacets : Excused(f) => Excused(f)'
  BY DEF Excused, UpTo
<1> QED
  BY <1>1, <1>2, BuiltFrame

(* A run that is not being built and does not serve has nothing built.     *)
LEMMA BuiltIdle == ASSUME ~Building', ~Up' PROVE BuiltInv'
  BY DEF BuiltInv

(* What was built, through every step.                                     *)
LEMMA BuiltStep ==
    ASSUME ~Panics, TypeOK, NextInv, HandleInv, SeenInv, BuiltInv, [Next]_vars
    PROVE  BuiltInv'
<1>1. CASE Supervise
  <2>1. CASE BeginRun
    BY <2>1, BuiltIdle DEF BeginRun, GoTo, Building, Up
  <2>2. CASE SuperviseReturns
    BY <2>2, BuiltIdle DEF SuperviseReturns, GoTo, Building, Up
  <2>3. CASE ReadPrefix
    BY <2>3, BuiltIdle DEF ReadPrefix, GoTo, Building, Up
  <2>4. CASE ReadSpec
    <3>1. sup' = "build" /\ next' = 1
      BY <2>4 DEF ReadSpec, NextInv, At, GoTo, rest
    <3>2. \A c \in Connectors : ~Built(c)' /\ ~Up'
      BY <3>1 DEF Built, Up, Connectors
    <3> QED
      BY <3>2 DEF BuiltInv
  <2>5. CASE BuildConnector
    <3> SUFFICES ASSUME NEW c \in Connectors, NEW f \in LiveFacets,
                        ((Building /\ Built(c)) \/ Up)', InPlace(c, f), ~Excused(f)'
                 PROVE  built'[c][f] = spec'[f]
      BY DEF BuiltInv, InPlace
    <3>1. /\ UNCHANGED <<spec, seen, next, cancelled, target, upd, changed, applied>>
          /\ sup = "build" /\ sup' = "publish" /\ next \in Connectors
          /\ built' = [built EXCEPT ![next] = [seen EXCEPT !["flows"] = spec["flows"]]]
      BY <2>5 DEF BuildConnector, At, GoTo, rest, elsewhere, updVars, TypeOK, Connectors
    <3>2. ~Excused(f)
      BY <3>1 DEF Excused, UpTo
    <3>3. c < next \/ c = next
      BY <3>1 DEF Built, Up
    <3>4. CASE c = next
      <4>1. f # "flows" => seen[f] = spec[f]
        BY <3>1, <3>2, <3>4 DEF SeenInv, LiveFacets, Building, InPlace
      <4>2. built'[c] = [seen EXCEPT !["flows"] = spec["flows"]]
        BY <3>1, <3>4 DEF TypeOK
      <4> QED
        BY <3>1, <4>1, <4>2 DEF TypeOK, Specs, Facets, LiveFacets
    <3>5. CASE c < next
      <4>1. built'[c] = built[c]
        BY <3>1, <3>5 DEF TypeOK, Connectors
      <4> QED
        BY <3>1, <3>2, <3>5, <4>1 DEF BuiltInv, Building, Built
    <3> QED
      BY <3>3, <3>4, <3>5
  <2>6. CASE PublishConnector
    <3>1. /\ built' = built /\ UNCHANGED elsewhere /\ target' = target
          /\ cancelled' = cancelled /\ sup = "publish" /\ sup' = "build"
          /\ next' = next + 1
      BY <2>6 DEF PublishConnector, At, GoTo, rest
    <3>2. \A c \in Connectors : Built(c)' => Built(c)
      BY <3>1 DEF Built, Connectors, TypeOK
    <3>3. Building /\ ~Up'
      BY <3>1 DEF Building, Up
    <3> QED
      BY <3>1, <3>2, <3>3, BuiltSupervise
  <2>7. CASE Attach
    <3>1. /\ built' = built /\ UNCHANGED elsewhere /\ target' = target
          /\ cancelled' = cancelled /\ sup = "build" /\ next = N + 1
      BY <2>7 DEF Attach, At, rest
    <3>2. \A c \in Connectors : Built(c) /\ Building
      BY <3>1, ConnectorsAssumption DEF Built, Connectors, Building
    <3> QED
      BY <3>1, <3>2, BuiltSupervise
  <2>8. CASE StartConnector
    <3>1. /\ built' = built /\ UNCHANGED elsewhere /\ target' = target
          /\ cancelled' = cancelled /\ Up /\ Up'
      BY <2>8 DEF StartConnector, At, GoTo, rest, Up, runVars
    <3> QED
      BY <3>1, BuiltSupervise
  <2>9. CASE StartFails
    BY <2>9, BuiltIdle DEF StartFails, GoTo, Building, Up
  <2>10. CASE AllStarted
    <3>1. /\ built' = built /\ UNCHANGED elsewhere /\ target' = target
          /\ cancelled' = cancelled /\ Up /\ Up'
      BY <2>10 DEF AllStarted, At, GoTo, rest, Up, runVars
    <3> QED
      BY <3>1, BuiltSupervise
  <2>11. CASE ConnectorEnds
    BY <2>11, BuiltIdle DEF ConnectorEnds, GoTo, Building, Up
  <2>12. CASE StopConnectors
    BY <2>12, BuiltIdle DEF StopConnectors, GoTo, Building, Up
  <2>13. CASE Teardown
    BY <2>13, BuiltIdle DEF Teardown, GoTo, Building, Up
  <2>14. CASE RunEnded
    BY <2>14, BuiltIdle DEF RunEnded, GoTo, Building, Up
  <2>15. CASE WorkPanics
    BY <2>15 DEF WorkPanics
  <2>16. CASE EnterQuarantine
    BY <2>16, BuiltIdle DEF EnterQuarantine, GoTo, Building, Up
  <2>17. CASE LeaveQuarantine
    BY <2>17, BuiltIdle DEF LeaveQuarantine, GoTo, Building, Up
  <2>18. CASE Restart
    BY <2>18, BuiltIdle DEF Restart, GoTo, Building, Up
  <2> QED
    BY <1>1, <2>1, <2>2, <2>3, <2>4, <2>5, <2>6, <2>7, <2>8, <2>9,
       <2>10, <2>11, <2>12, <2>13, <2>14, <2>15, <2>16, <2>17, <2>18 DEF Supervise
<1>2. CASE Update
  <2> SUFFICES ASSUME NEW c \in Connectors, NEW f \in LiveFacets,
                      ((Building /\ Built(c)) \/ Up)', InPlace(c, f), ~Excused(f)'
               PROVE  built'[c][f] = spec'[f]
    BY DEF BuiltInv, InPlace
  <2>1. /\ UNCHANGED <<sup, next, built, cancelled, applied>> /\ upd = "idle"
        /\ changed' = {g \in Facets : spec'[g] # spec[g]}
        /\ upd' = IF changed' \subseteq LiveFacets THEN "skills" ELSE "cancel"
        /\ target' = "present"
    BY <1>2 DEF Update, runRest
  <2>2. (Building /\ Built(c)) \/ Up
    BY <2>1 DEF Building, Built, Up
  <2>3. ~cancelled /\ f \notin changed'
    BY <2>1 DEF Excused, UpTo, LiveFacets
  <2>4. ~Excused(f)
    BY <2>1, <2>3 DEF Excused, LiveFacets, UpTo
  <2>5. spec'[f] = spec[f]
    BY <2>1, <2>3 DEF LiveFacets, Facets
  <2> QED
    BY <2>1, <2>2, <2>4, <2>5 DEF BuiltInv
<1>3. CASE FinishUpdate
  <2>1. CASE ApplySkills
    <3>1. ApplyLive("skills")
      BY <2>1 DEF ApplyLive, ApplySkills, ApplyNext
    <3> QED
      BY <3>1, ApplyKeeps DEF LiveFacets
  <2>2. CASE ApplyFlows
    <3>1. ApplyLive("flows")
      BY <2>2 DEF ApplyLive, ApplyFlows, ApplyNext
    <3> QED
      BY <3>1, ApplyKeeps DEF LiveFacets
  <2>3. CASE ApplyIgnored
    <3>1. ApplyLive("ignored")
      BY <2>3 DEF ApplyLive, ApplyIgnored, ApplyNext
    <3> QED
      BY <3>1, ApplyKeeps DEF LiveFacets
  <2>4. CASE ApplyLink
    <3>1. ApplyLive("link")
      BY <2>4 DEF ApplyLive, ApplyLink, ApplyNext
    <3> QED
      BY <3>1, ApplyKeeps DEF LiveFacets
  <2>5. CASE CancelRun
    <3>1. /\ built' = built /\ spec' = spec /\ sup' = sup /\ next' = next
          /\ (cancelled => cancelled') /\ upd = "cancel"
          /\ cancelled \/ target # "present" \/ cancelled'
      BY <2>5 DEF CancelRun, runRest
    <3>2. \A c \in Connectors :
             ((Building /\ Built(c)) \/ Up)' => (Building /\ Built(c)) \/ Up
      BY <3>1 DEF Building, Built, Up
    <3>3. \A f \in LiveFacets : Excused(f) => Excused(f)'
      BY <3>1 DEF Excused
    <3> QED
      BY <3>1, <3>2, <3>3, BuiltFrame
  <2>6. CASE SignalRestart
    <3>1. /\ built' = built /\ spec' = spec /\ sup' = sup /\ next' = next
          /\ cancelled' = cancelled /\ upd = "signal"
      BY <2>6 DEF SignalRestart, runRest
    <3>2. \A c \in Connectors :
             ((Building /\ Built(c)) \/ Up)' => (Building /\ Built(c)) \/ Up
      BY <3>1 DEF Building, Built, Up
    <3>3. \A f \in LiveFacets : Excused(f) => cancelled \/ ~applied
      BY <3>1 DEF Excused, LiveFacets, UpTo
    <3>4. \A f \in LiveFacets : Excused(f) => Excused(f)'
      BY <3>1, <3>3 DEF Excused, LiveFacets, UpTo
    <3> QED
      BY <3>1, <3>2, <3>4, BuiltFrame
  <2> QED
    BY <1>3, <2>1, <2>2, <2>3, <2>4, <2>5, <2>6 DEF FinishUpdate
<1>4. CASE Stop
  <2>1. /\ built' = built /\ spec' = spec
        /\ UNCHANGED <<sup, next, cancelled, target, upd, changed, applied>>
    BY <1>4 DEF Stop, runVars, updVars
  <2> QED
    BY <2>1, BuiltUnmoved
<1>5. CASE UNCHANGED vars
  <2>1. /\ built' = built /\ spec' = spec
        /\ UNCHANGED <<sup, next, cancelled, target, upd, changed, applied>>
    BY <1>5 DEF vars, runVars, updVars
  <2> QED
    BY <2>1, BuiltUnmoved
<1> QED
  BY <1>1, <1>2, <1>3, <1>4, <1>5 DEF Next

(* As long as the work does not panic, what is applied in place is current.  *)
THEOREM LiveIsCurrentHolds ==
    ASSUME ~Panics
    PROVE  Spec => []LiveIsCurrent
<1>1. Init => NextInv /\ HandleInv /\ SeenInv /\ BuiltInv
  BY DEF Init, NextInv, HandleInv, SeenInv, BuiltInv, Building, Up, Nil
<1>2. BuiltInv => LiveIsCurrent
  BY DEF BuiltInv, LiveIsCurrent, Serving, Excused, Up, UpTo, LiveFacets
<1>3. TypeOK /\ NextInv /\ HandleInv /\ SeenInv /\ BuiltInv /\ [Next]_vars
          => HandleInv' /\ SeenInv' /\ BuiltInv'
  BY HandleStep, SeenStep, BuiltStep
<1> QED
  BY <1>1, <1>2, <1>3, TypeCorrect, NextStep, PTL DEF Spec

=============================================================================
