------------------------------ MODULE MCRuntime ------------------------------
(* The single-instance runtime with three threads, two people, and a flow with *)
(* a cycle; or three messages; or its refreshers; or its end.              *)
EXTENDS Runtime

CONSTANTS drain, dispatch, a, b, c, m1, m2, m3

MCMaxUse == [input |-> 2, output |-> 1]
MCCap == [input |-> 3, output |-> 2]
None == [input |-> 0, output |-> 0]
Small == [input |-> 1, output |-> 0]
Most == [input |-> 2, output |-> 1]
Over == [input |-> 1, output |-> 2]

Quiet == [threads |-> {}, kinds |-> {}, schedules |-> {}, restarts |-> 0,
          baselines |-> {None}, uses |-> {Most}, entry |-> <<a>>,
          type |-> [n \in Node |-> IF n = a THEN "plain" ELSE IF n = b THEN "webhook" ELSE "llm"],
          ports |-> [n \in Node |-> IF n = a THEN {<<b>>, <<b, c>>}
                                    ELSE IF n = b THEN {<<a>>} ELSE {<<>>}]]
Skills == [Quiet EXCEPT !.threads = {drain, Sched}]

(* Timed effects over restarts; three threads at the model; flows; and a    *)
(* schedule alone.                                                         *)
Effects == [Skills EXCEPT !.kinds = {"effect"}, !.restarts = 1]
Asks == [Skills EXCEPT !.threads = Thread, !.kinds = {"llm"}, !.schedules = {"llm"},
                       !.restarts = 1, !.baselines = {None, Over}, !.uses = {Small, Most}]
Verdicts == [Skills EXCEPT !.kinds = {"classify"}, !.uses = {None}]
Flows == [Skills EXCEPT !.kinds = {"flow"}, !.schedules = {"webhook"}]
Scheduled == [Quiet EXCEPT !.threads = {Sched}, !.schedules = {"webhook"}]

MCBounds == {Quiet, Effects, Asks, Verdicts, Flows, Scheduled}

Silence == [said |-> {}, echoed |-> {}, text |-> [m \in Msg |-> IF m = m3 THEN "yo" ELSE "hi"],
            names |-> <<"bot">>, horizon |-> 0, grain |-> 1, remote |-> FALSE, pages |-> FALSE]
Talk == [Silence EXCEPT !.horizon = 2]

(* Two texts; one text twice; a new name; paging, in memory and behind HTTP. *)
Apart == [Talk EXCEPT !.said = {m1, m3}, !.echoed = {m1, m3}]
Alike2 == [Talk EXCEPT !.said = {m1, m2}, !.echoed = {m1, m2}]
Renamed == [Apart EXCEPT !.echoed = {m1}, !.names = <<"bot", "bot_">>]
Paged == [Talk EXCEPT !.said = Msg, !.pages = TRUE, !.grain = 2]
Remote == [Paged EXCEPT !.remote = TRUE, !.grain = 1]

MCBooks == {Silence, Apart, Alike2, Renamed, Paged, Remote}

Rig == [skills |-> Quiet, book |-> Silence, loops |-> {}, halves |-> {"agent"}, edits |-> 0,
        changes |-> 0, faults |-> 0, quits |-> {}, interrupts |-> FALSE]
OfSkills == {[Rig EXCEPT !.skills = s, !.loops = {"scheduler"}] : s \in {Effects, Verdicts, Flows}}
            \cup {[Rig EXCEPT !.skills = Asks, !.loops = {"scheduler", "budget"}]}
OfHistory == {[Rig EXCEPT !.book = k] : k \in MCBooks \ {Silence}}

(* Two edits each, two faults; a user's changes besides.                   *)
Polling == {[Rig EXCEPT !.loops = {r}, !.edits = 2, !.faults = 2, !.changes = 2] :
               r \in {"commands", "flows", "config"}}

(* The agent alone, or either half ends, or a signal comes, while a config is *)
(* applied.                                                                *)
Leaving == [Rig EXCEPT !.interrupts = TRUE, !.edits = 1, !.changes = 1]
Ending == {[Leaving EXCEPT !.loops = {"config", "budget"}, !.quits = {"agent"}],
           [Leaving EXCEPT !.loops = {"config", "scheduler"}, !.skills = Scheduled,
                           !.halves = Half, !.quits = Half]}

MCRigs == OfSkills \cup OfHistory \cup Polling \cup Ending

=============================================================================
