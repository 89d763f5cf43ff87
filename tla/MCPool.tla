------------------------------- MODULE MCPool -------------------------------
(* Small instances of the pool for TLC.                                    *)
EXTENDS Pool

CONSTANTS ann, ben, x, y, p1, p2

MCConnector == Tenant \X Gen
MCKeyOf == [c \in MCConnector |-> "egress"]
MCSchedule == <<0, 1, 2>>

Apart == [c \in MCConnector |-> IF c[1] = ann THEN {p1} ELSE {p2}]
Shared == [c \in MCConnector |-> {p1, p2}]

NoDials == [dialers |-> {}, ports |-> Apart, interval |-> 0, window |-> 0, links |-> 0,
            turns |-> 0, clock |-> FALSE, redials |-> FALSE]
First == {<<ann, 1>>, <<ben, 1>>}

Pace(dials) == [NoDials EXCEPT !.dialers = dials]
HerdPace == [Pace(First) EXCEPT !.interval = 2, !.window = 4, !.turns = 1, !.clock = TRUE]
QuitPace == [HerdPace EXCEPT !.turns = 0]
StormPace == [Pace({<<ann, 1>>}) EXCEPT !.links = 2, !.redials = TRUE, !.clock = TRUE]
IdentPace == [Pace(First) EXCEPT !.ports = Shared, !.links = 3]

MCPacing == {NoDials, HerdPace, QuitPace, StormPace, IdentPace}

Nobody == [v \in Tenant |-> Absent]
Base == [feed |-> [Nobody EXCEPT ![ann] = 1], pace |-> NoDials, edits |-> 0, ends |-> 0,
         marks |-> 0, clients |-> {}, web |-> {}, tenants |-> {ann},
         specs |-> Spec \cup {Absent}, cancels |-> TRUE]

(* Edits of two tenants; clients of one that is edited, ends and panics; what
   is marked; two tenants at one gate, a storm of reconnects, shared ports. *)
Edits == [Base EXCEPT !.edits = 3]
Swap == [Base EXCEPT !.edits = 2, !.tenants = {ann, ben}, !.specs = {1, Absent}]
Clients == [Base EXCEPT !.edits = 1, !.clients = {x}]
Ends == [Base EXCEPT !.ends = 1, !.clients = {x}]
Marks == [Base EXCEPT !.marks = 3, !.web = {y}]
Both == [Nobody EXCEPT ![ann] = 1, ![ben] = 1]
Herd == [Base EXCEPT !.feed = Both, !.pace = HerdPace, !.cancels = FALSE]
Quits == [Herd EXCEPT !.pace = QuitPace, !.edits = 1, !.specs = {Absent}]
Storm == [Base EXCEPT !.pace = StormPace, !.cancels = FALSE]
Idents == [Base EXCEPT !.feed = Both, !.pace = IdentPace, !.edits = 1, !.specs = {Absent},
                      !.cancels = FALSE]

MCBounds == {Edits, Swap, Clients, Ends, Marks, Herd, Quits, Storm, Idents}

=============================================================================
