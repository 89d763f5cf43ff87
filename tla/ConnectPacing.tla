--------------------------- MODULE ConnectPacing ---------------------------
(***************************************************************************)
(* When the connectors of one process may dial                             *)
(* (src/internal/connector/irc): the backoff schedule, the breaker that    *)
(* turns a storm of reconnects into a long pause, the floor under every    *)
(* pause, and the gate all connectors share, one token bucket per egress   *)
(* address and host.  With them the ident registry (src/internal/ident),   *)
(* which maps the local port of a link to the ident of its owner.          *)
(*                                                                         *)
(* Time is counted from the present: a timer by the ticks that are left, a *)
(* past event by the ticks since, no further back than anyone looks.       *)
(* Timers fire when they are due.                                          *)
(* What a session does is IrcSession's, how a park is entered and left is  *)
(* UpstreamSupervisor's.                                                   *)
(***************************************************************************)
EXTENDS Integers, Sequences, FiniteSets

CONSTANTS
    Connector, Port,
    Key, KeyOf,             \* sourceIP|host, and each connector's
    NoPort, NoOne,
    burst,                  \* of every bucket
    schedule,               \* BackoffSchedule.base
    reconnectFloor, stormWindow, stormMax, stormCooldown, sessionStableWindow,
    PacingBounds            \* the instances

(* An instance: who dials and from which ports, one token per interval (0:
   the gate is off), whether time passes, how far back the dials of a bucket
   are remembered, whether sleeps run out, and how many links and turns (ends
   of a sleep before its time) there may be.                               *)
ASSUME PacingAssumption ==
    /\ IsFiniteSet(Connector) /\ KeyOf \in [Connector -> Key]
    /\ NoPort \notin Port /\ NoOne \notin Connector
    /\ burst \in Nat \ {0} /\ schedule \in Seq(Nat) /\ schedule # <<>>
    /\ {reconnectFloor, stormWindow, stormMax, stormCooldown} \subseteq Nat
    /\ sessionStableWindow \in Nat
    /\ \A b \in PacingBounds :
          /\ b.dialers \subseteq Connector /\ b.ports \in [Connector -> SUBSET Port]
          /\ {b.interval, b.window, b.links, b.turns} \subseteq Nat
          /\ b.clock \in BOOLEAN /\ b.redials \in BOOLEAN

(* The cooldown outlasts the window (15 and 10 minutes in the code).       *)
ASSUME BreakerAssumption == stormCooldown >= stormWindow /\ stormWindow > 0 /\ stormMax > 0

VARIABLES
    pace,                \* the instance
    place,               \* where each connector's supervisor is
    due,                 \* the ticks until its timer fires
    idx,                 \* BackoffSchedule.idx
    sessionAge,          \* since sessionStart; -1: the zero time
    attempts,            \* reconnectStorm.attempts
    reserved,            \* the ticks until a bucket is full again
    identPort, socket,   \* the reported port, and that of the installed client
    held,                \* the ports of the process's sockets
    registry,            \* Registry.m
    links, turns,        \* how many there were
    admitted, redials,   \* history: dials of each bucket, and unprompted redials
    quiet, rushed,       \* history: since the last link ended; who redialled too soon
    crossed              \* history: ports dialled from while still to be cleared

gateVars == <<due, reserved, admitted>>
stormVars == <<idx, sessionAge, attempts, redials, quiet, rushed>>
identVars == <<identPort, socket, held, registry, crossed>>
countVars == <<links, turns>>
pacingVars == <<pace, place, gateVars, stormVars, identVars, countVars>>

PacingInit ==
    /\ pace \in PacingBounds
    /\ place = [c \in Connector |-> "off"] /\ due = [c \in Connector |-> 0]
    /\ idx = [c \in Connector |-> 0] /\ sessionAge = [c \in Connector |-> -1]
    /\ attempts = [c \in Connector |-> <<>>]
    /\ reserved = [k \in Key |-> 0]
    /\ identPort = [c \in Connector |-> NoPort] /\ socket = [c \in Connector |-> NoPort]
    /\ held = {} /\ registry = [p \in Port |-> NoOne]
    /\ links = 0 /\ turns = 0
    /\ admitted = [k \in Key |-> <<>>] /\ redials = [c \in Connector |-> <<>>]
    /\ quiet = [c \in Connector |-> reconnectFloor] /\ rushed = {} /\ crossed = {}

(* Ages are kept as they came, the oldest first: those within a window are a
   tail.                                                                   *)
Within(ages, window) ==
    LET past == {i \in DOMAIN ages : ages[i] >= window}
    IN  SubSeq(ages, Cardinality(past) + 1, Len(ages))
Larger(a, b) == IF a > b THEN a ELSE b

Turn == turns < pace.turns /\ turns' = turns + 1

-----------------------------------------------------------------------------
(* The gate: a reservation puts the bucket one interval further from full,
   and is granted once that is at most burst intervals away.               *)

Gated == pace.interval > 0
Ahead == burst * pace.interval

(* awaitConnectSlot: Limiter.Wait's reservation.                           *)
Reserve(c) ==
    LET full == reserved[KeyOf[c]] + pace.interval
    IN  IF Gated THEN /\ reserved' = [reserved EXCEPT ![KeyOf[c]] = full]
                      /\ due' = [due EXCEPT ![c] = Larger(0, full - Ahead)]
                 ELSE due' = [due EXCEPT ![c] = 0] /\ UNCHANGED reserved

(* A cancelled wait gives its token back, but for those reserved after it:
   only the last of the queue does.                                        *)
Abandoned(c) ==
    reserved' = IF Gated /\ due[c] > 0 /\ due[c] = reserved[KeyOf[c]] - Ahead
                THEN [reserved EXCEPT ![KeyOf[c]] = @ - pace.interval]
                ELSE reserved

Queue(c) == place' = [place EXCEPT ![c] = "gate"] /\ Reserve(c)

(* The gate admits the connection, and Dial begins.                        *)
Admit(c) ==
    /\ place[c] = "gate" /\ due[c] = 0
    /\ place' = [place EXCEPT ![c] = "dial"]
    /\ admitted' = IF Gated THEN [admitted EXCEPT ![KeyOf[c]] = Append(@, 0)] ELSE admitted
    /\ UNCHANGED <<pace, due, reserved, stormVars, identVars, countVars>>

-----------------------------------------------------------------------------
(* The pause before a reconnect.                                           *)

(* BackoffSchedule.Next, without the jitter.                               *)
Backoff(c) == schedule[IF idx[c] < Len(schedule) THEN idx[c] + 1 ELSE Len(schedule)]
Advanced(c) == IF idx[c] < Len(schedule) THEN idx[c] + 1 ELSE idx[c]

Kept(c) == Append(Within(attempts[c], stormWindow), 0)

(* reconnectStorm.record: too many attempts within the window.             *)
Stormy(c) == Len(Kept(c)) > stormMax

(* Mutant: the floor is left out.                                          *)
DelayUnfloored(c) == IF Stormy(c) THEN stormCooldown ELSE Backoff(c)

(* reconnectDelay.                                                         *)
Delay(c) == Larger(IF Stormy(c) THEN stormCooldown ELSE Backoff(c), reconnectFloor)

(* The loop of Run comes to its backoff: after a session, after a bringUp
   that failed, or because a signal ended the sleep.                       *)
Pause(c) ==
    /\ place' = [place EXCEPT ![c] = "sleep"]
    /\ due' = [due EXCEPT ![c] = Delay(c)]
    /\ idx' = [idx EXCEPT ![c] = Advanced(c)]
    /\ sessionAge' = [sessionAge EXCEPT ![c] = -1]
    /\ attempts' = [attempts EXCEPT ![c] = Kept(c)]

Stable(c) == sessionAge[c] >= sessionStableWindow

(* A session that lasted puts the schedule back to its head first; the dead
   client stays installed, its port reported and its socket open.          *)
SessionEnds(c) ==
    /\ place[c] = "linked"
    /\ place' = [place EXCEPT ![c] = "ended"]
    /\ idx' = [idx EXCEPT ![c] = IF Stable(c) THEN 0 ELSE @]
    /\ quiet' = [quiet EXCEPT ![c] = 0]
    /\ UNCHANGED <<pace, gateVars, sessionAge, attempts, redials, rushed, identVars, countVars>>

GoesToSleep(c) ==
    /\ place[c] \in {"ended", "failed"}
    /\ Pause(c)
    /\ UNCHANGED <<pace, reserved, admitted, redials, quiet, rushed, identVars, countVars>>

(* lifecycleCh: the loop starts over, finds no session, and sleeps again.  *)
Woken(c) ==
    /\ place[c] = "sleep" /\ Turn
    /\ Pause(c)
    /\ UNCHANGED <<pace, reserved, admitted, redials, quiet, rushed, identVars, links>>

Redial(c) ==
    /\ place[c] = "sleep" /\ due[c] = 0 /\ pace.redials
    /\ Queue(c)
    /\ redials' = [redials EXCEPT ![c] = Append(@, 0)]
    /\ rushed' = IF quiet[c] < reconnectFloor THEN rushed \cup {c} ELSE rushed
    /\ UNCHANGED <<pace, admitted, idx, sessionAge, attempts, quiet, identVars, countVars>>

(* Suspend during a sleep: Run parks.                                      *)
Park(c) ==
    /\ place[c] = "sleep" /\ Turn
    /\ place' = [place EXCEPT ![c] = "parked"]
    /\ UNCHANGED <<pace, gateVars, stormVars, identVars, links>>

(* Mutant: the user does not queue.                                        *)
ResumePastGate(c) ==
    /\ place[c] = "parked"
    /\ place' = [place EXCEPT ![c] = "dial"]
    /\ admitted' = [admitted EXCEPT ![KeyOf[c]] = Append(@, 0)]
    /\ idx' = [idx EXCEPT ![c] = 0]
    /\ UNCHANGED <<pace, due, reserved, sessionAge, attempts, redials, quiet, rushed, identVars,
                   countVars>>

(* Resume: no pause, and a fresh schedule; the gate still has its say.     *)
Resume(c) ==
    /\ place[c] = "parked"
    /\ Queue(c)
    /\ idx' = [idx EXCEPT ![c] = 0]
    /\ UNCHANGED <<pace, admitted, sessionAge, attempts, redials, quiet, rushed, identVars,
                   countVars>>

-----------------------------------------------------------------------------
(* The link and its ident.                                                 *)

Reported(p) == {c \in Connector : identPort[c] = p}

(* Mutant: the port reported before stays in the registry.                 *)
ReportIdentPortOnly(c, p) ==
    /\ identPort' = [identPort EXCEPT ![c] = p]
    /\ registry' = [q \in Port |-> IF q = p THEN c ELSE registry[q]]

(* reportIdentPort: Clear of the old port, Set of the new one.             *)
ReportIdentPort(c, p) ==
    /\ identPort' = [identPort EXCEPT ![c] = p]
    /\ registry' = [q \in Port |->
          IF q = p THEN c ELSE IF q = identPort[c] THEN NoOne ELSE registry[q]]

(* Dial: the system picks a port nobody holds; it is reported before the
   handshake, and the handshake may succeed or fail.                       *)
DialSucceeds(c) ==
    /\ place[c] = "dial" /\ links < pace.links /\ links' = links + 1
    /\ \E p \in pace.ports[c] \ held :
          /\ ReportIdentPort(c, p)
          /\ held' = held \cup {p}
          /\ socket' = [socket EXCEPT ![c] = p]
          /\ crossed' = (crossed \ {p}) \cup
                (IF Reported(p) \ {c} # {} THEN {p} ELSE {})
    /\ place' = [place EXCEPT ![c] = "handshake"]
    /\ UNCHANGED <<pace, gateVars, stormVars, turns>>

(* The former client stays installed.                                      *)
DialFails(c) ==
    /\ place[c] = "dial"
    /\ place' = [place EXCEPT ![c] = "failed"]
    /\ quiet' = [quiet EXCEPT ![c] = 0]
    /\ UNCHANGED <<pace, gateVars, idx, sessionAge, attempts, redials, rushed, identVars,
                   countVars>>

Registers(c) ==
    /\ place[c] = "handshake"
    /\ place' = [place EXCEPT ![c] = "linked"]
    /\ sessionAge' = [sessionAge EXCEPT ![c] = 0]
    /\ UNCHANGED <<pace, gateVars, idx, attempts, redials, quiet, rushed, identVars, countVars>>

(* Close, and after it setClient(nil).                                     *)
Close(c) ==
    /\ held' = held \ {socket[c]}
    /\ socket' = [socket EXCEPT ![c] = NoPort]
    /\ UNCHANGED <<identPort, registry, crossed>>

HandshakeFails(c) ==
    /\ place[c] = "handshake"
    /\ Close(c)
    /\ place' = [place EXCEPT ![c] = "closed"]
    /\ quiet' = [quiet EXCEPT ![c] = 0]
    /\ UNCHANGED <<pace, gateVars, idx, sessionAge, attempts, redials, rushed, countVars>>

ClearsClient(c) ==
    /\ place[c] = "closed"
    /\ ReportIdentPort(c, NoPort)
    /\ place' = [place EXCEPT ![c] = "failed"]
    /\ UNCHANGED <<pace, gateVars, stormVars, socket, held, crossed, countVars>>

(* A socket no connector has installed is collected at some time.          *)
Collect(p) ==
    /\ p \in held /\ \A c \in Connector : socket[c] # p
    /\ held' = held \ {p}
    /\ UNCHANGED <<pace, place, gateVars, stormVars, identPort, socket, registry, crossed,
                   countVars>>

-----------------------------------------------------------------------------
(* A run of the connector begins and ends.                                 *)

Fresh(c) ==
    /\ idx' = [idx EXCEPT ![c] = 0]
    /\ sessionAge' = [sessionAge EXCEPT ![c] = -1]
    /\ attempts' = [attempts EXCEPT ![c] = <<>>]
    /\ redials' = [redials EXCEPT ![c] = <<>>]

Begin(c) ==
    /\ place[c] = "off" /\ c \in pace.dialers
    /\ Queue(c) /\ Fresh(c)
    /\ UNCHANGED <<pace, admitted, quiet, rushed, identVars, countVars>>

(* Run has returned and Stop closes what is installed: a wait at the gate is
   given up, a handshake under way fails.                                  *)
End(c) ==
    /\ place[c] \notin {"off", "ending", "closed"}
    /\ IF place[c] = "gate" THEN Abandoned(c) ELSE UNCHANGED reserved
    /\ Close(c)
    /\ place' = [place EXCEPT ![c] = "ending"]
    /\ UNCHANGED <<pace, due, admitted, stormVars, countVars>>

(* Mutant: the client is dropped without a word to the registry.           *)
EndedQuietly(c) ==
    /\ place[c] = "ending"
    /\ place' = [place EXCEPT ![c] = "off"]
    /\ UNCHANGED <<pace, gateVars, stormVars, identVars, countVars>>

Ended(c) ==
    /\ place[c] = "ending"
    /\ ReportIdentPort(c, NoPort)
    /\ place' = [place EXCEPT ![c] = "off"]
    /\ UNCHANGED <<pace, gateVars, stormVars, socket, held, crossed, countVars>>

Left(ticks) == IF ticks > 0 THEN ticks - 1 ELSE 0
Older(age, limit) == IF age < limit THEN age + 1 ELSE limit
Aged(ages, window) == Within([i \in DOMAIN ages |-> ages[i] + 1], window)

(* What takes no time goes first.                                          *)
Urgent(c) == \/ place[c] \in {"ended", "failed", "closed", "ending"}
             \/ place[c] = "gate" /\ due[c] = 0
             \/ place[c] = "sleep" /\ due[c] = 0 /\ pace.redials

Tick ==
    /\ pace.clock /\ \A c \in Connector : ~Urgent(c)
    /\ due' = [c \in Connector |-> Left(due[c])]
    /\ reserved' = [k \in Key |-> Left(reserved[k])]
    /\ sessionAge' = [c \in Connector |->
          IF sessionAge[c] < 0 THEN -1 ELSE Older(sessionAge[c], sessionStableWindow)]
    /\ quiet' = [c \in Connector |-> Older(quiet[c], reconnectFloor)]
    /\ attempts' = [c \in Connector |-> Aged(attempts[c], stormWindow)]
    /\ redials' = [c \in Connector |-> Aged(redials[c], stormWindow)]
    /\ admitted' = [k \in Key |-> Aged(admitted[k], pace.window)]
    /\ UNCHANGED <<pace, place, idx, rushed, identVars, countVars>>

ConnectorSteps(c) ==
    \/ Admit(c) \/ SessionEnds(c) \/ GoesToSleep(c) \/ Woken(c) \/ Redial(c) \/ Park(c)
    \/ Resume(c) \/ DialSucceeds(c) \/ DialFails(c) \/ Registers(c) \/ HandshakeFails(c)
    \/ ClearsClient(c)

PacingNext ==
    \/ \E c \in Connector : ConnectorSteps(c)
    \/ \E p \in Port : Collect(p)
    \/ Tick

-----------------------------------------------------------------------------
(* No window of any length sees more dials of one bucket than its burst and
   the tokens of that time, whoever dials, wakes, parks or gives up waiting
   (connect_gate.go:33-63).                                                *)
GateHolds ==
    \A k \in Key : \A w \in 1..pace.window :
       Gated => Len(Within(admitted[k], w)) <= burst + (w - 1) \div pace.interval

(* Redials nobody asked for: never within the floor of the end of the link,
   and never more in the breaker's window than it allows and one
   (connector.go:1707-1719, reconnect_storm.go:9-28).                      *)
RedialsArePaced ==
    /\ rushed = {}
    /\ \A c \in Connector : Len(redials[c]) <= stormMax + 1

(* A link is answered for by its owner from before its handshake on, unless
   its port was taken up while another connector had yet to clear it; and no
   ident outlives the run it belongs to (registry.go, connector.go:353-377). *)
IdentIsOwners ==
    /\ \A c \in Connector : place[c] \in {"handshake", "linked"} /\ socket[c] \notin crossed =>
          registry[socket[c]] = c
    /\ \A p \in Port : registry[p] # NoOne =>
          place[registry[p]] # "off" /\ identPort[registry[p]] = p

=============================================================================
