----------------------------- MODULE IrcSession -----------------------------
(***************************************************************************)
(* What the IRC connector knows of the network                             *)
(* (src/internal/connector/irc): its nick, the channels it is in with      *)
(* their members (ChannelState), the channels it wants to be in            *)
(* (WantedChannels), and whether the link still answers (pingLedger).      *)
(*                                                                         *)
(* The other end is the truth of it all: me, others, members and granted   *)
(* are the server's.  Commands go out and lines come in over one link, in  *)
(* order; the link may break or fall silent at any moment, and then the    *)
(* server keeps our old nick in its channels, as anyone's, until it quits. *)
(*                                                                         *)
(* Threads: the supervisor (connect, handshake, rejoin), the dispatcher of *)
(* a session, its ping writer, its watchdog and its reclaim loop, a client *)
(* of the bouncer, the web gateway, and the tenant's update.  How the      *)
(* supervisor backs off, parks and stops is UpstreamSupervisor's.          *)
(***************************************************************************)
EXTENDS Integers, FiniteSets, Sequences, SequencesExt

CONSTANTS
    Chan, Nick, Token,
    NoNick,             \* no nick, and none asked for
    Configured,         \* settings.Nick
    Suffixed,           \* what appending "_" makes of a nick, NoNick if too long
    maxNickFallbacks,
    Bounds              \* the instances

Letter == {"q", "o", "v"}
Prefix == {"~", "@", "+", ""}

ASSUME ChanAssumption == IsFiniteSet(Chan)
ASSUME NickAssumption ==
    /\ NoNick \notin Nick /\ Configured \in Nick
    /\ Suffixed \in [Nick -> Nick \cup {NoNick}] /\ maxNickFallbacks \in Nat

(* An instance: how often the link breaks, which commands the clients give and
   how many, which events of others happen and how many, which nicks they have
   at first, the channels the server lets nobody in, and those configured.   *)
ASSUME BoundsAssumption ==
    \A b \in Bounds :
       /\ b.cuts \in Nat /\ b.commands \in Nat /\ b.events \in Nat
       /\ b.barred \subseteq Chan /\ b.seed \subseteq Chan
       /\ b.others \subseteq Nick /\ b.pings \in BOOLEAN
       /\ b.asks \subseteq {"client", "web", "nick", "apply", "channels", "query"}
       /\ b.kinds \subseteq {"join", "part", "quit", "nick", "kick", "mode"}

VARIABLES
    bounds, left,        \* the instance, and what is left of its budgets
    link,                \* "none", "up", "silent" or "closed"
    out, wire,           \* commands on their way to the server, and its lines
    me, others,          \* the server: our nick, and everybody else's
    members, granted,    \* ... who is in each channel, and with which modes
    phase,               \* the supervisor's place
    currentNick, desiredNick, preferredNick,
    attemptedNick, nickFallbacks,
    reclaim,             \* what the reclaim loop is about to ask for
    joined, names, complete,   \* ChannelState: channels, members, NamesComplete
    wanted,              \* WantedChannels
    ledger, pinging,     \* pending tokens, and the one not sent yet
    client,              \* what a client's thread has yet to record
    reconcile,           \* the channels an update is about to bring about
    adrift, cutShort     \* history: see WantedIsJoined and ViewIsReal

netVars == <<link, out, wire>>
serverVars == <<me, others, members, granted>>
nickVars == <<currentNick, desiredNick, preferredNick, attemptedNick, nickFallbacks>>
viewVars == <<joined, names, complete, cutShort>>
pingVars == <<ledger, pinging>>
clientVars == <<client, reconcile>>
vars == <<bounds, left, netVars, serverVars, phase, nickVars, reclaim, viewVars, wanted,
          pingVars, clientVars, adrift>>

Idle == [command |-> "none", channel |-> {}, passed |-> FALSE]
Commands == ({"JOIN", "PART"} \X Chan) \cup ({"NICK"} \X Nick) \cup ({"PING"} \X Token)

(* Members with the prefix each is shown with; and what the server says.   *)
Listing == UNION {[S -> Prefix] : S \in SUBSET Nick}
Said ==
    {<<"433">>, <<"451">>} \cup ({"001", "QUIT"} \X Nick) \cup ({"366", "474"} \X Chan)
       \cup ({"PONG"} \X Token) \cup ({"353"} \X Chan \X Listing)
       \cup ({"JOIN", "PART", "KICK"} \X Nick \X Chan) \cup ({"NICK"} \X Nick \X Nick)
       \cup ({"MODE"} \X BOOLEAN \X Letter \X Nick \X Chan)

TypeOK ==
    /\ bounds \in Bounds /\ left \in [{"cuts", "commands", "events"} -> Nat]
    /\ link \in {"none", "up", "silent", "closed"}
    /\ out \in Seq(Commands) /\ wire \in Seq(Said)
    /\ me \in Nick \cup {NoNick} /\ others \subseteq Nick /\ me \notin others
    /\ members \in [Chan -> SUBSET Nick]
    /\ granted \in [Chan -> SUBSET (Nick \X Letter)]
    /\ phase \in {"down", "registering", "rejoined", "on", "invalid"}
    /\ {currentNick, desiredNick, attemptedNick} \subseteq Nick
    /\ {preferredNick, reclaim} \subseteq Nick \cup {NoNick}
    /\ nickFallbacks \in 0..maxNickFallbacks
    /\ joined \subseteq Chan /\ complete \subseteq joined
    /\ DOMAIN names = Chan /\ \A c \in Chan : names[c] \in Listing
    /\ wanted \subseteq Chan /\ adrift \subseteq Chan /\ cutShort \subseteq Chan
    /\ ledger \subseteq Token /\ pinging \subseteq Token
    /\ client \in [command : {"none", "JOIN", "PART"}, channel : SUBSET Chan, passed : BOOLEAN]
    /\ reconcile \in [on : BOOLEAN, registered : BOOLEAN, desired : SUBSET Chan]

Nobody == [n \in {} |-> ""]

Init ==
    /\ bounds \in Bounds
    /\ left = [cuts |-> bounds.cuts, commands |-> bounds.commands, events |-> bounds.events]
    /\ link = "none" /\ out = <<>> /\ wire = <<>>
    /\ me = NoNick /\ others = bounds.others
    /\ members \in [Chan -> {bounds.others}] /\ granted = [c \in Chan |-> {}]
    /\ phase = "down"
    /\ currentNick = Configured /\ desiredNick = Configured /\ attemptedNick = Configured
    /\ preferredNick = NoNick /\ nickFallbacks = 0 /\ reclaim = NoNick
    /\ joined = {} /\ names = [c \in Chan |-> Nobody] /\ complete = {}
    /\ wanted = bounds.seed
    /\ ledger = {} /\ pinging = {}
    /\ client = Idle /\ reconcile = [on |-> FALSE, registered |-> FALSE, desired |-> {}]
    /\ adrift = {} /\ cutShort = {}

Spend(budget) == left[budget] > 0 /\ left' = [left EXCEPT ![budget] = @ - 1]

(* What is written into a link nobody reads is lost.                       *)
Sent(commands) == IF link = "up" THEN out \o commands ELSE out
Heard(lines) == IF link = "up" THEN wire \o lines ELSE wire

-----------------------------------------------------------------------------
(* The server.                                                             *)

(* It takes a command, in the order they were written.                     *)
Takes(command) ==
    /\ link = "up" /\ out # <<>> /\ out[1][1] = command /\ out' = Tail(out)
    /\ UNCHANGED <<bounds, left, link, phase, nickVars, reclaim, viewVars, wanted, pingVars,
                   clientVars, adrift>>

Renamed(S, old, new) == IF old \in S THEN (S \ {old}) \cup {new} ELSE S

RenamedModes(G, old, new) == {IF g[1] = old THEN <<new, g[2]>> ELSE g : g \in G}

Rename(old, new) ==
    /\ members' = [c \in Chan |-> Renamed(members[c], old, new)]
    /\ granted' = [c \in Chan |-> RenamedModes(granted[c], old, new)]

TakesNick ==
    /\ Takes("NICK")
    /\ LET new == out[1][2] IN
       \/ /\ new \in others /\ wire' = Heard(<<<<"433">>>>)
          /\ UNCHANGED serverVars
       \/ /\ new \notin others /\ me = NoNick
          /\ me' = new /\ wire' = Heard(<<<<"001", new>>>>)
          /\ UNCHANGED <<others, members, granted>>
       \/ /\ new \notin others /\ me # NoNick
          /\ me' = new /\ Rename(me, new)
          /\ wire' = Heard(IF new = me THEN <<>> ELSE <<<<"NICK", me, new>>>>)
          /\ UNCHANGED others

(* The prefix NAMES shows: that of the highest mode.                       *)
Shown(c, n) ==
    IF <<n, "q">> \in granted[c] THEN "~"
    ELSE IF <<n, "o">> \in granted[c] THEN "@"
    ELSE IF <<n, "v">> \in granted[c] THEN "+" ELSE ""

TakesJoin ==
    /\ Takes("JOIN")
    /\ LET c == out[1][2] IN
       \/ /\ me = NoNick /\ wire' = Heard(<<<<"451">>>>)
          /\ UNCHANGED serverVars
       \/ /\ me # NoNick /\ c \in bounds.barred /\ me \notin members[c]
          /\ wire' = Heard(<<<<"474", c>>>>)
          /\ UNCHANGED serverVars
       \/ /\ me # NoNick /\ c \notin bounds.barred /\ me \notin members[c]
          /\ members' = [members EXCEPT ![c] = @ \cup {me}]
          /\ wire' = Heard(<<<<"JOIN", me, c>>,
                             <<"353", c, [n \in members[c] \cup {me} |-> Shown(c, n)]>>,
                             <<"366", c>>>>)
          /\ UNCHANGED <<me, others, granted>>
       \/ /\ me # NoNick /\ me \in members[c]
          /\ UNCHANGED <<wire, serverVars>>

Leave(n, cs) ==
    /\ members' = [c \in Chan |-> IF c \in cs THEN members[c] \ {n} ELSE members[c]]
    /\ granted' = [c \in Chan |-> IF c \in cs THEN {g \in granted[c] : g[1] # n}
                                  ELSE granted[c]]

TakesPart ==
    /\ Takes("PART")
    /\ LET c == out[1][2] IN
       \/ /\ me = NoNick /\ wire' = Heard(<<<<"451">>>>)
          /\ UNCHANGED serverVars
       \/ /\ me # NoNick /\ me \in members[c]
          /\ Leave(me, {c}) /\ wire' = Heard(<<<<"PART", me, c>>>>)
          /\ UNCHANGED <<me, others>>
       \/ /\ me # NoNick /\ me \notin members[c]
          /\ UNCHANGED <<wire, serverVars>>

TakesPing ==
    /\ Takes("PING") /\ wire' = Heard(<<<<"PONG", out[1][2]>>>>)
    /\ UNCHANGED serverVars

(* Somebody else does something, and we are told when we share a channel.  *)
Event(kind) ==
    /\ kind \in bounds.kinds /\ Spend("events")
    /\ UNCHANGED <<bounds, link, out, me, phase, nickVars, reclaim, viewVars, wanted, pingVars,
                   clientVars, adrift>>

Here == {c \in Chan : me \in members[c]}
Told(cs, line) == wire' = Heard(IF cs \cap Here # {} THEN <<line>> ELSE <<>>)

OtherJoins(n, c) ==
    /\ Event("join") /\ n # me /\ n \notin members[c]
    /\ others' = others \cup {n}
    /\ members' = [members EXCEPT ![c] = @ \cup {n}] /\ Told({c}, <<"JOIN", n, c>>)
    /\ UNCHANGED granted

OtherParts(n, c) ==
    /\ Event("part") /\ n \in others \cap members[c]
    /\ Leave(n, {c}) /\ Told({c}, <<"PART", n, c>>)
    /\ UNCHANGED others

OtherQuits(n) ==
    /\ Event("quit") /\ n \in others
    /\ others' = others \ {n} /\ Leave(n, Chan)
    /\ Told({c \in Chan : n \in members[c]}, <<"QUIT", n>>)

OtherRenames(old, new) ==
    /\ Event("nick") /\ old \in others /\ new \notin others \cup {me}
    /\ others' = Renamed(others, old, new) /\ Rename(old, new)
    /\ Told({c \in Chan : old \in members[c]}, <<"NICK", old, new>>)

Kicks(n, c) ==
    /\ Event("kick") /\ n \in members[c]
    /\ Leave(n, {c}) /\ Told({c}, <<"KICK", n, c>>)
    /\ UNCHANGED others

SetsMode(adding, letter, n, c) ==
    /\ Event("mode") /\ n \in members[c] /\ adding = (<<n, letter>> \notin granted[c])
    /\ granted' = [granted EXCEPT ![c] = IF adding THEN @ \cup {<<n, letter>>}
                                         ELSE @ \ {<<n, letter>>}]
    /\ Told({c}, <<"MODE", adding, letter, n, c>>)
    /\ UNCHANGED <<others, members>>

(* The link breaks, or falls silent with nobody told.  Our nick stays behind. *)
Breaks(how) ==
    /\ link = "up" /\ Spend("cuts")
    /\ link' = how /\ out' = <<>>
    /\ me' = NoNick /\ others' = others \cup ({me} \ {NoNick})
    /\ UNCHANGED <<bounds, wire, members, granted, phase, nickVars, reclaim, viewVars, wanted,
                   pingVars, clientVars, adrift>>

-----------------------------------------------------------------------------
(* The supervisor: one connection after another.                           *)

(* The connection is given up, with what has not been read of it.          *)
GiveUp(there) ==
    /\ phase' = there /\ link' = "none" /\ out' = <<>> /\ wire' = <<>>
    /\ me' = NoNick /\ others' = others \cup ({me} \ {NoNick})
    /\ ledger' = {} /\ pinging' = {} /\ reclaim' = NoNick
    /\ reconcile' = [reconcile EXCEPT !.registered = FALSE]
    /\ cutShort' = cutShort \cup {c \in joined \ complete : names[c] # Nobody}
    /\ UNCHANGED <<bounds, left, members, granted, joined, names, complete, wanted, client,
                   adrift>>

effectiveNick == IF preferredNick # NoNick THEN preferredNick ELSE Configured

Register ==
    /\ phase = "down"
    /\ phase' = "registering" /\ link' = "up" /\ out' = <<<<"NICK", effectiveNick>>>>
    /\ desiredNick' = effectiveNick /\ attemptedNick' = effectiveNick /\ nickFallbacks' = 0
    /\ UNCHANGED <<bounds, left, wire, serverVars, currentNick, preferredNick, reclaim, viewVars,
                   wanted, pingVars, clientVars, adrift>>

Reads(line) == wire # <<>> /\ wire[1][1] = line

NextFallback ==
    IF nickFallbacks < maxNickFallbacks THEN Suffixed[attemptedNick] ELSE NoNick

(* 433 during the handshake: one more "_", or the nick is given up.        *)
Fallback ==
    /\ phase = "registering" /\ Reads("433") /\ NextFallback # NoNick
    /\ attemptedNick' = NextFallback /\ nickFallbacks' = nickFallbacks + 1
    /\ wire' = Tail(wire) /\ out' = Sent(<<<<"NICK", NextFallback>>>>)
    /\ UNCHANGED <<bounds, left, link, serverVars, phase, currentNick, desiredNick,
                   preferredNick, reclaim, viewVars, wanted, pingVars, clientVars, adrift>>

Exhausted ==
    /\ phase = "registering" /\ Reads("433") /\ NextFallback = NoNick
    /\ GiveUp("invalid") /\ UNCHANGED nickVars

(* The welcome, and JOIN for every channel wanted.                         *)
Rejoin ==
    /\ phase = "registering" /\ Reads("001")
    /\ phase' = "rejoined" /\ currentNick' = wire[1][2] /\ wire' = Tail(wire)
    /\ out' = Sent([i \in DOMAIN SetToSeq(wanted) |-> <<"JOIN", SetToSeq(wanted)[i]>>])
    /\ adrift' = {} /\ client' = [client EXCEPT !.passed = client.channel # {}]
    /\ UNCHANGED <<bounds, left, link, serverVars, desiredNick, preferredNick, attemptedNick,
                   nickFallbacks, reclaim, viewVars, wanted, pingVars, reconcile>>

(* The state turns to registered; the queued nick is consumed.             *)
Registered ==
    /\ phase = "rejoined" /\ phase' = "on" /\ preferredNick' = NoNick
    /\ UNCHANGED <<bounds, left, netVars, serverVars, currentNick, desiredNick, attemptedNick,
                   nickFallbacks, reclaim, viewVars, wanted, pingVars, clientVars, adrift>>

(* A command before the welcome, no line in time, or the end of the link.  With
   pings the watchdog is faster than ReadIdleTimeout, which is left out.     *)
Fails_mutant ==
    /\ \/ phase = "registering" /\ Reads("451")
       \/ phase = "on" /\ link = "silent" /\ ~bounds.pings
       \/ phase \in {"registering", "rejoined", "on"} /\ link = "closed"
    /\ GiveUp("down") /\ UNCHANGED nickVars

Fails ==
    /\ \/ phase = "registering" /\ (Reads("451") \/ link = "silent")
       \/ phase = "on" /\ link = "silent" /\ ~bounds.pings
       \/ phase \in {"registering", "rejoined", "on"} /\ link = "closed"
    /\ GiveUp("down") /\ UNCHANGED nickVars

-----------------------------------------------------------------------------
(* The dispatcher of a session: what a line does to the views.             *)

Dispatch(line) ==
    /\ phase = "on" /\ Reads(line) /\ wire' = Tail(wire)
    /\ UNCHANGED <<bounds, left, link, out, serverVars, phase, preferredNick, attemptedNick,
                   nickFallbacks, reclaim, pinging, reconcile>>

(* A line about ourselves and c overtakes what a client has yet to record. *)
Overtakes(kind, c) ==
    client' = IF c \in client.channel
              THEN [client EXCEPT !.passed = (client.command = "JOIN") # (kind = "JOIN")]
              ELSE client

Set(c, view) == names' = [names EXCEPT ![c] = view]
Without(view, n) == [m \in DOMAIN view \ {n} |-> view[m]]
With(view, n, prefix) == [m \in DOMAIN view \cup {n} |-> IF m = n THEN prefix ELSE view[m]]

handleJoin ==
    /\ Dispatch("JOIN")
    /\ LET n == wire[1][2] c == wire[1][3] IN
       \/ /\ n = currentNick
          /\ joined' = joined \cup {c} /\ wanted' = wanted \cup {c}
          /\ adrift' = adrift \ {c} /\ Overtakes("JOIN", c)
          /\ UNCHANGED names
       \/ /\ n # currentNick
          /\ IF c \in joined /\ n \notin DOMAIN names[c]
             THEN Set(c, With(names[c], n, "")) ELSE UNCHANGED names
          /\ UNCHANGED <<joined, wanted, adrift, client>>
    /\ UNCHANGED <<complete, cutShort, currentNick, desiredNick, ledger>>

handlePart ==
    /\ Dispatch("PART")
    /\ LET n == wire[1][2] c == wire[1][3] IN
       \/ /\ n = currentNick
          /\ joined' = joined \ {c} /\ complete' = complete \ {c} /\ Set(c, Nobody)
          /\ cutShort' = cutShort \ {c}
          /\ wanted' = wanted \ {c} /\ adrift' = adrift \ {c} /\ Overtakes("PART", c)
       \/ /\ n # currentNick
          /\ Set(c, Without(names[c], n))
          /\ UNCHANGED <<joined, complete, cutShort, wanted, adrift, client>>
    /\ UNCHANGED <<currentNick, desiredNick, ledger>>

handleQuit ==
    /\ Dispatch("QUIT") /\ names' = [c \in Chan |-> Without(names[c], wire[1][2])]
    /\ UNCHANGED <<joined, complete, cutShort, wanted, adrift, client, currentNick, desiredNick,
                   ledger>>

(* A kick takes the member away, and ours leaves the channel where it is.  *)
handleKick ==
    /\ Dispatch("KICK")
    /\ LET n == wire[1][2] c == wire[1][3] IN
       /\ Set(c, Without(names[c], n))
       /\ adrift' = IF n = currentNick THEN adrift \cup {c} ELSE adrift
    /\ UNCHANGED <<joined, complete, cutShort, wanted, client, currentNick, desiredNick, ledger>>

(* Our own change is taken for the user's wish.                            *)
handleNickChange ==
    /\ Dispatch("NICK")
    /\ LET old == wire[1][2] new == wire[1][3] IN
       /\ names' = [c \in Chan |->
                       IF old \in DOMAIN names[c]
                       THEN Without(With(names[c], new, names[c][old]), old) ELSE names[c]]
       /\ IF old = currentNick THEN currentNick' = new /\ desiredNick' = new
          ELSE UNCHANGED <<currentNick, desiredNick>>
    /\ UNCHANGED <<joined, complete, cutShort, wanted, adrift, client, ledger>>

PrefixOf == [q |-> "~", o |-> "@", v |-> "+"]
rank(prefix) == CHOOSE r \in 0..3 : <<"~", "@", "+", "">>[r + 1] = prefix

(* The prefix shown after a mode is set or taken: only the highest is kept. *)
Displayed(prefix, adding, letter) ==
    IF adding THEN IF rank(PrefixOf[letter]) < rank(prefix) THEN PrefixOf[letter] ELSE prefix
    ELSE IF prefix = PrefixOf[letter] THEN "" ELSE prefix

handleMode ==
    /\ Dispatch("MODE")
    /\ LET n == wire[1][4] c == wire[1][5] IN
       IF n \in DOMAIN names[c]
       THEN Set(c, [names[c] EXCEPT ![n] = Displayed(@, wire[1][2], wire[1][3])])
       ELSE UNCHANGED names
    /\ UNCHANGED <<joined, complete, cutShort, wanted, adrift, client, currentNick, desiredNick,
                   ledger>>

(* NAMES: the first line after a complete burst starts from nobody.        *)
Kept_mutant(c) == DOMAIN names[c]

Kept(c) == IF c \in complete THEN {} ELSE DOMAIN names[c]

OnNamesReply ==
    /\ Dispatch("353")
    /\ LET c == wire[1][2] listed == wire[1][3] IN
       /\ joined' = joined \cup {c} /\ complete' = complete \ {c}
       /\ cutShort' = IF c \in complete THEN cutShort \ {c} ELSE cutShort
       /\ Set(c, [n \in DOMAIN listed \cup Kept(c) |->
                     IF n \in DOMAIN listed THEN listed[n] ELSE names[c][n]])
    /\ UNCHANGED <<wanted, adrift, client, currentNick, desiredNick, ledger>>

OnNamesEnd ==
    /\ Dispatch("366") /\ complete' = complete \cup ({wire[1][2]} \cap joined)
    /\ UNCHANGED <<joined, names, cutShort, wanted, adrift, client, currentNick, desiredNick,
                   ledger>>

handleJoinFailure_mutant ==
    /\ Dispatch("474")
    /\ adrift' = adrift \ {wire[1][2]} /\ Overtakes("474", wire[1][2])
    /\ UNCHANGED <<wanted, joined, names, complete, cutShort, currentNick, desiredNick, ledger>>

handleJoinFailure ==
    /\ Dispatch("474") /\ wanted' = wanted \ {wire[1][2]}
    /\ adrift' = adrift \ {wire[1][2]} /\ Overtakes("474", wire[1][2])
    /\ UNCHANGED <<joined, names, complete, cutShort, currentNick, desiredNick, ledger>>

Ack ==
    /\ Dispatch("PONG") /\ ledger' = ledger \ {wire[1][2]}
    /\ UNCHANGED <<joined, names, complete, cutShort, wanted, adrift, client, currentNick,
                   desiredNick>>

(* A nick refused in a session leaves everything as it is.                 *)
Refused ==
    /\ Dispatch("433")
    /\ UNCHANGED <<joined, names, complete, cutShort, wanted, adrift, client, currentNick,
                   desiredNick, ledger>>

-----------------------------------------------------------------------------
(* The other threads of a session.                                         *)

(* Bound: the ticker is slow, so that its last attempt is answered.        *)
Answered ==
    /\ \A i \in DOMAIN out : out[i][1] # "NICK"
    /\ \A i \in DOMAIN wire : wire[i][1] \notin {"433", "NICK"}

(* The reclaim loop reads what is desired, and then asks for it.           *)
ReclaimTick_mutant ==
    /\ phase = "on" /\ reclaim = NoNick /\ currentNick # desiredNick /\ Answered
    /\ nickFallbacks > 0
    /\ reclaim' = desiredNick
    /\ UNCHANGED <<bounds, left, netVars, serverVars, phase, nickVars, viewVars, wanted,
                   pingVars, clientVars, adrift>>

ReclaimTick ==
    /\ phase = "on" /\ reclaim = NoNick /\ currentNick # desiredNick /\ Answered
    /\ reclaim' = desiredNick
    /\ UNCHANGED <<bounds, left, netVars, serverVars, phase, nickVars, viewVars, wanted,
                   pingVars, clientVars, adrift>>

Reclaim ==
    /\ phase = "on" /\ reclaim # NoNick
    /\ out' = Sent(<<<<"NICK", reclaim>>>>) /\ reclaim' = NoNick
    /\ UNCHANGED <<bounds, left, link, wire, serverVars, phase, nickVars, viewVars, wanted,
                   pingVars, clientVars, adrift>>

(* Tokens are counted; one that is nowhere any more stands for a new one.  *)
Fresh == {t \in Token : /\ t \notin ledger
                        /\ \A i \in DOMAIN out : out[i] # <<"PING", t>>
                        /\ \A i \in DOMAIN wire : wire[i] # <<"PONG", t>>}

Ping ==
    /\ phase = "on" /\ bounds.pings
    /\ \/ /\ pinging = {} /\ Fresh # {}
          /\ \E t \in Fresh : pinging' = {t} /\ ledger' = ledger \cup {t}
          /\ UNCHANGED out
       \/ /\ \E t \in pinging : out' = Sent(<<<<"PING", t>>>>)
          /\ pinging' = {} /\ UNCHANGED ledger
    /\ UNCHANGED <<bounds, left, link, wire, serverVars, phase, nickVars, reclaim, viewVars,
                   wanted, clientVars, adrift>>

(* Bound: PongTimeout is longer than an answer takes.  A token is too old  *)
(* when neither it nor its answer is on the way.                           *)
Aged(t) ==
    /\ t \in ledger \ pinging
    /\ \A i \in DOMAIN out : out[i] # <<"PING", t>>
    /\ \A i \in DOMAIN wire : wire[i] # <<"PONG", t>>

PongTimeout ==
    /\ phase = "on" /\ \E t \in Token : Aged(t)
    /\ GiveUp("down") /\ UNCHANGED nickVars

-----------------------------------------------------------------------------
(* What users and the control plane ask for.                               *)

Command(kind) ==
    /\ kind \in bounds.asks /\ Spend("commands")
    /\ UNCHANGED <<bounds, link, wire, serverVars, currentNick, attemptedNick, nickFallbacks,
                   reclaim, viewVars, pingVars>>

Changed(kind, cs) == wanted' = IF kind = "JOIN" THEN wanted \cup cs ELSE wanted \ cs

(* A client of the bouncer: the command is forwarded, and recorded after.  *)
Forwards(kind, c) ==
    /\ Command("client") /\ phase = "on" /\ client = Idle
    /\ out' = Sent(<<<<kind, c>>>>)
    /\ client' = [command |-> kind, channel |-> {c}, passed |-> FALSE]
    /\ UNCHANGED <<phase, desiredNick, preferredNick, wanted, reconcile, adrift>>

Records ==
    /\ client # Idle /\ client' = Idle
    /\ Changed(client.command, client.channel)
    /\ adrift' = IF client.passed THEN adrift \cup client.channel ELSE adrift
    /\ UNCHANGED <<bounds, left, netVars, serverVars, phase, nickVars, reclaim, viewVars,
                   pingVars, reconcile>>

(* ... or, with the link down, recorded alone: what changes after the channels
   were asked for again is not asked of this session.                      *)
Detached(kind, c) ==
    /\ Command("client") /\ phase # "on" /\ client = Idle
    /\ Changed(kind, {c})
    /\ adrift' = IF phase = "rejoined" THEN adrift \cup {c} ELSE adrift
    /\ UNCHANGED <<phase, out, desiredNick, preferredNick, clientVars>>

DetachedNick(n) ==
    /\ Command("nick") /\ phase # "on" /\ preferredNick' = n
    /\ UNCHANGED <<phase, out, desiredNick, wanted, clientVars, adrift>>

(* The web gateway writes what a browser asks for into any open link.      *)
SendRaw(command) ==
    /\ Command("web") /\ phase \in {"registering", "rejoined", "on"}
    /\ out' = Sent(<<command>>)
    /\ UNCHANGED <<phase, desiredNick, preferredNick, wanted, clientVars, adrift>>

(* A new nick, from the control plane: desired, queued, and asked for.     *)
ApplyNick(n) ==
    /\ Command("apply") /\ n # desiredNick
    /\ desiredNick' = n /\ preferredNick' = n
    /\ out' = IF phase = "on" THEN Sent(<<<<"NICK", n>>>>) ELSE out
    /\ phase' = IF phase = "invalid" THEN "down" ELSE phase
    /\ UNCHANGED <<wanted, clientVars, adrift>>

(* New channels, from the control plane.  Whether the link is registered is
   read once, at the start.                                                *)
ReconcileChannels(desired) ==
    /\ Command("channels") /\ ~reconcile.on
    /\ reconcile' = [on |-> TRUE, registered |-> phase = "on", desired |-> desired]
    /\ UNCHANGED <<phase, out, desiredNick, preferredNick, wanted, client, adrift>>

Reconciles ==
    /\ reconcile.on
    /\ reconcile' = [on |-> FALSE, registered |-> FALSE, desired |-> {}]
    /\ wanted' = reconcile.desired
    /\ LET gone == SetToSeq(wanted \ reconcile.desired)
           new == SetToSeq(reconcile.desired \ wanted)
       IN out' = IF reconcile.registered
                 THEN Sent([i \in DOMAIN gone |-> <<"PART", gone[i]>>]
                           \o [i \in DOMAIN new |-> <<"JOIN", new[i]>>])
                 ELSE out
    /\ adrift' = IF ~reconcile.registered /\ phase \in {"rejoined", "on"}
                 THEN adrift \cup {c \in Chan : (c \in wanted) # (c \in reconcile.desired)}
                 ELSE adrift
    /\ UNCHANGED <<bounds, left, link, wire, serverVars, phase, nickVars, reclaim, viewVars,
                   pingVars, client>>

-----------------------------------------------------------------------------
Server == TakesNick \/ TakesJoin \/ TakesPart \/ TakesPing

Others ==
    \/ \E n \in Nick : OtherQuits(n) \/ \E m \in Nick : OtherRenames(n, m)
    \/ \E n \in Nick, c \in Chan :
          \/ OtherJoins(n, c) \/ OtherParts(n, c) \/ Kicks(n, c)
          \/ \E letter \in Letter : SetsMode(TRUE, letter, n, c) \/ SetsMode(FALSE, letter, n, c)

Supervisor == Register \/ Fallback \/ Exhausted \/ Rejoin \/ Registered \/ Fails

Dispatcher ==
    \/ handleJoin \/ handlePart \/ handleQuit \/ handleKick \/ handleNickChange \/ handleMode
    \/ OnNamesReply \/ OnNamesEnd \/ handleJoinFailure \/ Ack \/ Refused

Asked ==
    \/ \E c \in Chan, kind \in {"JOIN", "PART"} :
          Forwards(kind, c) \/ Detached(kind, c) \/ SendRaw(<<kind, c>>)
    \/ \E n \in Nick : DetachedNick(n) \/ ApplyNick(n) \/ SendRaw(<<"NICK", n>>)
    \/ \E desired \in SUBSET Chan : ReconcileChannels(desired)

Next ==
    \/ Server \/ Others \/ Breaks("closed") \/ Breaks("silent")
    \/ Supervisor \/ Dispatcher \/ ReclaimTick \/ Reclaim \/ Ping \/ PongTimeout
    \/ Asked \/ Records \/ Reconciles

Spec == Init /\ [][Next]_vars

(* The server answers a link that is up, every thread goes on, and the tickers
   tick.                                                                   *)
Fairness ==
    /\ WF_vars(Server) /\ WF_vars(Supervisor) /\ WF_vars(Dispatcher)
    /\ WF_vars(ReclaimTick) /\ WF_vars(Reclaim) /\ WF_vars(Ping) /\ WF_vars(PongTimeout)
    /\ WF_vars(Records) /\ WF_vars(Reconciles)

-----------------------------------------------------------------------------
(* What is promised.                                                       *)

(* When the server's lines are all handled, the connector has its own nick
   right, and of every channel the server has it in the members; nobody is
   taken for an operator who is not one.  A burst of NAMES that a broken link
   cut short is the exception: the next one is added to what was left of it
   (OnNamesReply in state.go).                                             *)
ViewIsReal ==
    phase = "on" /\ link = "up" /\ wire = <<>> =>
       /\ currentNick = me
       /\ \A c \in Here \ cutShort :
             /\ c \in joined \cap complete /\ DOMAIN names[c] = members[c]
             /\ \A n \in members[c] : names[c][n] \in {"~", "@"} =>
                   \E letter \in {"q", "o"} : <<n, letter>> \in granted[c]

(* At rest the channels wanted are those the server has us in, so that the
   next reconnect rejoins what a user sees, and a channel that refused us is
   not asked for again.  Adrift are those we were kicked from, and those a
   change missed that came between the rejoin and registered, or that was
   recorded after the server's answer (handleJoinFailure, bringUp).          *)
WantedIsJoined ==
    /\ phase = "on" /\ link = "up" /\ out = <<>> /\ wire = <<>>
    /\ client = Idle /\ ~reconcile.on
    => \A c \in Chan \ adrift : c \in wanted <=> c \in Here

(* The nick a user wants is the connector's, once nobody else holds it any
   more, after fallbacks and reconnects (the reclaim loop of runSession).
   A connector parked with an unusable nick waits for another.             *)
NickComesBack ==
    \A n \in Nick :
       <>[](desiredNick = n /\ n \notin others /\ phase # "invalid") => <>[](currentNick = n)

(* A link that fell silent is given up, though nothing ever says so (the
   pong-watchdog of runSession, HandshakeTimeout before it runs).          *)
SilenceIsNoticed == link = "silent" ~> link # "silent"

=============================================================================
