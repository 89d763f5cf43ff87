---------------------------- MODULE MCIrcSession ----------------------------
(* Small instances of the session for TLC.                                 *)
EXTENDS IrcQueries

CONSTANTS bot, bot_, pal, lobby, den

MCSuffixed == [n \in Nick |-> IF n = bot THEN bot_ ELSE NoNick]

Base == [cuts |-> 1, commands |-> 0, events |-> 0, barred |-> {}, seed |-> {lobby}, others |-> {},
         pings |-> FALSE, asks |-> {}, kinds |-> {}]

(* Others come and go, around a broken link; modes; nicks taken and freed; what
   users and the control plane want; questions; a silent link.             *)
People == [Base EXCEPT !.events = 2, !.others = {pal},
                       !.kinds = {"join", "part", "quit", "nick", "kick"}]
Modes == [Base EXCEPT !.cuts = 0, !.events = 4, !.kinds = {"mode"}]
Nicks == [Base EXCEPT !.commands = 2, !.events = 2, !.seed = {}, !.others = {bot},
                      !.asks = {"web", "nick", "apply"}, !.kinds = {"quit"}]
Wants == [Base EXCEPT !.commands = 2, !.barred = {den}, !.asks = {"client", "web", "channels"}]
Queries == [Base EXCEPT !.commands = 3, !.seed = {}, !.asks = {"query"}]
Silence == [Base EXCEPT !.cuts = 2, !.seed = {}, !.pings = TRUE]

MCBounds == {People, Modes, Nicks, Wants, Queries, Silence}

MCQuery == {<<"whois", pal>>, <<"who", lobby>>, <<"list", lobby>>}

=============================================================================
