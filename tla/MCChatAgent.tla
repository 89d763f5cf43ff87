---------------------------- MODULE MCChatAgent ----------------------------
(* Small instances of an agent with a chat connector for TLC.              *)
EXTENDS ChatAgent

CONSTANTS p1, p2

MCPoster == {p1, p2}
None == [kind |-> "web", posters |-> MCPoster, suspended |-> FALSE, says |-> 0,
         presses |-> 0, ends |-> FALSE]

(* Two browsers of which one says something, one browser that fills the inbox of
   one, the platforms with more messages than the ring holds, Discord's and
   Telegram's buttons; agents that are cancelled.                           *)
Rooms == {[None EXCEPT !.says = 1, !.ends = TRUE],
          [None EXCEPT !.says = 2, !.ends = TRUE, !.posters = {p1}]}
Platforms == {[None EXCEPT !.kind = k, !.says = 4, !.ends = TRUE] :
                k \in {"discord", "slack", "telegram"}}
Buttons == {[None EXCEPT !.kind = k, !.suspended = b, !.presses = 4] :
                k \in {"discord", "telegram"}, b \in BOOLEAN}

MCBounds == Rooms \cup Platforms \cup Buttons

=============================================================================
