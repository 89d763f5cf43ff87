----------------------------- MODULE MCGateway -----------------------------
(* Small instances of the web gateway for TLC.                             *)
EXTENDS Gateway

CONSTANTS c1, c2

MCClient == {c1, c2}
None == [clients |-> MCClient, notice |-> 0, message |-> 0, changes |-> 0,
         says |-> 0, asks |-> 0, idle |-> FALSE, stop |-> FALSE]

(* Notices over the ring's cap; messages on their way to the store; a change of
   the link; a message that is said; a summary that is asked for; a gateway that
   idles and is stopped.                                                    *)
Notices == [None EXCEPT !.notice = 2, !.clients = {c1}]
Messages == [None EXCEPT !.message = 2, !.clients = {c1}]
Changes == [None EXCEPT !.changes = 2, !.clients = {c1}]
Asks == [None EXCEPT !.asks = 2, !.clients = {c1}]
Says == [None EXCEPT !.says = 1]
Late == [None EXCEPT !.notice = 1]
Ends == [None EXCEPT !.idle = TRUE, !.stop = TRUE]

MCBounds == {Notices, Messages, Changes, Asks, Says, Late, Ends}

=============================================================================
