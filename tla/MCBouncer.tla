------------------------------ MODULE MCBouncer ------------------------------
(* Small instances of the bouncer for TLC.                                 *)
EXTENDS Bouncer

CONSTANTS c1, c2

Two == [clients |-> {c1, c2}, plain |-> {c1, c2}, lines |-> 2, outages |-> 1, suspend |-> FALSE]
Lines == [clients |-> {c1}, plain |-> {}, lines |-> 2, outages |-> 1, suspend |-> FALSE]
Outages == [clients |-> {c1}, plain |-> {}, lines |-> 0, outages |-> 2, suspend |-> TRUE]

MCClient == {c1, c2}
MCBounds == {Two, Lines, Outages}
MCEchoClient == {c1}

=============================================================================
