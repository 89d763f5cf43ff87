------------------------ MODULE MCUpstreamSupervisor ------------------------
(* Small instances of the reconnect supervisor for TLC.                     *)
EXTENDS UpstreamSupervisor, TLC

(* Sockets are interchangeable; used by the runs that check safety only.    *)
SocketSymmetry == Permutations(Conn)

=============================================================================
