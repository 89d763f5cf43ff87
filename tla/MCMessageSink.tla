---------------------------- MODULE MCMessageSink ----------------------------
(* A small sink for TLC.                                                   *)
EXTENDS MessageSink

=============================================================================
