--------------------------- MODULE MCStateEmitter ---------------------------
(* Small instances of an emitter for TLC.                                  *)
EXTENDS StateEmitter

=============================================================================
