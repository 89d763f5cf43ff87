--------------------------- MODULE UpstreamState ---------------------------
(***************************************************************************)
(* The alphabet of the upstream state machine of one IRC connector         *)
(* (src/internal/connector/irc/upstream_state.go): its twelve states, the  *)
(* three classes the supervisor forks on, and the classification of what   *)
(* the server says.  The names are the string values of the Go constants.  *)
(***************************************************************************)

Recoverable == {"disconnected_transient", "disconnected_nick_unavailable"}

Terminal == {"disconnected_auth_failed", "disconnected_banned",
             "paused_idle", "stopped"}

Parkable == {"disconnected_by_user", "disconnected_nick_invalid"}

UpstreamStates ==
    {"idle", "connecting", "registering", "registered"}
        \cup Recoverable \cup Terminal \cup Parkable

(* A state that counts as an outage for the escalation watchdog.           *)
IsOutageState(s) == s # "registered" /\ s \notin Parkable

(***************************************************************************)
(* What a server line means.  A line is one of a few kinds; every other    *)
(* line is irrelevant to the state machine.                                *)
(*   "433", "432", "464", "904", "465"   numerics (437 is classified as    *)
(*                                       432, 905 as 904)                  *)
(*   "closing"   ERROR :Closing Link with an innocuous reason              *)
(*   "kline"     ERROR :Closing Link whose reason matches a ban pattern    *)
(***************************************************************************)
ClassifiedLines == {"433", "432", "464", "904", "465", "closing", "kline"}

Classify(line) ==
    CASE line = "433"              -> "disconnected_nick_unavailable"
      [] line = "432"              -> "disconnected_nick_invalid"
      [] line \in {"464", "904"}   -> "disconnected_auth_failed"
      [] line \in {"465", "kline"} -> "disconnected_banned"
      [] line = "closing"          -> "disconnected_transient"

=============================================================================
