-------------------------------- MODULE Outbox --------------------------------
(***************************************************************************)
(* What a durable-message sink promises those who submit messages to it,   *)
(* whatever threads, buffers and posts it is made of: a message is waiting *)
(* until it is forwarded, given up, or of unknown fate; the service gets   *)
(* what is forwarded in the order it was accepted, and no message twice;   *)
(* once closed, nothing is waiting that was accepted before the closing.   *)
(***************************************************************************)
EXTENDS Integers, Sequences

VARIABLES
    accepted,   \* how many messages were accepted, each named by its number
    waiting,    \* those the outbox still has
    unsure,     \* batches that were sent without an answer
    log,        \* what the service has, in its order
    closing,    \* how many were accepted when closing began, -1 before
    closed

vars == <<accepted, waiting, unsure, log, closing, closed>>

Init ==
    /\ accepted = 0 /\ waiting = {} /\ unsure = {} /\ log = <<>>
    /\ closing = -1 /\ closed = FALSE

Contents(s) == {s[i] : i \in DOMAIN s}

(* A batch leaves: it is in order, and older than what goes on waiting.    *)
Leaves(batch) ==
    /\ \A i, j \in DOMAIN batch : i < j => batch[i] < batch[j]
    /\ Contents(batch) \subseteq waiting
    /\ waiting' = waiting \ Contents(batch)
    /\ \A e \in Contents(batch), rest \in waiting' : e < rest

(* The outbox may close with what it does.                                 *)
MayClose ==
    \/ closed' = closed
    \/ closed' = TRUE /\ closing >= 0 /\ \A e \in waiting' : e > closing

(* A full outbox gives up earlier messages for the new one.                *)
Accept ==
    /\ accepted' = accepted + 1
    /\ accepted' \in waiting' /\ waiting' \subseteq waiting \cup {accepted'}
    /\ UNCHANGED <<unsure, log, closing, closed>>

Forward ==
    /\ \E batch \in {SubSeq(log', Len(log) + 1, Len(log'))} :
          Leaves(batch) /\ log' = log \o batch
    /\ MayClose /\ UNCHANGED <<accepted, unsure, closing>>

GiveUp ==
    /\ waiting' \subseteq waiting
    /\ MayClose /\ UNCHANGED <<accepted, unsure, log, closing>>

(* Sent, and not answered: the service may store the batch, but only once. *)
Wonder ==
    /\ \E batch \in unsure' \ unsure :
          Leaves(batch) /\ unsure' = unsure \cup {batch}
    /\ MayClose /\ UNCHANGED <<accepted, log, closing>>

Settle ==
    /\ \E batch \in unsure :
          unsure' = unsure \ {batch} /\ log' = log \o batch
    /\ UNCHANGED <<accepted, waiting, closing, closed>>

StartClosing ==
    /\ closing = -1 /\ closing' = accepted
    /\ UNCHANGED <<accepted, waiting, unsure, log, closed>>

(* GiveUp without a message is a stutter, or the closing by itself.        *)
Next == Accept \/ Forward \/ GiveUp \/ Wonder \/ Settle \/ StartClosing

Spec == Init /\ [][Next]_vars

=============================================================================
