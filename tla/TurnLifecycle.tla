---------------------------- MODULE TurnLifecycle ----------------------------
(***************************************************************************)
(* What a TurnHandle promises its owner, whatever happens inside: a turn   *)
(* runs or is paused, a pause ends by one answer or by cancellation, and   *)
(* there is one outcome, which is not "completed" once a cancellation was  *)
(* accepted.                                                               *)
(***************************************************************************)
VARIABLES
    phase,      \* running, paused, done
    cancelling, \* a cancellation was accepted
    outcome     \* the turn's result, or "none"

lifecycleVars == <<phase, cancelling, outcome>>

Outcomes == {"completed", "failed", "cancelled"}

Init == phase = "running" /\ cancelling = FALSE /\ outcome = "none"

Pause ==
    /\ phase = "running" /\ ~cancelling
    /\ phase' = "paused"
    /\ UNCHANGED <<cancelling, outcome>>

Resume ==
    /\ phase = "paused"
    /\ phase' = "running"
    /\ UNCHANGED <<cancelling, outcome>>

\* Cancellation ends a pause.
Cancel ==
    /\ phase # "done" /\ ~cancelling
    /\ cancelling' = TRUE
    /\ phase' = "running"
    /\ UNCHANGED outcome

Finish ==
    /\ phase = "running"
    /\ phase' = "done"
    /\ outcome' \in Outcomes
    /\ outcome' = "completed" => ~cancelling
    /\ UNCHANGED cancelling

Next == Pause \/ Resume \/ Cancel \/ Finish
Spec == Init /\ [][Next]_lifecycleVars
=============================================================================
