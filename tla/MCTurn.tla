------------------------------- MODULE MCTurn -------------------------------
(***************************************************************************)
(* TLC instances of TurnProperties.  A batch is one Provider response's    *)
(* tool calls; each set below is chosen for what its run asks.             *)
(***************************************************************************)
EXTENDS TurnProperties

\* One question, one approval, a read before a write - a call that ran, one that
\* waits for the user -, a plan to review, the list of tasks, and a plan that an
\* unknown tool comes before.
ControlBatches == {<<"ask">>, <<"write">>, <<"read", "write">>, <<"plan">>, <<"todo">>, <<"unknown", "plan">>}
=============================================================================
