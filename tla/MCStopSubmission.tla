-------------------------- MODULE MCStopSubmission --------------------------
(***************************************************************************)
(* StopSubmission for TLC.  Workers are interchangeable, and so are cards: *)
(* no action and no property names one of them.                            *)
(***************************************************************************)
EXTENDS StopSubmission, TLC

\* All cards belong to the one cycle that is checked.
SharedCycle == [d \in Card |-> CHOOSE c \in Cycle : TRUE]

Symmetry == Permutations(Worker) \cup Permutations(Card)
=============================================================================
