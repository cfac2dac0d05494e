---------------------------- MODULE MCTurnDriver ----------------------------
(* Instances of TurnDriver for TLC.                                        *)
EXTENDS TurnDriver, TLC

\* The prompts are interchangeable model values.
Symmetry == Permutations(Prompts)

Queueing == {Client(TRUE, {"default", "plan"}, 1)}
Planning == {Client(TRUE, {"plan"}, 1)}

\* Also a client whose prompts overlap: two drivers share the inbox.
AnyClient == Queueing \cup {Client(FALSE, {"default"}, 0)}
=============================================================================
