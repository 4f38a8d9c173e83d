--------------------------- MODULE MCOpenAIAdapter ---------------------------
(* Instances of OpenAIAdapter for TLC. *)
EXTENDS OpenAIAdapter, TLC

CONSTANTS c1, c2, c3

Symmetry == Permutations(Callers)

=============================================================================
