--------------------------- MODULE MCConversation ---------------------------
(* Instances of Conversation for TLC. *)
EXTENDS ConversationInvariants, TLC

CONSTANTS d1, d2, d3, d4, w1, w2

\* Every delivery is a request of its own.
Distinct == [d \in Deliveries |-> d]

\* The last two deliveries are attempts at one request.
Retried == [d \in Deliveries |-> IF d = d3 THEN d2 ELSE d]

Symmetry == Permutations(Deliveries) \cup Permutations(Workers)
WorkerSymmetry == Permutations(Workers)
AllHazards == HazardKinds

=============================================================================
