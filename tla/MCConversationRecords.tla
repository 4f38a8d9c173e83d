------------------------- MODULE MCConversationRecords -------------------------
(* Instances of ConversationRecords for TLC. *)
EXTENDS ConversationRecordsInvariants, TLC

CONSTANTS d1, d2, d3, w1, w2

Distinct == [d \in Deliveries |-> d]
Symmetry == Permutations(Deliveries) \cup Permutations(Workers)

=============================================================================
