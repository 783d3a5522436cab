------------------------- MODULE MCConversationRuns -------------------------
(* A turn, a continuation and an evaluator compete for c1 again and again;   *)
(* the evaluator e2 works in c2, which shares the Notify, so its releases    *)
(* wake the waiters of c1 for nothing.                                       *)
EXTENDS ConversationRuns

CONSTANTS c1, c2, e2

MCConvOf == [w \in Workers |-> IF w = e2 THEN c2 ELSE c1]
=============================================================================
