------------------------- MODULE MCConversationStops -------------------------
(* One conversation, a turn and the background work it waits for. *)
EXTENDS ConversationStops

CONSTANT c1

MCConvOf == [w \in Workers |-> c1]
==============================================================================
