-------------------------- MODULE ConversationStops --------------------------
(***************************************************************************)
(* What a user may believe after /cancel.  The bot answers "Stop           *)
(* requested. I'll finish the current network operation, then stop."       *)
(* (crates/jossie-telegram/src/commands.rs 112-120) whenever the chat has  *)
(* a turn, also one that still waits for background work to release the    *)
(* conversation.  The history variable asked remembers those turns.        *)
(***************************************************************************)
EXTENDS ConversationRuns

VARIABLE asked   \* turns for which a stop was requested while they waited

stopVars == <<vars, asked>>

StopsInit == Init /\ asked = {}

\* /cancel reaches the turns of c that are waiting; a turn that ends is forgotten.
StopsNext ==
  /\ Next
  /\ asked' = {f \in Foreground :
       /\ pc'[f] # "idle"
       /\ \/ f \in asked
          \/ /\ Waits(f)
             /\ canceller[ConvOf[f]] = "idle"
             /\ canceller'[ConvOf[f]] = "flagged"}

StopsSpec == StopsInit /\ [][StopsNext]_stopVars

\* A turn that was asked to stop before it had the conversation does not start
\* a network operation afterwards.
StopHonoured == \A f \in asked : pc[f] # "calling"
==============================================================================
