--------------------------- MODULE ConversationLock ---------------------------
(***************************************************************************)
(* What conversation ownership promises, without saying how it is kept.    *)
(* At most one worker at a time holds a conversation.  A foreground worker *)
(* may reserve a conversation that background work holds; while the        *)
(* reservation stands no other worker is admitted, so the reserver is the  *)
(* next holder unless it gives up.                                         *)
(* ConversationRuns implements this specification.                         *)
(***************************************************************************)

CONSTANTS
  Conversations,  \* conversation ids
  Foreground,     \* workers that own a user's turn
  Background,     \* preemptible workers
  ConvOf          \* the conversation each worker works in

Workers == Foreground \union Background

VARIABLES
  holders,    \* holders[c]: the workers that hold a lease on c
  reservers   \* reservers[c]: the foreground workers with a reservation on c

lockVars == <<holders, reservers>>

Init ==
  /\ holders = [c \in Conversations |-> {}]
  /\ reservers = [c \in Conversations |-> {}]

-------------------------------------------------------------------------------

\* A foreground worker asks for a conversation that is idle or held by
\* background work only, and that nobody else has reserved.
Reserve(f) ==
  LET c == ConvOf[f] IN
  /\ reservers[c] = {}
  /\ holders[c] \intersect Foreground = {}
  /\ reservers' = [reservers EXCEPT ![c] = {f}]
  /\ UNCHANGED holders

\* The reserver becomes the only holder.
EnterReserved(f) ==
  LET c == ConvOf[f] IN
  /\ reservers[c] = {f}
  /\ holders[c] = {}
  /\ holders' = [holders EXCEPT ![c] = {f}]
  /\ UNCHANGED reservers

\* The reservation ends, after the entry or because the reserver gave up.
Unreserve(f) ==
  LET c == ConvOf[f] IN
  /\ reservers[c] = {f}
  /\ reservers' = [reservers EXCEPT ![c] = {}]
  /\ UNCHANGED holders

\* Background work is admitted only to an idle and unreserved conversation.
EnterBackground(b) ==
  LET c == ConvOf[b] IN
  /\ reservers[c] = {}
  /\ holders[c] = {}
  /\ holders' = [holders EXCEPT ![c] = {b}]
  /\ UNCHANGED reservers

Leave(w) ==
  LET c == ConvOf[w] IN
  /\ holders[c] = {w}
  /\ holders' = [holders EXCEPT ![c] = {}]
  /\ UNCHANGED reservers

Next ==
  \/ \E f \in Foreground : Reserve(f) \/ EnterReserved(f) \/ Unreserve(f)
  \/ \E b \in Background : EnterBackground(b)
  \/ \E w \in Workers : Leave(w)

Spec == Init /\ [][Next]_lockVars
===============================================================================
