----------------------------- MODULE EventPromise -----------------------------
(***************************************************************************)
(* What the event queue promises of every integration event: it arrives    *)
(* once, the user is told of it at most once and only while it waits, and  *)
(* once it is settled it stays settled.                                    *)
(***************************************************************************)
EXTENDS Naturals

CONSTANT Events
VARIABLES phase, told

promiseVars == <<phase, told>>

Init == phase = [e \in Events |-> "absent"] /\ told = [e \in Events |-> 0]

Arrive(e) ==
  /\ phase[e] = "absent"
  /\ phase' = [phase EXCEPT ![e] = "waiting"]
  /\ UNCHANGED told

\* One notification may cover several events.
Tell(S) ==
  /\ \A e \in S : phase[e] = "waiting" /\ told[e] = 0
  /\ told' = [e \in Events |-> IF e \in S THEN 1 ELSE told[e]]
  /\ UNCHANGED phase

Settle(e) ==
  /\ phase[e] = "waiting"
  /\ phase' = [phase EXCEPT ![e] = "settled"]
  /\ UNCHANGED told

Next == (\E e \in Events : Arrive(e) \/ Settle(e)) \/ (\E S \in SUBSET Events : Tell(S))

Spec == Init /\ [][Next]_promiseVars
===============================================================================
