-------------------------- MODULE EventDeliveryProofs --------------------------
(***************************************************************************)
(* Proofs about the event queue, for all events, groups, failing           *)
(* statements and crashes.                                                 *)
(***************************************************************************)
EXTENDS EventDelivery, TLAPS

\* What the worker has in hand has arrived.
Arrived == \A e \in listed \union batch : status[e] # "absent"

\* Whoever may have been told is marked as being delivered.
TellMarked == \A e \in Events : ~delivering[e] => told[e] = 0

\* Between the mark and the request nobody of the group has been told and nobody
\* is settled; the mark is only taken away when the request did not get through.
GroupUntold ==
  /\ pc \in {"rechecking", "sending"} =>
       \A e \in batch : status[e] = "processing" /\ delivering[e]
  /\ pc \in {"rechecking", "sending", "clearing"} => \A e \in batch : told[e] = 0

\* A row that waits carries no mark of an earlier delivery.
WaitsUnmarked == \A e \in Events : status[e] \in {"absent", "new"} => ~delivering[e]

\* The group is in processing from its claim to its settlement, unmarked until
\* its delivery begins; outside of a group the worker holds nothing.
GroupClaimed ==
  /\ pc \in {"recovering", "idle", "choosing"} => batch = {}
  /\ pc = "claiming" => \A e \in batch \ left : status[e] = "processing" /\ ~delivering[e]
  /\ pc \in {"claimed", "deciding", "starting"} =>
       \A e \in batch : status[e] = "processing" /\ ~delivering[e]
  /\ pc \in {"clearing", "recording"} => \A e \in batch : status[e] = "processing"
  /\ pc = "clearing" => left = batch

\* A loop no statement of which failed settles what it has left, for it puts
\* nothing back that is marked, and has settled the rest.
GroupSettles ==
  faults = 0 /\ pc \in {"marking", "finishing"} =>
    /\ \A e \in left : status[e] = "processing" /\ (outcome[e] = "new" => ~delivering[e])
    /\ \A e \in batch \ left : status[e] # "processing"

IInv ==
  TypeOK /\ Arrived /\ TellMarked /\ GroupUntold /\ WaitsUnmarked /\ GroupClaimed
  /\ GroupSettles /\ ClaimedIsInHand

-------------------------------------------------------------------------------

\* What a loop does to a row keeps its type.
LEMMA ApplyType ==
  ASSUME TypeOK, NEW e \in Events, Apply(e)
  PROVE  /\ status' \in [Events -> {"absent", "new", "processing", "processed", "failed"}]
         /\ delivering' = delivering
         /\ window' \in [Events -> {"unset", "open", "expired"}]
         /\ due' \in [Events -> BOOLEAN]
<1> USE DEF TypeOK
<1>1. CASE outcome[e] \in {"processed", "failed"}
  BY <1>1 DEF Apply
<1>2. CASE outcome[e] = "new" /\ status[e] = "processing" /\ ~delivering[e]
  BY <1>2 DEF Apply
<1>3. CASE outcome[e] = "retry" /\ status[e] = "processing"
  BY <1>3 DEF Apply, Retry
<1>4. CASE ~(\/ outcome[e] \in {"processed", "failed"}
             \/ outcome[e] = "new" /\ status[e] = "processing" /\ ~delivering[e]
             \/ outcome[e] = "retry" /\ status[e] = "processing")
  BY <1>4 DEF Apply, rowVars
<1> QED
  BY <1>1, <1>2, <1>3, <1>4

\* Every step keeps every variable in its type.
LEMMA TypeStep == TypeOK /\ [Next]_vars => TypeOK'
<1> SUFFICES ASSUME TypeOK, [Next]_vars PROVE TypeOK'
  OBVIOUS
<1> USE EventAssumption DEF EventAssumption, TypeOK, rowVars, workVars
<1>1. CASE Tick
  BY <1>1 DEF Tick, Pending, Pcs
<1>2. CASE EndTick
  BY <1>2 DEF EndTick, Pcs
<1>3. CASE Choose
  BY <1>3 DEF Choose, Groups, Pcs
<1>4. ASSUME NEW e \in Events, Claim(e) PROVE TypeOK'
  BY <1>4 DEF Claim, Goto, Pcs
<1>5. ASSUME NEW e \in Events, Settle(e) PROVE TypeOK'
  <2>1. Apply(e) /\ UNCHANGED <<told, faults, crashes>>
    BY <1>5 DEF Settle
  <2>2. CASE Leave
    BY <2>1, <2>2, ApplyType DEF Leave, NoOutcome, Outcomes, Pcs
  <2>3. CASE left' = left \ {e} /\ UNCHANGED <<pc, listed, batch, outcome, telegram>>
    BY <2>1, <2>3, ApplyType
  <2> QED
    BY <1>5, <2>2, <2>3 DEF Settle
<1>6. ASSUME NEW e \in Events, Recover(e) PROVE TypeOK'
  BY <1>6 DEF Recover, Retry
<1>7. CASE Skip
  BY <1>7 DEF Skip, Loop, Goto, Each, Outcomes, Pcs
<1>8. CASE Defer
  BY <1>8 DEF Defer, Loop, Goto, Each, Outcomes, Pcs
<1>9. CASE FailEvaluation
  BY <1>9 DEF FailEvaluation, Loop, Goto, Each, Outcomes, Pcs
<1>10. CASE Notify
  BY <1>10 DEF Notify, Goto, Pcs
<1>11. CASE Current
  BY <1>11 DEF Current, Goto, Pcs
<1>12. CASE Superseded
  BY <1>12 DEF Superseded, Loop, Goto, Each, Outcomes, Pcs
<1>13. CASE BeginDelivery
  BY <1>13 DEF BeginDelivery, Loop, Goto, Each, Outcomes, Pcs
<1>14. CASE Send
  BY <1>14 DEF Send, Reaches, Loop, Goto, Each, Outcomes, Pcs
<1>15. CASE SendUncertain
  BY <1>15 DEF SendUncertain, Reaches, Loop, Goto, Each, Outcomes, Pcs
<1>16. CASE ClearDelivery
  BY <1>16 DEF ClearDelivery, Goto, Pcs
<1>17. CASE Record
  BY <1>17 DEF Record, Loop, Goto, Each, Outcomes, Pcs
<1>18. CASE StartLoop
  BY <1>18 DEF StartLoop, Goto, Pcs
<1>19. CASE ClaimFails
  BY <1>19 DEF ClaimFails, Fault, Leave, NoOutcome, Outcomes, Pcs
<1>20. CASE DeliveryFails
  BY <1>20 DEF DeliveryFails, Fault, Loop, Goto, Each, Outcomes, Pcs
<1>21. CASE FinishFails
  BY <1>21 DEF FinishFails, Fault, Leave, NoOutcome, Outcomes, Pcs
<1>22. CASE Crash
  <2>1. crashes' \in 0..MaxCrashes /\ outcome' \in [Events -> Outcomes]
    BY <1>22 DEF Crash, NoOutcome, Outcomes
  <2>2. pc' \in Pcs /\ telegram' \in BOOLEAN /\ listed' = {} /\ batch' = {} /\ left' = {}
    BY <1>22 DEF Crash, Pcs
  <2>3. UNCHANGED <<status, delivering, window, due, told, faults>>
    BY <1>22 DEF Crash
  <2> QED
    BY <2>1, <2>2, <2>3
<1>23. ASSUME NEW e \in Events, Insert(e) \/ ComesDue(e) \/ Expires(e) PROVE TypeOK'
  BY <1>23 DEF Insert, ComesDue, Expires
<1>24. CASE FailInspection
  BY <1>24 DEF FailInspection, Loop, Goto, Outcomes, Pcs
<1>25. CASE UNCHANGED vars
  BY <1>25 DEF vars
<1> QED
  BY <1>1, <1>2, <1>3, <1>4, <1>5, <1>6, <1>7, <1>8, <1>9, <1>10, <1>11, <1>12, <1>13, <1>14,
     <1>15, <1>16, <1>17, <1>18, <1>19, <1>20, <1>21, <1>22, <1>23, <1>24, <1>25
     DEF Next, WorkerStep, Faults

\* Initially nothing has arrived.
LEMMA InitInv == Init => IInv
<1> SUFFICES ASSUME Init PROVE IInv
  OBVIOUS
<1>1. TypeOK
  <2>1. outcome \in [Events -> Outcomes] /\ told \in [Events -> Nat]
    BY DEF Init, NoOutcome, Outcomes
  <2>2. faults \in 0..MaxFaults /\ crashes \in 0..MaxCrashes
    BY EventAssumption DEF EventAssumption, Init
  <2> QED
    BY <2>1, <2>2 DEF Init, TypeOK, Pcs
<1>2. Arrived /\ TellMarked /\ GroupUntold /\ WaitsUnmarked /\ GroupClaimed
  BY DEF Init, Arrived, TellMarked, GroupUntold, WaitsUnmarked, GroupClaimed
<1>3. GroupSettles /\ ClaimedIsInHand
  BY DEF Init, GroupSettles, ClaimedIsInHand, Abandoned
<1> QED
  BY <1>1, <1>2, <1>3 DEF IInv

\* A loop's statement settles its event, or puts an unmarked one back, or finds
\* one that another statement has settled.
LEMMA ApplyDoes ==
  ASSUME TypeOK, NEW e \in Events, Apply(e)
  PROVE  /\ \A x \in Events \ {e} : status'[x] = status[x]
         /\ status[e] # "absent" => status'[e] # "absent"
         /\ status'[e] = "absent" => status[e] = "absent"
         /\ status'[e] = "new" => status[e] = "new" \/ (status[e] = "processing" /\ ~delivering[e])
         /\ status'[e] = "processing" =>
              status[e] = "processing" /\ outcome[e] = "new" /\ delivering[e]
         /\ status[e] \in {"processed", "failed"} => status'[e] \in {"processed", "failed"}
<1> USE DEF TypeOK, Outcomes
<1>1. CASE outcome[e] \in {"processed", "failed"}
  BY <1>1 DEF Apply
<1>2. CASE outcome[e] = "new" /\ status[e] = "processing" /\ ~delivering[e]
  BY <1>2 DEF Apply
<1>3. CASE outcome[e] = "retry" /\ status[e] = "processing"
  BY <1>3 DEF Apply, Retry
<1>4. CASE ~(\/ outcome[e] \in {"processed", "failed"}
             \/ outcome[e] = "new" /\ status[e] = "processing" /\ ~delivering[e]
             \/ outcome[e] = "retry" /\ status[e] = "processing")
  BY <1>4 DEF Apply, rowVars
<1> QED
  BY <1>1, <1>2, <1>3, <1>4

\* Every step keeps the invariant.
LEMMA InvStep == IInv /\ [Next]_vars => IInv'
<1> SUFFICES ASSUME IInv, [Next]_vars PROVE IInv'
  OBVIOUS
<1> DEFINE Parts == Arrived /\ TellMarked /\ GroupUntold /\ WaitsUnmarked /\ GroupClaimed
                    /\ GroupSettles /\ ClaimedIsInHand
<1>0. TypeOK /\ TypeOK'
  BY TypeStep DEF IInv
<1> SUFFICES Parts'
  BY <1>0 DEF IInv
<1> USE <1>0 DEF IInv, TypeOK, Arrived, TellMarked, GroupUntold, WaitsUnmarked, GroupClaimed,
             GroupSettles, ClaimedIsInHand, Abandoned, rowVars, workVars
<1>1. CASE Tick
  BY <1>1 DEF Tick, Pending
<1>2. CASE EndTick
  BY <1>2 DEF EndTick
<1>3. CASE Choose
  BY <1>3 DEF Choose, Groups
<1>4. ASSUME NEW e \in Events, Claim(e) PROVE Parts'
  BY <1>4 DEF Claim, Goto
<1>5. ASSUME NEW e \in Events, Settle(e) PROVE Parts'
  <2>1. Apply(e) /\ delivering' = delivering /\ UNCHANGED <<told, faults, crashes>>
    BY <1>5, ApplyType DEF Settle
  <2>2. CASE left = {e} /\ Leave
    BY <1>5, <2>1, <2>2, ApplyDoes DEF Settle, Leave
  <2>3. CASE left' = left \ {e} /\ UNCHANGED <<pc, listed, batch, outcome, telegram>>
    BY <1>5, <2>1, <2>3, ApplyDoes DEF Settle
  <2> QED
    BY <1>5, <2>2, <2>3 DEF Settle
<1>6. ASSUME NEW e \in Events, Recover(e) PROVE Parts'
  BY <1>6 DEF Recover, Retry
<1>7. CASE Skip
  BY <1>7 DEF Skip, Loop, Goto, Each
<1>8. CASE Defer
  BY <1>8 DEF Defer, Loop, Goto, Each
<1>9. CASE FailEvaluation
  BY <1>9 DEF FailEvaluation, Loop, Goto, Each
<1>10. CASE Notify
  BY <1>10 DEF Notify, Goto
<1>11. CASE Current
  BY <1>11 DEF Current, Goto
<1>12. CASE Superseded
  BY <1>12 DEF Superseded, Loop, Goto, Each
<1>13. CASE BeginDelivery
  BY <1>13 DEF BeginDelivery, Loop, Goto, Each
<1>14. CASE Send
  BY <1>14 DEF Send, Reaches, Loop, Goto, Each
<1>15. CASE SendUncertain
  BY <1>15 DEF SendUncertain, Reaches, Loop, Goto, Each
<1>16. CASE ClearDelivery
  <2>1. /\ pc = "clearing" /\ pc' = "finishing"
        /\ UNCHANGED <<status, window, due, told, listed, batch, left, outcome, telegram, faults, crashes>>
    BY <1>16 DEF ClearDelivery, Goto
  <2>2. ASSUME NEW e \in batch PROVE status[e] = "processing" /\ told[e] = 0 /\ ~delivering'[e]
    BY <1>16, <2>1, <2>2 DEF ClearDelivery
  <2>3. ASSUME NEW e \in Events \ batch PROVE delivering'[e] = delivering[e]
    BY <1>16, <2>3 DEF ClearDelivery
  <2>4. left = batch
    BY <2>1
  <2> QED
    BY <2>1, <2>2, <2>3, <2>4
<1>17. CASE Record
  BY <1>17 DEF Record, Loop, Goto, Each
<1>18. CASE StartLoop
  BY <1>18 DEF StartLoop, Goto
<1>19. CASE ClaimFails
  BY <1>19 DEF ClaimFails, Fault, Leave
<1>20. CASE DeliveryFails
  BY <1>20 DEF DeliveryFails, Fault, Loop, Goto, Each
<1>21. CASE FinishFails
  BY <1>21 DEF FinishFails, Fault, Leave
<1>22. CASE Crash
  BY <1>22 DEF Crash
<1>23. ASSUME NEW e \in Events, Insert(e) \/ ComesDue(e) \/ Expires(e) PROVE Parts'
  BY <1>23 DEF Insert, ComesDue, Expires
<1>24. CASE FailInspection
  BY <1>24 DEF FailInspection, Loop, Goto
<1>25. CASE UNCHANGED vars
  BY <1>25 DEF vars
<1> QED
  BY <1>1, <1>2, <1>3, <1>4, <1>5, <1>6, <1>7, <1>8, <1>9, <1>10, <1>11, <1>12, <1>13, <1>14,
     <1>15, <1>16, <1>17, <1>18, <1>19, <1>20, <1>21, <1>22, <1>23, <1>24, <1>25
     DEF Next, WorkerStep, Faults

\* TypeOK of EventDelivery: every variable stays in its type.
THEOREM TypeCorrect == Spec => []TypeOK
<1>1. Init => TypeOK
  BY InitInv DEF IInv
<1> QED
  BY <1>1, TypeStep, PTL DEF Spec

\* ClaimedIsInHand of EventDelivery: as long as no statement fails, every event
\* in processing is in the worker's hands, whatever crashes.
THEOREM InHand == Spec => []ClaimedIsInHand
<1>1. IInv => ClaimedIsInHand
  BY DEF IInv
<1> QED
  BY <1>1, InitInv, InvStep, PTL DEF Spec

-------------------------------------------------------------------------------
(* The queue keeps its promise *)

\* The phase of an event in the abstract queue.
Phase == [e \in Events |-> CASE status[e] = "absent" -> "absent"
                             [] status[e] \in {"new", "processing"} -> "waiting"
                             [] OTHER -> "settled"]

\* Statuses that stay in their phase leave the abstract queue alone.
LEMMA PhaseStays ==
  ASSUME TypeOK, TypeOK',
         \A e \in Events : \/ status'[e] = status[e]
                           \/ {status[e], status'[e]} \subseteq {"new", "processing"}
                           \/ {status[e], status'[e]} \subseteq {"processed", "failed"}
  PROVE  Phase' = Phase
BY DEF Phase, TypeOK

\* An event that waited and is settled now.
LEMMA PhaseSettles ==
  ASSUME TypeOK, TypeOK', NEW e \in Events, UNCHANGED told,
         \A x \in Events \ {e} : status'[x] = status[x],
         status[e] \in {"new", "processing"}, status'[e] \in {"processed", "failed"}
  PROVE  Promise!Settle(e)
<1>1. Phase[e] = "waiting" /\ Phase' = [Phase EXCEPT ![e] = "settled"]
  BY DEF Phase, TypeOK
<1> QED
  BY <1>1 DEF Promise!Settle, Phase

\* Every step settles one event, tells one group, lets one event arrive, or is
\* none of the user's concern.
LEMMA PromiseStep == IInv /\ IInv' /\ [Next]_vars => [Promise!Next]_(Promise!promiseVars)
<1> SUFFICES ASSUME IInv, IInv', [Next]_vars PROVE [Promise!Next]_(Promise!promiseVars)
  OBVIOUS
<1>0. TypeOK /\ TypeOK'
  BY DEF IInv
<1> DEFINE Stutters == UNCHANGED <<Phase, told>>
<1>1. ASSUME NEW e \in Events, Insert(e) PROVE Promise!Arrive(e)
  <2>1. Phase[e] = "absent" /\ Phase' = [Phase EXCEPT ![e] = "waiting"]
    BY <1>0, <1>1 DEF Insert, Phase, TypeOK
  <2> QED
    BY <1>1, <2>1 DEF Promise!Arrive, Phase, Insert
<1>2. CASE pc = "sending" /\ Reaches /\ status' = status
  <2>1. \A e \in batch : Phase[e] = "waiting" /\ told[e] = 0
    BY <1>0, <1>2 DEF IInv, GroupUntold, Phase, TypeOK
  <2>2. told' = [e \in Events |-> IF e \in batch THEN 1 ELSE told[e]]
    BY <1>2, <2>1 DEF Reaches
  <2>3. Phase' = Phase
    BY <1>2 DEF Phase
  <2>4. Promise!Tell(batch)
    BY <2>1, <2>2, <2>3 DEF Promise!Tell, Phase
  <2> QED
    BY <1>0, <2>4 DEF Promise!Next, TypeOK
<1>3. ASSUME NEW e \in Events, Settle(e) PROVE Promise!Settle(e) \/ Stutters
  <2>1. e \in batch /\ status[e] # "absent" /\ told' = told /\ Apply(e)
    BY <1>0, <1>3 DEF IInv, Arrived, Settle, TypeOK
  <2>2. CASE status[e] \in {"new", "processing"} /\ status'[e] \in {"processed", "failed"}
    BY <1>0, <2>1, <2>2, ApplyDoes, PhaseSettles
  <2>3. CASE ~(status[e] \in {"new", "processing"} /\ status'[e] \in {"processed", "failed"})
    <3>1. \A x \in Events : \/ status'[x] = status[x]
                            \/ {status[x], status'[x]} \subseteq {"new", "processing"}
                            \/ {status[x], status'[x]} \subseteq {"processed", "failed"}
      BY <1>0, <2>1, <2>3, ApplyDoes DEF TypeOK
    <3> QED
      BY <1>0, <2>1, <3>1, PhaseStays
  <2> QED
    BY <2>2, <2>3
<1>4. ASSUME NEW e \in Events, Recover(e) PROVE Promise!Settle(e) \/ Stutters
  <2>1. /\ status[e] = "processing" /\ status'[e] \in {"new", "failed"} /\ told' = told
        /\ \A x \in Events \ {e} : status'[x] = status[x]
    BY <1>0, <1>4 DEF Recover, Retry, TypeOK
  <2>2. CASE status'[e] = "failed"
    BY <1>0, <2>1, <2>2, PhaseSettles
  <2>3. CASE status'[e] = "new"
    <3>1. Phase' = Phase
      BY <1>0, <2>1, <2>3, PhaseStays
    <3> QED
      BY <2>1, <3>1
  <2> QED
    BY <2>1, <2>2, <2>3
<1>5. ASSUME NEW e \in Events, Claim(e) PROVE Stutters
  <2>1. /\ status[e] = "new" /\ status'[e] = "processing" /\ told' = told
        /\ \A x \in Events \ {e} : status'[x] = status[x]
    BY <1>0, <1>5 DEF Claim, TypeOK
  <2> QED
    BY <1>0, <2>1, PhaseStays
<1>6. CASE status' = status /\ told' = told
  <2>1. Phase' = Phase
    BY <1>6 DEF Phase
  <2> QED
    BY <1>6, <2>1 DEF Promise!promiseVars, Phase
<1>7. Stutters => UNCHANGED Promise!promiseVars
  BY DEF Promise!promiseVars, Phase
<1> QED
  <2>1. CASE \E e \in Events : Insert(e)
    BY <2>1, <1>1 DEF Promise!Next
  <2>2. CASE \E e \in Events : Settle(e)
    BY <2>2, <1>3, <1>7 DEF Promise!Next
  <2>3. CASE \E e \in Events : Recover(e)
    BY <2>3, <1>4, <1>7 DEF Promise!Next
  <2>4. CASE \E e \in Events : Claim(e)
    BY <2>4, <1>5, <1>7
  <2>5. CASE Send \/ SendUncertain
    <3>1. CASE pc = "sending" /\ Reaches /\ status' = status
      BY <3>1, <1>2
    <3>2. CASE status' = status /\ told' = told
      BY <3>2, <1>6
    <3> QED
      BY <2>5, <3>1, <3>2 DEF Send, SendUncertain, rowVars
  <2>6. CASE \/ Tick \/ EndTick \/ Choose \/ Skip \/ Defer \/ FailEvaluation \/ FailInspection
            \/ Notify \/ Current \/ Superseded \/ BeginDelivery \/ ClearDelivery \/ Record \/ StartLoop
            \/ Faults \/ Crash \/ (\E e \in Events : ComesDue(e) \/ Expires(e))
            \/ UNCHANGED vars
    <3>1. status' = status /\ told' = told
      BY <2>6 DEF Tick, EndTick, Choose, Skip, Defer, FailEvaluation, FailInspection,
                  Notify, Current, Superseded, BeginDelivery, ClearDelivery, Record, StartLoop, Faults, ClaimFails,
                  DeliveryFails, FinishFails, Crash, ComesDue, Expires, rowVars, vars
    <3> QED
      BY <3>1, <1>6
  <2> QED
    BY <2>1, <2>2, <2>3, <2>4, <2>5, <2>6 DEF Next, WorkerStep

\* ImplementsPromise of EventDelivery: the queue is an implementation of
\* EventPromise; no event is told twice or taken up again, whatever fails.
THEOREM KeepsPromise == Spec => ImplementsPromise
<1>1. Init => Promise!Init
  BY DEF Init, Promise!Init
<1> QED
  BY <1>1, InitInv, InvStep, PromiseStep, PTL DEF Spec, ImplementsPromise, Promise!Spec
===============================================================================
