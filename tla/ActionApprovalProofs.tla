------------------------- MODULE ActionApprovalProofs -------------------------
(***************************************************************************)
(* Proofs about the approval of actions, for every batch, every number of  *)
(* requests and every number of restarts.                                  *)
(***************************************************************************)
EXTENDS ActionApproval, Integers, Sequences, TLAPS

\* The request is between its claim and the settlement of the action.
Works(d) == decider[d].pc \in {"claimed", "started", "executed", "recorded"}

\* What a request at work has done to its action so far.
WorkDone ==
  \A d \in Deciders : Works(d) =>
    /\ decider[d].action \in Actions
    /\ act[decider[d].action] = "executing"
    /\ decider[d].pc \in {"started", "executed"} => decider[d].approve
    /\ executed[decider[d].action] =
         IF decider[d].approve /\ decider[d].pc \in {"executed", "recorded"} THEN 1 ELSE 0
    /\ answers[decider[d].action] = IF decider[d].pc = "recorded" THEN 1 ELSE 0

\* An action is the work of one request.
OneAtWork ==
  \A d, e \in Deciders :
    Works(d) /\ Works(e) /\ decider[d].action = decider[e].action => d = e

\* Nobody has touched an action that waits.
Untouched ==
  \A a \in Actions : act[a] \in {"none", "pending"} => executed[a] = 0 /\ answers[a] = 0

IInv == TypeOK /\ WorkDone /\ OneAtWork /\ Untouched /\ OutcomeTrue

-------------------------------------------------------------------------------

\* A request moves from one statement to another.
LEMMA RequestMoves ==
  ASSUME decider \in [Deciders -> Requests], NEW d \in Deciders, NEW p \in Pcs
  PROVE  [decider EXCEPT ![d].pc = p] \in [Deciders -> Requests]
BY DEF Requests

\* A count goes up by one.
LEMMA CountsUp ==
  ASSUME NEW f \in [Actions -> Nat], NEW x
  PROVE  [f EXCEPT ![x] = @ + 1] \in [Actions -> Nat]
<1>1. \A y \in Actions : [f EXCEPT ![x] = @ + 1][y] \in Nat
  <2> TAKE y \in Actions
  <2>1. f[y] \in Nat /\ f[y] + 1 \in Nat
    OBVIOUS
  <2> QED
    BY <2>1
<1> QED
  BY <1>1

\* Every action keeps every variable in its type.
LEMMA TypeStep == TypeOK /\ [Next]_vars => TypeOK'
<1> SUFFICES ASSUME TypeOK, [Next]_vars PROVE TypeOK'
  OBVIOUS
<1> USE DEF TypeOK, runVars, actionVars
<1>1. CASE RunStep
  <2>1. CASE \E a \in Actions : Propose(a)
    BY <2>1 DEF Propose, Statuses, Rows
  <2>2. CASE ExecuteOthers
    BY <2>2 DEF ExecuteOthers, Loops, Rows
  <2>3. CASE CheckCancelled
    BY <2>3 DEF CheckCancelled, Loops, Rows
  <2>4. CASE WaitForApproval
    BY <2>4 DEF WaitForApproval, Loops, Rows
  <2>5. CASE FailRun
    BY <2>5 DEF FailRun, Loops
  <2>6. CASE Release
    BY <2>6 DEF Release, Loops
  <2>7. CASE Report
    BY <2>7 DEF Report, Loops, Rows
  <2> QED
    BY <1>1, <2>1, <2>2, <2>3, <2>4, <2>5, <2>6, <2>7 DEF RunStep
<1>2. CASE \E d \in Deciders : DeciderStep(d)
  <2> PICK d \in Deciders : DeciderStep(d)
    BY <1>2
  <2> USE DEF Move
  <2>1. ASSUME NEW a \in Actions, NEW approve \in BOOLEAN, Claim(d, a, approve) PROVE TypeOK'
    BY <2>1 DEF Claim, Requests, Pcs, Statuses
  <2>2. CASE Announce(d)
    <3>1. decider' \in [Deciders -> Requests]
      BY <2>2, RequestMoves DEF Announce, Pcs
    <3> QED
      BY <2>2, <3>1 DEF Announce, Rows
  <2>3. CASE Execute(d)
    <3>1. decider' \in [Deciders -> Requests]
      BY <2>3, RequestMoves DEF Execute, Pcs
    <3>2. executed' \in [Actions -> Nat]
      BY <2>3, CountsUp DEF Execute
    <3> QED
      BY <2>3, <3>1, <3>2 DEF Execute
  <2>4. CASE Record(d)
    <3>1. decider' \in [Deciders -> Requests]
      <4>1. decider' = [decider EXCEPT ![d].pc = "recorded"]
        BY <2>4 DEF Record
      <4> QED
        BY <4>1, RequestMoves DEF Pcs
    <3>2. answers' \in [Actions -> Nat]
      BY <2>4, CountsUp DEF Record
    <3> QED
      BY <2>4, <3>1, <3>2 DEF Record
  <2>5. CASE Resolve(d)
    <3>1. decider' \in [Deciders -> Requests]
      BY <2>5, RequestMoves DEF Resolve, Pcs
    <3>2. act' \in [Actions -> Statuses]
      BY <2>5 DEF Resolve, Statuses, Settled
    <3> QED
      BY <2>5, <3>1, <3>2 DEF Resolve, Rows
  <2>6. CASE ReadBatch(d)
    <3>1. BatchResolved \in BOOLEAN
      BY DEF BatchResolved
    <3>2. decider' \in [Deciders -> Requests]
      BY <2>6, <3>1 DEF ReadBatch, Requests, Pcs
    <3> QED
      BY <2>6, <3>2 DEF ReadBatch
  <2>7. CASE WriteRow(d)
    <3>1. decider' \in [Deciders -> Requests]
      BY <2>7, RequestMoves DEF WriteRow, Pcs
    <3> QED
      BY <2>7, <3>1 DEF WriteRow, Rows
  <2>8. CASE CheckBatch(d)
    <3>1. decider' \in [Deciders -> Requests]
      BY <2>8, RequestMoves DEF CheckBatch, Pcs
    <3> QED
      BY <2>8, <3>1 DEF CheckBatch
  <2>9. CASE StopResume(d)
    <3>1. decider' \in [Deciders -> Requests]
      BY <2>9, RequestMoves DEF StopResume, Pcs
    <3> QED
      BY <2>9, <3>1 DEF StopResume
  <2>10. CASE Resume(d)
    <3>1. decider' \in [Deciders -> Requests]
      BY <2>10, RequestMoves DEF Resume, Pcs
    <3> QED
      BY <2>10, <3>1 DEF Resume
  <2>11. CASE EndResumed(d)
    <3>1. decider' \in [Deciders -> Requests]
      BY <2>11, RequestMoves DEF EndResumed, Pcs
    <3> QED
      BY <2>11, <3>1 DEF EndResumed
  <2>12. CASE Abandon(d)
    <3>1. decider' \in [Deciders -> Requests]
      BY <2>12, RequestMoves DEF Abandon, Pcs
    <3> QED
      BY <2>12, <3>1 DEF Abandon
  <2> QED
    BY <2>1, <2>2, <2>3, <2>4, <2>5, <2>6, <2>7, <2>8, <2>9, <2>10, <2>11, <2>12 DEF DeciderStep
<1>3. CASE CancelRun
  BY <1>3 DEF CancelRun
<1>4. CASE StopRun
  BY <1>4 DEF StopRun, Statuses, Settled, Rows
<1>5. CASE Watchdog
  BY <1>5 DEF Watchdog, Rows
<1>6. CASE Restart
  <2>1. decider' \in [Deciders -> Requests]
    BY <1>6 DEF Restart, Requests, Pcs
  <2>2. /\ act' \in [Actions -> Statuses]
        /\ answers' \in [Actions -> Nat]
    BY <1>6 DEF Restart, Statuses, Settled
  <2>3. row' \in Rows /\ loop' \in Loops
    BY <1>6 DEF Restart, Rows, Loops
  <2>4. crashes' \in 0..MaxCrashes
    BY <1>6, ApprovalAssumption DEF Restart
  <2> QED
    BY <1>6, <2>1, <2>2, <2>3, <2>4 DEF Restart
<1>7. CASE UNCHANGED vars
  BY <1>7 DEF vars
<1> QED
  BY <1>1, <1>2, <1>3, <1>4, <1>5, <1>6, <1>7 DEF Next

LEMMA TypeInit == Init => TypeOK
<1> SUFFICES ASSUME Init PROVE TypeOK
  OBVIOUS
<1>1. decider \in [Deciders -> Requests]
  BY DEF Init, Idle, Requests, Pcs
<1>2. act \in [Actions -> Statuses] /\ row \in Rows /\ loop \in Loops
  BY DEF Init, Statuses, Rows, Loops
<1>3. answers \in [Actions -> Nat] /\ executed \in [Actions -> Nat]
  BY DEF Init
<1>4. crashes \in 0..MaxCrashes
  BY ApprovalAssumption DEF Init
<1> QED
  BY <1>1, <1>2, <1>3, <1>4 DEF Init, TypeOK

\* The variables keep their types, however many actions, requests and restarts
\* there are.
THEOREM TypeCorrect == Spec => []TypeOK
BY TypeInit, TypeStep, PTL DEF Spec

-------------------------------------------------------------------------------

\* A step that leaves the actions alone, and the requests at work where they are
\* or lets them end, disturbs nothing.
LEMMA Harmless ==
  ASSUME IInv, TypeOK', UNCHANGED actionVars,
         \A d \in Deciders : Works(d)' => decider'[d] = decider[d]
  PROVE  IInv'
BY DEF IInv, WorkDone, OneAtWork, Untouched, OutcomeTrue, Works, actionVars

\* The steps of a request, one statement each.
LEMMA DeciderInductive ==
  ASSUME IInv, TypeOK', NEW d \in Deciders, DeciderStep(d)
  PROVE  IInv'
<1> USE DEF IInv, TypeOK, WorkDone, OneAtWork, Untouched, OutcomeTrue, Works,
            Move, runVars, actionVars
<1>1. ASSUME NEW a \in Actions, NEW approve \in BOOLEAN, Claim(d, a, approve) PROVE IInv'
  BY <1>1 DEF Claim, Idle
<1>2. CASE Announce(d)
  BY <1>2 DEF Announce
<1>3. CASE Execute(d)
  BY <1>3 DEF Execute
<1>4. CASE Record(d)
  <2>1. decider' = [decider EXCEPT ![d].pc = "recorded"]
    BY <1>4 DEF Record
  <2>2. \A e \in Deciders \ {d} : Works(e) => decider[e].action # decider[d].action
    BY <1>4 DEF Record
  <2> QED
    BY <1>4, <2>1, <2>2 DEF Record
<1>5. CASE Resolve(d)
  BY <1>5 DEF Resolve
<1>6. CASE ReadBatch(d) \/ WriteRow(d) \/ CheckBatch(d) \/ StopResume(d) \/ Resume(d)
           \/ EndResumed(d) \/ Abandon(d)
  <2>1. UNCHANGED actionVars
    BY <1>6 DEF ReadBatch, WriteRow, CheckBatch, StopResume, Resume, EndResumed, Abandon
  <2> DEFINE MovesOn ==
        /\ decider'[d].pc \notin {"claimed", "started", "executed", "recorded"}
        /\ \A e \in Deciders : e # d => decider'[e] = decider[e]
  <2>2. CASE ReadBatch(d)
    <3>1. MovesOn
      BY <2>2 DEF ReadBatch, Requests
    <3> QED
      BY <2>1, <3>1, Harmless
  <2>3. CASE WriteRow(d)
    <3>1. MovesOn
      BY <2>3 DEF WriteRow, Requests
    <3> QED
      BY <2>1, <3>1, Harmless
  <2>4. CASE CheckBatch(d) \/ StopResume(d)
    <3>1. MovesOn
      BY <2>4 DEF CheckBatch, StopResume, Requests
    <3> QED
      BY <2>1, <3>1, Harmless
  <2>5. CASE Resume(d) \/ EndResumed(d)
    <3>1. \/ decider' = [decider EXCEPT ![d].pc = "busy"]
          \/ decider' = [decider EXCEPT ![d].pc = "running"]
          \/ decider' = [decider EXCEPT ![d].pc = "resumed"]
      BY <2>5 DEF Resume, EndResumed
    <3>2. MovesOn
      BY <3>1 DEF Requests
    <3> QED
      BY <2>1, <3>2, Harmless
  <2>6. CASE Abandon(d)
    <3>1. MovesOn
      BY <2>6 DEF Abandon, Requests
    <3> QED
      BY <2>1, <3>1, Harmless
  <2> QED
    BY <1>6, <2>2, <2>3, <2>4, <2>5, <2>6
<1> QED
  BY <1>1, <1>2, <1>3, <1>4, <1>5, <1>6 DEF DeciderStep

\* The claim is what makes a request the only one at work on its action: whoever
\* claims found the action pending, hence untouched, and only the request at work
\* or a restart, which ends every request, moves an action out of 'executing'.
LEMMA Inductive == IInv /\ [Next]_vars => IInv'
<1> SUFFICES ASSUME IInv, [Next]_vars PROVE IInv'
  OBVIOUS
<1>0. TypeOK'
  BY TypeStep DEF IInv
<1>1. CASE \E a \in Actions : Propose(a)
  BY <1>0, <1>1 DEF IInv, TypeOK, WorkDone, OneAtWork, Untouched, OutcomeTrue, Works, Propose
<1>2. CASE ExecuteOthers \/ CheckCancelled \/ WaitForApproval \/ FailRun \/ Release \/ Report
  BY <1>0, <1>2, Harmless
  DEF ExecuteOthers, CheckCancelled, WaitForApproval, FailRun, Release, Report, actionVars
<1>3. CASE \E d \in Deciders : DeciderStep(d)
  BY <1>0, <1>3, DeciderInductive
<1>4. CASE CancelRun \/ Watchdog
  BY <1>0, <1>4, Harmless DEF CancelRun, Watchdog, actionVars
<1>5. CASE StopRun
  BY <1>0, <1>5 DEF IInv, TypeOK, WorkDone, OneAtWork, Untouched, OutcomeTrue, Works, StopRun
<1>6. CASE Restart
  <2>1. \A d \in Deciders : ~Works(d)'
    BY <1>6 DEF Restart, Works, Alive, IInv, TypeOK
  <2> QED
    BY <1>0, <1>6, <2>1 DEF IInv, TypeOK, WorkDone, OneAtWork, Untouched, OutcomeTrue, Restart
<1>7. CASE UNCHANGED vars
  BY <1>0, <1>7, Harmless DEF vars, actionVars
<1> QED
  BY <1>1, <1>2, <1>3, <1>4, <1>5, <1>6, <1>7 DEF Next, RunStep

\* The invariant holds in every state.
LEMMA Invariance == Spec => []IInv
<1>1. ASSUME Init PROVE WorkDone /\ OneAtWork /\ Untouched /\ OutcomeTrue
  BY <1>1 DEF Init, WorkDone, OneAtWork, Untouched, OutcomeTrue, Works, Idle
<1>2. Init => IInv
  BY <1>1, TypeInit DEF IInv
<1> QED
  BY <1>2, Inductive, PTL DEF Spec

\* However many requests decide an action, and however often the server restarts
\* in the middle, the external system sees it at most once and the store tells
\* the truth about it.
THEOREM Outcome == Spec => []OutcomeTrue
<1>1. IInv => OutcomeTrue
  BY DEF IInv
<1> QED
  BY <1>1, Invariance, PTL

-------------------------------------------------------------------------------

\* resolve_pending_action does not look at the status it overwrites; the request
\* that calls it still holds the claim of the action.
LEMMA SettledStep ==
  IInv /\ [Next]_vars => [\A a \in Actions : act[a] \in Settled => act'[a] = act[a]]_vars
<1> SUFFICES ASSUME IInv, Next, NEW a \in Actions, act[a] \in Settled
             PROVE  act'[a] = act[a]
  OBVIOUS
<1> USE DEF IInv, TypeOK, Settled
<1>1. CASE RunStep
  BY <1>1 DEF RunStep, Propose, ExecuteOthers, CheckCancelled, WaitForApproval,
              FailRun, Release, Report, actionVars
<1>2. CASE \E d \in Deciders : DeciderStep(d)
  <2> PICK d \in Deciders : DeciderStep(d)
    BY <1>2
  <2>1. ASSUME NEW b \in Actions, NEW approve \in BOOLEAN, Claim(d, b, approve)
        PROVE  act'[a] = act[a]
    BY <2>1 DEF Claim
  <2>2. CASE Resolve(d)
    BY <2>2 DEF Resolve, Move, WorkDone, Works
  <2>3. CASE Announce(d) \/ Execute(d) \/ Record(d) \/ ReadBatch(d) \/ WriteRow(d)
             \/ CheckBatch(d) \/ StopResume(d) \/ Resume(d) \/ EndResumed(d) \/ Abandon(d)
    BY <2>3 DEF Announce, Execute, Record, ReadBatch, WriteRow, CheckBatch, StopResume,
                Resume, EndResumed, Abandon, actionVars
  <2> QED
    BY <2>1, <2>2, <2>3 DEF DeciderStep
<1>3. CASE CancelRun \/ Watchdog
  BY <1>3 DEF CancelRun, Watchdog, actionVars
<1>4. CASE StopRun
  BY <1>4 DEF StopRun
<1>5. CASE Restart
  BY <1>5 DEF Restart
<1> QED
  BY <1>1, <1>2, <1>3, <1>4, <1>5 DEF Next

\* Once an action is settled its status never changes.
THEOREM SettledStays == Spec => SettledForGood
BY Invariance, SettledStep, PTL DEF Spec, SettledForGood

-------------------------------------------------------------------------------

\* A request that has settled its action stays on its way to the run, unless it
\* ends early or finds the batch open.
Onward(d) == decider[d].pc \in {"resolved", "publishing", "published", "resuming", "running", "resumed", "busy",
                               "abandoned"}
Decided == \A a \in Actions : act[a] \in {"completed", "failed", "rejected"}
LastOnward == Decided => canceller # "idle" \/ \E d \in Deciders : Onward(d)

\* The request that settles the last action reads its batch after that, so it
\* finds it resolved, and so does every other request from then on.
LEMMA LastOnwardStep == TypeOK /\ LastOnward /\ [Next]_vars => LastOnward'
<1> SUFFICES ASSUME TypeOK, LastOnward, [Next]_vars, Decided', canceller' = "idle"
             PROVE  \E d \in Deciders : Onward(d)'
  BY DEF LastOnward
<1> USE DEF runVars, actionVars
<1>t. decider \in [Deciders -> Requests] /\ act \in [Actions -> Statuses]
  BY DEF TypeOK
\* A request is on its way before the step, and the step keeps it there.
<1>k. ASSUME act' = act, canceller' = canceller, \A d \in Deciders : Onward(d) => Onward(d)'
      PROVE  \E d \in Deciders : Onward(d)'
  BY <1>k DEF LastOnward, Decided
<1>1. CASE RunStep
  <2>1. ASSUME NEW a \in Actions, Propose(a) PROVE FALSE
    BY <1>t, <2>1 DEF Propose, Decided
  <2>2. UNCHANGED <<act, canceller, decider>>
    BY <1>1, <2>1 DEF RunStep, ExecuteOthers, CheckCancelled, WaitForApproval, FailRun, Release, Report
  <2> QED
    BY <1>k, <2>2 DEF Onward
<1>2. CASE \E d \in Deciders : DeciderStep(d)
  <2> PICK d \in Deciders : DeciderStep(d)
    BY <1>2
  <2>1. ASSUME NEW a \in Actions, NEW approve \in BOOLEAN, Claim(d, a, approve) PROVE FALSE
    BY <1>t, <2>1 DEF Claim, Decided
  <2>2. CASE Resolve(d)
    BY <1>t, <2>2 DEF Resolve, Move, Onward, Requests
  <2>3. CASE Announce(d) \/ Execute(d) \/ Record(d) \/ WriteRow(d) \/ EndResumed(d)
    <3>1. PICK p \in Pcs : decider' = [decider EXCEPT ![d].pc = p] /\ (Onward(d) => p \in {"published", "resumed"})
      BY <2>3 DEF Announce, Execute, Record, WriteRow, EndResumed, Move, Onward, Pcs
    <3>2. \A e \in Deciders : Onward(e) => Onward(e)'
      BY <1>t, <3>1 DEF Onward, Requests
    <3> QED
      BY <1>k, <2>3, <3>2 DEF Announce, Execute, Record, WriteRow, EndResumed
  <2>4. CASE ReadBatch(d) \/ Resume(d) \/ Abandon(d)
    <3>1. decider'[d].pc \in {"publishing", "busy", "running", "abandoned"}
      BY <1>t, <2>4 DEF ReadBatch, Resume, Abandon, Move, Requests
    <3> QED
      BY <3>1 DEF Onward
  <2>5. CASE CheckBatch(d) \/ StopResume(d)
    <3>1. BatchResolved
      BY <2>5 DEF Decided, BatchResolved, CheckBatch, StopResume
    <3>2. decider'[d].pc = "resuming"
      BY <1>t, <2>5, <3>1 DEF CheckBatch, StopResume, Move, Requests
    <3> QED
      BY <3>2 DEF Onward
  <2> QED
    BY <2>1, <2>2, <2>3, <2>4, <2>5 DEF DeciderStep
<1>3. CASE CancelRun \/ StopRun
  BY <1>3 DEF CancelRun, StopRun
<1>4. CASE Watchdog \/ UNCHANGED vars
  BY <1>k, <1>4 DEF Watchdog, vars, Onward
<1>5. CASE Restart
  <2>1. canceller = "idle" /\ Decided
    BY <1>t, <1>5 DEF Restart, Decided
  <2>2. PICK d \in Deciders : Onward(d)
    BY <2>1 DEF LastOnward
  <2>3. Onward(d)'
    BY <1>t, <1>5, <2>2 DEF Restart, Onward, Alive, Requests
  <2> QED
    BY <2>3
<1> QED
  BY <1>1, <1>2, <1>3, <1>4, <1>5 DEF Next

\* The decisions of one batch, from any number of clients, never wait for each
\* other: when all of it is decided and every request ran to its end, one of
\* them resumed the run or found its conversation in use (actions.rs 53-67,
\* 236-246).
THEOREM LastOneResumes == Spec => []LastDecisionResumes
<1>1. Init => LastOnward
  BY ApprovalAssumption DEF Init, LastOnward, Decided
<1>2. LastOnward => LastDecisionResumes
  BY DEF LastOnward, Decided, LastDecisionResumes, Onward, Alive
<1> QED
  BY <1>1, <1>2, LastOnwardStep, TypeCorrect, PTL DEF Spec
===============================================================================
