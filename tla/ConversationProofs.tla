-------------------------- MODULE ConversationProofs --------------------------
(***************************************************************************)
(* Proofs about conversation ownership, for every set of workers and of    *)
(* conversations; about a message on its way to its turn, for any number   *)
(* of clients and retries: how often the turn begins, and what a client    *)
(* that was told "accepted" can rely on; about the summary of a            *)
(* conversation, for any window and any updaters; about an answer of the   *)
(* model, however often it is tried; about memories and relations, for any *)
(* tasks that save and forget them; about the schema they are stored in,   *)
(* wherever a start ends; about the calls of a reply, for every batch;     *)
(* about the plan of a goal, however often it is written anew; and about   *)
(* five of the functions these are built from, for every input: which      *)
(* tools are registered, what a batch is cut to, how edges are paged, when *)
(* a code changes and which lines a stream has.  Three of them are folds   *)
(* of the library over a sequence: such a fold is shown to exist           *)
(* (FoldIsThere), then to be a walk (FoldGoes), of which induction says    *)
(* where it leads.                                                         *)
(***************************************************************************)
EXTENDS
  ConversationRuns, TurnParts, Integers, FiniteSets, SequencesExt, FiniteSetsExt, FiniteSetTheorems,
  WellFoundedInduction, SequenceTheorems, TLAPS

-------------------------------------------------------------------------------
(* Who has the conversation *)

\* Which kind of worker can be where.
KindInv ==
  /\ \A w \in Workers : pc[w] \in WaiterPcs => w \in Foreground
  /\ \A w \in Workers : pc[w] \in {"evaluating", "delivering"} => w \in Evaluators
  /\ \A w \in Workers :
       pc[w] \in {"claimed", "flagCleared", "cleared", "running", "calling",
                  "stopping", "releasing", "unreachable"} => w \in Runners

\* A lease is backed by the entry of its conversation, with the token of the
\* background worker that holds it.
EntryInv ==
  \A w \in Workers : Holds(w) =>
    /\ ConvOf[w] \in active
    /\ token[ConvOf[w]] = IF w \in Background THEN w ELSE NoWorker

\* A waiter is backed by the reservation of its conversation, and is alone.
WaitInv ==
  /\ \A f \in Foreground : Waits(f) => ConvOf[f] \in waiting
  /\ \A f, g \in Foreground :
       f # g /\ ConvOf[f] = ConvOf[g] => ~(Waits(f) /\ Waits(g))

IInv ==
  /\ TypeOK
  /\ KindInv
  /\ EntryInv
  /\ WaitInv
  /\ MutualExclusion
  /\ PreemptionDelivered
  /\ OwnTokenRegistered
  /\ CancellationAssertion

-------------------------------------------------------------------------------

\* Every action keeps every variable in its type.
LEMMA TypeStep == TypeOK /\ [Next]_vars => TypeOK'
<1> USE DEF Holds
<1> SUFFICES ASSUME TypeOK, [Next]_vars PROVE TypeOK'
  OBVIOUS
<1> USE WorkersAssumption, ConvOfAssumption
    DEF TypeOK, Pcs, WaiterPcs, HoldingPcs, Workers, Runners, Background, Goto,
        ownerVars, cancelVars
<1>1. CASE \E b \in Background : ClaimBackground(b)
  BY <1>1 DEF ClaimBackground
<1>2. CASE \E f \in Foreground : ForegroundStep(f)
  <2> PICK f \in Foreground : ForegroundStep(f)
    BY <1>2
  <2>1. CASE StartWaiting(f)
    BY <2>1 DEF StartWaiting
  <2>2. CASE EnableNotified(f)
    BY <2>2 DEF EnableNotified
  <2>3. CASE TryAcquire(f)
    BY <2>3 DEF TryAcquire
  <2>4. CASE WakeUp(f)
    BY <2>4 DEF WakeUp
  <2>5. CASE DropWaiter(f)
    BY <2>5 DEF DropWaiter, NotifyWaiters
  <2>6. CASE AbandonWaiting(f)
    BY <2>6 DEF AbandonWaiting
  <2> QED
    BY <2>1, <2>2, <2>3, <2>4, <2>5, <2>6 DEF ForegroundStep
<1>3. CASE \E w \in Runners : RunStep(w)
  <2> PICK w \in Runners : RunStep(w)
    BY <1>3
  <2>1. CASE ClearFlag(w)
    BY <2>1 DEF ClearFlag
  <2>2. CASE ClearRegistry(w)
    BY <2>2 DEF ClearRegistry
  <2>3. CASE BeginRun(w)
    BY <2>3 DEF BeginRun
  <2>4. CASE StartCall(w)
    BY <2>4 DEF StartCall
  <2>5. CASE FinishCall(w)
    BY <2>5 DEF FinishCall
  <2>6. CASE CallCancelled(w)
    BY <2>6 DEF CallCancelled
  <2>7. CASE ObserveCancel(w)
    BY <2>7 DEF ObserveCancel
  <2>8. CASE FinishRun(w)
    BY <2>8 DEF FinishRun
  <2>9. CASE AbandonLease(w)
    BY <2>9 DEF AbandonLease, DropLease, NotifyWaiters
  <2> QED
    BY <2>1, <2>2, <2>3, <2>4, <2>5, <2>6, <2>7, <2>8, <2>9 DEF RunStep
<1>4. CASE \E e \in Evaluators : EvaluationStep(e)
  BY <1>4 DEF EvaluationStep, EvaluationInterrupted, EvaluationDone, DeliveryDone
<1>5. CASE \E w \in Workers : Release(w)
  BY <1>5 DEF Release, DropLease, NotifyWaiters
<1>6. CASE \E c \in Conversations : RequestCancelFlag(c) \/ RequestCancelToken(c)
  BY <1>6 DEF RequestCancelFlag, RequestCancelToken
<1>7. CASE UNCHANGED vars
  BY <1>7 DEF vars
<1> QED
  BY <1>1, <1>2, <1>3, <1>4, <1>5, <1>6, <1>7 DEF Next

\* The variables keep their types, however many workers and conversations there are.
THEOREM TypeCorrect == Spec => []TypeOK
<1>1. Init => TypeOK
  BY WorkersAssumption DEF Init, TypeOK, Pcs
<1> QED
  BY <1>1, TypeStep, PTL DEF Spec

-------------------------------------------------------------------------------

\* No worker acquires a conversation with an entry, so whoever holds a lease is
\* alone and its own drop is the one that removes the entry: this is what makes
\* the unconditional remove of the code safe.  The other conjuncts follow from
\* it and from the two guards of claim_background.
LEMMA Inductive == IInv /\ [Next]_vars => IInv'
<1> SUFFICES ASSUME IInv, [Next]_vars PROVE IInv'
  OBVIOUS
<1> USE WorkersAssumption, ConvOfAssumption
    DEF IInv, TypeOK, KindInv, EntryInv, WaitInv, MutualExclusion, PreemptionDelivered,
        OwnTokenRegistered, CancellationAssertion, Pcs, WaiterPcs, HoldingPcs, LoopPcs,
        Workers, Runners, Background, Goto, ownerVars, cancelVars, Holds, Waits
<1>0. TypeOK'
  BY TypeStep
<1>1. ASSUME NEW b \in Background, ClaimBackground(b) PROVE IInv'
  <2>1. EntryInv'
    BY <1>0, <1>1 DEF ClaimBackground
  <2>2. MutualExclusion'
    BY <1>0, <1>1 DEF ClaimBackground
  <2>3. PreemptionDelivered'
    BY <1>0, <1>1 DEF ClaimBackground
  <2>4. KindInv' /\ WaitInv' /\ OwnTokenRegistered' /\ CancellationAssertion'
    BY <1>0, <1>1 DEF ClaimBackground
  <2> QED
    BY <1>0, <2>1, <2>2, <2>3, <2>4 DEF IInv
<1>2. ASSUME NEW f \in Foreground, StartWaiting(f) PROVE IInv'
  <2>1. WaitInv'
    BY <1>0, <1>2 DEF StartWaiting
  <2>2. PreemptionDelivered'
    BY <1>0, <1>2 DEF StartWaiting
  <2>3. KindInv' /\ EntryInv' /\ MutualExclusion' /\ OwnTokenRegistered' /\
       CancellationAssertion'
    BY <1>0, <1>2 DEF StartWaiting
  <2> QED
    BY <1>0, <2>1, <2>2, <2>3 DEF IInv
<1>3. ASSUME NEW f \in Foreground, EnableNotified(f) PROVE IInv'
  BY <1>0, <1>3 DEF EnableNotified
<1>4. ASSUME NEW f \in Foreground, TryAcquire(f) PROVE IInv'
  <2>1. EntryInv'
    BY <1>0, <1>4 DEF TryAcquire
  <2>2. MutualExclusion'
    BY <1>0, <1>4 DEF TryAcquire
  <2>3. PreemptionDelivered'
    BY <1>0, <1>4 DEF TryAcquire
  <2>4. KindInv' /\ WaitInv' /\ OwnTokenRegistered' /\ CancellationAssertion'
    BY <1>0, <1>4 DEF TryAcquire
  <2> QED
    BY <1>0, <2>1, <2>2, <2>3, <2>4 DEF IInv
<1>5. ASSUME NEW f \in Foreground, WakeUp(f) PROVE IInv'
  BY <1>0, <1>5 DEF WakeUp
<1>6. ASSUME NEW f \in Foreground, DropWaiter(f) PROVE IInv'
  <2>1. WaitInv'
    BY <1>0, <1>6 DEF DropWaiter
  <2>2. EntryInv'
    BY <1>0, <1>6 DEF DropWaiter
  <2>3. KindInv' /\ MutualExclusion' /\ PreemptionDelivered' /\ OwnTokenRegistered'
       /\ CancellationAssertion'
    BY <1>0, <1>6 DEF DropWaiter
  <2> QED
    BY <1>0, <2>1, <2>2, <2>3 DEF IInv
<1>7. ASSUME NEW f \in Foreground, AbandonWaiting(f) PROVE IInv'
  <2>1. WaitInv'
    BY <1>0, <1>7 DEF AbandonWaiting
  <2>2. EntryInv'
    BY <1>0, <1>7 DEF AbandonWaiting
  <2>3. KindInv' /\ MutualExclusion' /\ PreemptionDelivered' /\ OwnTokenRegistered'
       /\ CancellationAssertion'
    BY <1>0, <1>7 DEF AbandonWaiting
  <2> QED
    BY <1>0, <2>1, <2>2, <2>3 DEF IInv
<1>8. ASSUME NEW w \in Runners, ClearFlag(w) PROVE IInv'
  BY <1>0, <1>8 DEF ClearFlag
<1>9. ASSUME NEW w \in Runners, ClearRegistry(w) PROVE IInv'
  <2>1. OwnTokenRegistered'
    BY <1>0, <1>9 DEF ClearRegistry
  <2>2. KindInv' /\ EntryInv' /\ WaitInv' /\ MutualExclusion' /\
       PreemptionDelivered' /\ CancellationAssertion'
    BY <1>0, <1>9 DEF ClearRegistry
  <2> QED
    BY <1>0, <2>1, <2>2 DEF IInv
<1>10. ASSUME NEW w \in Runners, BeginRun(w) PROVE IInv'
  <2>1. PreemptionDelivered'
    BY <1>0, <1>10 DEF BeginRun
  <2>2. OwnTokenRegistered'
    BY <1>0, <1>10 DEF BeginRun
  <2>3. KindInv' /\ EntryInv' /\ WaitInv' /\ MutualExclusion' /\
       CancellationAssertion'
    BY <1>0, <1>10 DEF BeginRun
  <2> QED
    BY <1>0, <2>1, <2>2, <2>3 DEF IInv
<1>11. ASSUME NEW w \in Runners, StartCall(w) PROVE IInv'
  <2>1. OwnTokenRegistered'
    BY <1>0, <1>11 DEF StartCall
  <2>2. KindInv' /\ EntryInv' /\ WaitInv' /\ MutualExclusion' /\
       PreemptionDelivered' /\ CancellationAssertion'
    BY <1>0, <1>11 DEF StartCall
  <2> QED
    BY <1>0, <2>1, <2>2 DEF IInv
<1>12. ASSUME NEW w \in Runners, FinishCall(w) PROVE IInv'
  BY <1>0, <1>12 DEF FinishCall
<1>13. ASSUME NEW w \in Runners, CallCancelled(w) PROVE IInv'
  <2>1. CancellationAssertion'
    BY <1>0, <1>13 DEF CallCancelled, CancelVisible
  <2>2. KindInv' /\ EntryInv' /\ WaitInv' /\ MutualExclusion' /\
       PreemptionDelivered' /\ OwnTokenRegistered'
    BY <1>0, <1>13 DEF CallCancelled, CancelVisible
  <2> QED
    BY <1>0, <2>1, <2>2 DEF IInv
<1>14. ASSUME NEW w \in Runners, ObserveCancel(w) PROVE IInv'
  BY <1>0, <1>14 DEF ObserveCancel
<1>15. ASSUME NEW w \in Runners, FinishRun(w) PROVE IInv'
  BY <1>0, <1>15 DEF FinishRun
<1>16. ASSUME NEW w \in Runners, AbandonLease(w) PROVE IInv'
  <2>1. EntryInv'
    BY <1>0, <1>16 DEF AbandonLease, DropLease
  <2>2. OwnTokenRegistered'
    BY <1>0, <1>16 DEF AbandonLease, DropLease
  <2>3. KindInv' /\ WaitInv' /\ MutualExclusion' /\ PreemptionDelivered' /\
       CancellationAssertion'
    BY <1>0, <1>16 DEF AbandonLease, DropLease
  <2> QED
    BY <1>0, <2>1, <2>2, <2>3 DEF IInv
<1>17. ASSUME NEW e \in Evaluators, EvaluationInterrupted(e) PROVE IInv'
  BY <1>0, <1>17 DEF EvaluationInterrupted
<1>18. ASSUME NEW e \in Evaluators, EvaluationDone(e) PROVE IInv'
  BY <1>0, <1>18 DEF EvaluationDone
<1>19. ASSUME NEW e \in Evaluators, DeliveryDone(e) PROVE IInv'
  BY <1>0, <1>19 DEF DeliveryDone
<1>20. ASSUME NEW w \in Workers, Release(w) PROVE IInv'
  <2>1. EntryInv'
    BY <1>0, <1>20 DEF Release, DropLease
  <2>2. OwnTokenRegistered'
    BY <1>0, <1>20 DEF Release, DropLease
  <2>3. KindInv' /\ WaitInv' /\ MutualExclusion' /\ PreemptionDelivered' /\
       CancellationAssertion'
    BY <1>0, <1>20 DEF Release, DropLease
  <2> QED
    BY <1>0, <2>1, <2>2, <2>3 DEF IInv
<1>21. ASSUME NEW c \in Conversations, RequestCancelFlag(c) PROVE IInv'
  BY <1>0, <1>21 DEF RequestCancelFlag
<1>22. ASSUME NEW c \in Conversations, RequestCancelToken(c) PROVE IInv'
  BY <1>0, <1>22 DEF RequestCancelToken
<1>23. CASE UNCHANGED vars
  BY <1>23 DEF vars
<1> QED
  BY <1>1, <1>2, <1>3, <1>4, <1>5, <1>6, <1>7, <1>8, <1>9, <1>10, <1>11,
     <1>12, <1>13, <1>14, <1>15, <1>16, <1>17, <1>18, <1>19, <1>20, <1>21,
     <1>22, <1>23
  DEF Next, ForegroundStep, RunStep, EvaluationStep

\* The strengthened invariant holds in every reachable state.
THEOREM Invariance == Spec => []IInv
<1>1. Init => IInv
  BY WorkersAssumption, ConvOfAssumption
  DEF Init, IInv, TypeOK, KindInv, EntryInv, WaitInv, MutualExclusion, PreemptionDelivered,
      OwnTokenRegistered, CancellationAssertion, Pcs, Holds, Waits, HoldingPcs, WaiterPcs,
      LoopPcs, Workers, Runners, Background
<1> QED
  BY <1>1, Inductive, PTL DEF Spec

\* Two workers never hold leases on the same conversation.
THEOREM Exclusion == Spec => []MutualExclusion
<1>1. IInv => MutualExclusion
  BY DEF IInv
<1> QED
  BY <1>1, Invariance, PTL

\* The background worker a turn waits for has been told to stop.
THEOREM Preemption == Spec => []PreemptionDelivered
<1>1. IInv => PreemptionDelivered
  BY DEF IInv
<1> QED
  BY <1>1, Invariance, PTL

\* A stop or a preemption reaches the run that is in the agent loop.
THEOREM TokenRegistered == Spec => []OwnTokenRegistered
<1>1. IInv => OwnTokenRegistered
  BY DEF IInv
<1> QED
  BY <1>1, Invariance, PTL

\* The unreachable!() of the agent loop is never reached.
THEOREM AssertionHolds == Spec => []CancellationAssertion
<1>1. IInv => CancellationAssertion
  BY DEF IInv
<1> QED
  BY <1>1, Invariance, PTL

-------------------------------------------------------------------------------

\* Two functions that differ at one point only are an EXCEPT of each other.
LEMMA PointUpdate ==
  ASSUME NEW S, NEW T, NEW f \in [S -> T], NEW g \in [S -> T], NEW c \in S, NEW v,
         \A d \in S : g[d] = IF d = c THEN v ELSE f[d]
  PROVE  g = [f EXCEPT ![c] = v]
  OBVIOUS

\* The types of the mapped variables, before and after a step.
LEMMA Mapped ==
  /\ Holders \in [Conversations -> SUBSET Workers]
  /\ Holders' \in [Conversations -> SUBSET Workers]
  /\ Reservers \in [Conversations -> SUBSET Foreground]
  /\ Reservers' \in [Conversations -> SUBSET Foreground]
  BY DEF Holders, Reservers

\* Every step is a step of the abstract lock, or leaves holders and waiters alone.
LEMMA LockStep == IInv /\ [Next]_vars => [Lock!Next]_(Lock!lockVars)
<1> SUFFICES ASSUME IInv, [Next]_vars PROVE [Lock!Next]_(Lock!lockVars)
  OBVIOUS
<1> USE WorkersAssumption, ConvOfAssumption
    DEF IInv, TypeOK, KindInv, EntryInv, WaitInv, MutualExclusion, Pcs, WaiterPcs, HoldingPcs,
        Workers, Runners, Background, Goto, ownerVars, cancelVars, Holds, Waits
<1>1. ASSUME NEW b \in Background, ClaimBackground(b) PROVE Lock!EnterBackground(b)
  <2>1. Holders[ConvOf[b]] = {}
    BY <1>1 DEF ClaimBackground, Holders, Reservers
  <2>2. Reservers[ConvOf[b]] = {}
    BY <1>1 DEF ClaimBackground, Holders, Reservers
  <2>3. \A d \in Conversations : Holders'[d] = IF d = ConvOf[b] THEN {b} ELSE Holders[d]
    BY <1>1 DEF ClaimBackground, Holders, Reservers
  <2>4. Reservers' = Reservers
    BY <1>1 DEF ClaimBackground, Holders, Reservers
  <2>5. Holders' = [Holders EXCEPT ![ConvOf[b]] = {b}]
    BY <2>3, Mapped, PointUpdate
  <2> QED
    BY <2>1, <2>2, <2>4, <2>5 DEF Lock!EnterBackground
<1>2. ASSUME NEW f \in Foreground, StartWaiting(f) PROVE Lock!Reserve(f)
  <2>1. Holders[ConvOf[f]] \intersect Foreground = {}
    BY <1>2 DEF StartWaiting, Holders, Reservers
  <2>2. Reservers[ConvOf[f]] = {}
    BY <1>2 DEF StartWaiting, Holders, Reservers
  <2>3. \A d \in Conversations : Reservers'[d] = IF d = ConvOf[f] THEN {f} ELSE Reservers[d]
    BY <1>2 DEF StartWaiting, Holders, Reservers
  <2>4. Holders' = Holders
    BY <1>2 DEF StartWaiting, Holders, Reservers
  <2>5. Reservers' = [Reservers EXCEPT ![ConvOf[f]] = {f}]
    BY <2>3, Mapped, PointUpdate
  <2> QED
    BY <2>1, <2>2, <2>4, <2>5 DEF Lock!Reserve
<1>3. ASSUME NEW f \in Foreground, EnableNotified(f) PROVE UNCHANGED Lock!lockVars
  BY <1>3 DEF EnableNotified, Lock!lockVars, Holders, Reservers
<1>4. ASSUME NEW f \in Foreground, TryAcquire(f) PROVE Lock!EnterReserved(f) \/ UNCHANGED Lock!lockVars
  <2>1. CASE ConvOf[f] \notin active
    <3>1. Holders[ConvOf[f]] = {}
      BY <1>4, <2>1 DEF TryAcquire, Holders, Reservers
    <3>2. Reservers[ConvOf[f]] = {f}
      BY <1>4, <2>1 DEF TryAcquire, Holders, Reservers
    <3>3. \A d \in Conversations : Holders'[d] = IF d = ConvOf[f] THEN {f} ELSE Holders[d]
      BY <1>4, <2>1 DEF TryAcquire, Holders, Reservers
    <3>4. Reservers' = Reservers
      BY <1>4, <2>1 DEF TryAcquire, Holders, Reservers
    <3>5. Holders' = [Holders EXCEPT ![ConvOf[f]] = {f}]
      BY <3>3, Mapped, PointUpdate
    <3> QED
      BY <3>1, <3>2, <3>4, <3>5 DEF Lock!EnterReserved
  <2>2. CASE ConvOf[f] \in active
    BY <1>4, <2>2 DEF TryAcquire, Lock!lockVars, Holders, Reservers
  <2> QED
    BY <2>1, <2>2
<1>5. ASSUME NEW f \in Foreground, WakeUp(f) PROVE UNCHANGED Lock!lockVars
  BY <1>5 DEF WakeUp, Lock!lockVars, Holders, Reservers
<1>6. ASSUME NEW f \in Foreground, DropWaiter(f) PROVE Lock!Unreserve(f)
  <2>1. Reservers[ConvOf[f]] = {f}
    BY <1>6 DEF DropWaiter, Holders, Reservers
  <2>2. \A d \in Conversations : Reservers'[d] = IF d = ConvOf[f] THEN {} ELSE Reservers[d]
    BY <1>6 DEF DropWaiter, Holders, Reservers
  <2>3. Holders' = Holders
    BY <1>6 DEF DropWaiter, Holders, Reservers
  <2>4. Reservers' = [Reservers EXCEPT ![ConvOf[f]] = {}]
    BY <2>2, Mapped, PointUpdate
  <2> QED
    BY <2>1, <2>3, <2>4 DEF Lock!Unreserve
<1>7. ASSUME NEW f \in Foreground, AbandonWaiting(f) PROVE Lock!Unreserve(f)
  <2>1. Reservers[ConvOf[f]] = {f}
    BY <1>7 DEF AbandonWaiting, Holders, Reservers
  <2>2. \A d \in Conversations : Reservers'[d] = IF d = ConvOf[f] THEN {} ELSE Reservers[d]
    BY <1>7 DEF AbandonWaiting, Holders, Reservers
  <2>3. Holders' = Holders
    BY <1>7 DEF AbandonWaiting, Holders, Reservers
  <2>4. Reservers' = [Reservers EXCEPT ![ConvOf[f]] = {}]
    BY <2>2, Mapped, PointUpdate
  <2> QED
    BY <2>1, <2>3, <2>4 DEF Lock!Unreserve
<1>8. ASSUME NEW w \in Runners, ClearFlag(w) PROVE UNCHANGED Lock!lockVars
  BY <1>8 DEF ClearFlag, Lock!lockVars, Holders, Reservers
<1>9. ASSUME NEW w \in Runners, ClearRegistry(w) PROVE UNCHANGED Lock!lockVars
  BY <1>9 DEF ClearRegistry, Lock!lockVars, Holders, Reservers
<1>10. ASSUME NEW w \in Runners, BeginRun(w) PROVE UNCHANGED Lock!lockVars
  BY <1>10 DEF BeginRun, Lock!lockVars, Holders, Reservers
<1>11. ASSUME NEW w \in Runners, StartCall(w) PROVE UNCHANGED Lock!lockVars
  BY <1>11 DEF StartCall, Lock!lockVars, Holders, Reservers
<1>12. ASSUME NEW w \in Runners, FinishCall(w) PROVE UNCHANGED Lock!lockVars
  BY <1>12 DEF FinishCall, Lock!lockVars, Holders, Reservers
<1>13. ASSUME NEW w \in Runners, CallCancelled(w) PROVE UNCHANGED Lock!lockVars
  BY <1>13 DEF CallCancelled, CancelVisible, Lock!lockVars, Holders, Reservers
<1>14. ASSUME NEW w \in Runners, ObserveCancel(w) PROVE UNCHANGED Lock!lockVars
  BY <1>14 DEF ObserveCancel, Lock!lockVars, Holders, Reservers
<1>15. ASSUME NEW w \in Runners, FinishRun(w) PROVE UNCHANGED Lock!lockVars
  BY <1>15 DEF FinishRun, Lock!lockVars, Holders, Reservers
<1>16. ASSUME NEW w \in Runners, AbandonLease(w) PROVE Lock!Leave(w)
  <2>1. Holders[ConvOf[w]] = {w}
    BY <1>16 DEF AbandonLease, DropLease, Holders, Reservers
  <2>2. \A d \in Conversations : Holders'[d] = IF d = ConvOf[w] THEN {} ELSE Holders[d]
    BY <1>16 DEF AbandonLease, DropLease, Holders, Reservers
  <2>3. Reservers' = Reservers
    BY <1>16 DEF AbandonLease, DropLease, Holders, Reservers
  <2>4. Holders' = [Holders EXCEPT ![ConvOf[w]] = {}]
    BY <2>2, Mapped, PointUpdate
  <2> QED
    BY <2>1, <2>3, <2>4 DEF Lock!Leave
<1>17. ASSUME NEW e \in Evaluators, EvaluationInterrupted(e) PROVE UNCHANGED Lock!lockVars
  BY <1>17 DEF EvaluationInterrupted, Lock!lockVars, Holders, Reservers
<1>18. ASSUME NEW e \in Evaluators, EvaluationDone(e) PROVE UNCHANGED Lock!lockVars
  BY <1>18 DEF EvaluationDone, Lock!lockVars, Holders, Reservers
<1>19. ASSUME NEW e \in Evaluators, DeliveryDone(e) PROVE UNCHANGED Lock!lockVars
  BY <1>19 DEF DeliveryDone, Lock!lockVars, Holders, Reservers
<1>20. ASSUME NEW w \in Workers, Release(w) PROVE Lock!Leave(w)
  <2>1. Holders[ConvOf[w]] = {w}
    BY <1>20 DEF Release, DropLease, Holders, Reservers
  <2>2. \A d \in Conversations : Holders'[d] = IF d = ConvOf[w] THEN {} ELSE Holders[d]
    BY <1>20 DEF Release, DropLease, Holders, Reservers
  <2>3. Reservers' = Reservers
    BY <1>20 DEF Release, DropLease, Holders, Reservers
  <2>4. Holders' = [Holders EXCEPT ![ConvOf[w]] = {}]
    BY <2>2, Mapped, PointUpdate
  <2> QED
    BY <2>1, <2>3, <2>4 DEF Lock!Leave
<1>21. ASSUME NEW c \in Conversations, RequestCancelFlag(c) PROVE UNCHANGED Lock!lockVars
  BY <1>21 DEF RequestCancelFlag, Lock!lockVars, Holders, Reservers
<1>22. ASSUME NEW c \in Conversations, RequestCancelToken(c) PROVE UNCHANGED Lock!lockVars
  BY <1>22 DEF RequestCancelToken, Lock!lockVars, Holders, Reservers
<1>23. CASE UNCHANGED vars
  BY <1>23 DEF vars, Lock!lockVars, Holders, Reservers
<1> QED
  BY <1>1, <1>2, <1>3, <1>4, <1>5, <1>6, <1>7, <1>8, <1>9, <1>10, <1>11,
     <1>12, <1>13, <1>14, <1>15, <1>16, <1>17, <1>18, <1>19, <1>20, <1>21,
     <1>22, <1>23
  DEF Next, ForegroundStep, RunStep, EvaluationStep, Lock!Next, Lock!Workers

\* The ownership protocol implements the abstract lock.
THEOREM Refinement == Spec => ImplementsLock
<1>1. Init => Lock!Init
  BY DEF Init, Lock!Init, Holders, Reservers, Holds, Waits, HoldingPcs, WaiterPcs, Workers
<1> QED
  BY <1>1, LockStep, Invariance, PTL DEF Spec, ImplementsLock, Lock!Spec

-------------------------------------------------------------------------------
(* A message and its turn *)

Steps == {"idle", "look", "list", "decide", "save", "find", "create", "claim", "post", "wait"}
RunStatuses == {"none", "queued", "running", "waiting_for_approval", "completed", "failed", "interrupted"}

ChatShape ==
  /\ at \in [Clients -> Steps]
  /\ DOMAIN reply = Clients
  /\ holder \in Clients \union {"none", "turn", "ending", "other", "continuation"}
  /\ runRow \in RunStatuses
  /\ kept \in {"none", "available", "claimed", "consumed"}
  /\ spawned \in {0, 1}
  /\ history \in [turns : Nat, posts : Nat, deferrals : Nat]
  /\ trouble \in [faults : Nat, crashes : Nat]

\* The run of the message has one turn, spawned or at work, and one that shows as running has it.
OneTurn ==
  /\ spawned = 1 => runRow \in {"running", "completed"} /\ holder # "turn"
  /\ holder = "turn" => runRow = "running"
  /\ runRow = "running" => spawned = 1 \/ holder = "turn"

\* A run that is queued, or not there yet, has a turn to come.
ToCome == IF runRow \in {"none", "queued"} THEN 1 ELSE 0
Counted == history.turns + spawned + ToCome <= 1 + history.posts + history.deferrals + trouble.crashes

\* A handler past the look-up handles the message that is stored.
Looked ==
  \A c \in Clients : at[c] \in {"find", "create", "claim"} =>
    /\ c \in Sockets /\ stored = Content[c]
    /\ at[c] = "claim" => runRow # "none"

\* Until the run is claimed for the first time nobody is told that the message was accepted.
Unclaimed == runRow = "none" \/ (runRow = "queued" /\ kept = "none")
Accepted ==
  \A c \in Sockets : reply[c] = "accepted" => stored = Content[c] /\ ~Unclaimed

ChatInv == ChatShape /\ OneTurn /\ Counted /\ Looked /\ Accepted

-------------------------------------------------------------------------------

\* The steps of a handler, and those of turns, other work and the server.
LEMMA ShapeStep ==
  ASSUME Chat!ChatAssumption, ChatShape, OneTurn, [Chat!Next]_(Chat!chatVars) PROVE ChatShape' /\ OneTurn'
<1> USE DEF Chat!ChatAssumption, ChatShape, OneTurn, Steps, RunStatuses
<1>1. ASSUME NEW c \in Clients,
             \/ Chat!Send(c) \/ Chat!Look(c) \/ Chat!List(c) \/ Chat!Decide(c)
             \/ Chat!Save(c) \/ Chat!Find(c) \/ Chat!RequestFails(c)
      PROVE  ChatShape' /\ OneTurn'
  BY <1>1 DEF Chat!Send, Chat!Look, Chat!List, Chat!Decide, Chat!Save, Chat!Find, Chat!RequestFails,
              Chat!Goes, Chat!Respond, Chat!NoTurn, Chat!Suffers
<1>2. ASSUME NEW c \in Clients, Chat!Create(c) \/ Chat!ClaimRun(c) PROVE ChatShape' /\ OneTurn'
  BY <1>2 DEF Chat!Create, Chat!ClaimRun, Chat!Goes, Chat!Respond
<1>3. ASSUME NEW c \in Clients, Chat!Post(c) \/ Chat!PostEnds(c) PROVE ChatShape' /\ OneTurn'
  <2>1. at' \in [Clients -> Steps] /\ DOMAIN reply' = Clients
    BY <1>3 DEF Chat!Post, Chat!PostEnds, Chat!Goes, Chat!Respond
  <2>2. history' \in [turns : Nat, posts : Nat, deferrals : Nat]
    <3>1. history' = history \/ history' = [history EXCEPT !.turns = @ + 1, !.posts = @ + 1]
      BY <1>3 DEF Chat!Post, Chat!PostEnds
    <3>2. history.turns + 1 \in Nat /\ history.posts + 1 \in Nat
      OBVIOUS
    <3> QED
      BY <3>1, <3>2, Zenon
  <2>4. trouble' \in [faults : Nat, crashes : Nat]
    BY <1>3 DEF Chat!Post, Chat!PostEnds, Chat!Suffers
  <2>5. c \in Clients \union {"none"} /\ c # "turn"
    OBVIOUS
  <2>3. holder' = holder \/ (holder \in {"none", c} /\ holder' \in {"none", c})
    <3>1. CASE Chat!Post(c)
      BY <3>1 DEF Chat!Post
    <3>2. CASE Chat!PostEnds(c)
      BY <3>2 DEF Chat!PostEnds
    <3> QED
      BY <1>3, <3>1, <3>2
  <2>6. UNCHANGED <<runRow, spawned, kept>>
    BY <1>3 DEF Chat!Post, Chat!PostEnds
  <2>7. ChatShape'
    BY <2>1, <2>2, <2>3, <2>4, <2>5, <2>6
  <2> QED
    BY <2>3, <2>5, <2>6, <2>7
<1>4. CASE Chat!Begin \/ \E s \in {"completed", "failed", "waiting_for_approval", "queued"} : Chat!Settle(s)
  BY <1>4 DEF Chat!Begin, Chat!Settle, Chat!Counts, Chat!NoRequest
<1>5. CASE Chat!Release \/ Chat!Other \/ Chat!Continue \/ Chat!Continued
  BY <1>5 DEF Chat!Release, Chat!Other, Chat!Continue, Chat!Continued, Chat!NoRequest
<1>6. CASE Chat!Crash
  BY <1>6 DEF Chat!Crash, Chat!Suffers
<1>7. CASE UNCHANGED Chat!chatVars
  BY <1>7 DEF Chat!chatVars
<1> QED
  BY <1>1, <1>2, <1>3, <1>4, <1>5, <1>6, <1>7 DEF Chat!Next, Chat!Handle, Chat!Turn

LEMMA CountedStep == ASSUME ChatShape, OneTurn, Counted, [Chat!Next]_(Chat!chatVars) PROVE Counted'
<1> USE DEF ChatShape, Counted, ToCome
<1>1. ASSUME NEW c \in Clients,
             \/ Chat!Send(c) \/ Chat!Look(c) \/ Chat!List(c) \/ Chat!Decide(c)
             \/ Chat!Save(c) \/ Chat!Find(c) \/ Chat!RequestFails(c)
      PROVE  Counted'
  BY <1>1 DEF Chat!Send, Chat!Look, Chat!List, Chat!Decide, Chat!Save, Chat!Find, Chat!RequestFails,
              Chat!Goes, Chat!Respond, Chat!NoTurn, Chat!Suffers
<1>2. ASSUME NEW c \in Clients, Chat!Create(c) \/ Chat!ClaimRun(c) PROVE Counted'
  BY <1>2 DEF Chat!Create, Chat!ClaimRun, Chat!Goes, Chat!Respond
<1>3. ASSUME NEW c \in Clients, Chat!Post(c) \/ Chat!PostEnds(c) PROVE Counted'
  <2>1. \/ history' = history
        \/ /\ history'.turns = history.turns + 1 /\ history'.posts = history.posts + 1
           /\ history'.deferrals = history.deferrals
    BY <1>3 DEF Chat!Post, Chat!PostEnds
  <2>2. UNCHANGED <<runRow, spawned>> /\ trouble'.crashes = trouble.crashes
    BY <1>3 DEF Chat!Post, Chat!PostEnds, Chat!Suffers
  <2> QED
    BY <2>1, <2>2
<1>4. CASE Chat!Begin \/ \E s \in {"completed", "failed", "waiting_for_approval", "queued"} : Chat!Settle(s)
  BY <1>4 DEF Chat!Begin, Chat!Settle, Chat!Counts, Chat!NoRequest, OneTurn
<1>5. CASE Chat!Release \/ Chat!Other \/ Chat!Continue \/ Chat!Continued
  BY <1>5 DEF Chat!Release, Chat!Other, Chat!Continue, Chat!Continued, Chat!NoRequest
<1>6. CASE Chat!Crash
  BY <1>6 DEF Chat!Crash, Chat!Suffers
<1>7. CASE UNCHANGED Chat!chatVars
  BY <1>7 DEF Chat!chatVars
<1> QED
  BY <1>1, <1>2, <1>3, <1>4, <1>5, <1>6, <1>7 DEF Chat!Next, Chat!Handle, Chat!Turn

LEMMA AcceptedStep ==
  ASSUME Chat!ChatAssumption, ChatShape, OneTurn, Looked, Accepted, [Chat!Next]_(Chat!chatVars) PROVE Looked' /\ Accepted'
<1> USE DEF Chat!ChatAssumption, ChatShape, Looked, Accepted, Unclaimed, Steps
<1>1. ASSUME NEW c \in Clients,
             Chat!Send(c) \/ Chat!Look(c) \/ Chat!List(c) \/ Chat!Decide(c) \/ Chat!RequestFails(c)
      PROVE  Looked' /\ Accepted'
  BY <1>1 DEF Chat!Send, Chat!Look, Chat!List, Chat!Decide, Chat!RequestFails, Chat!Goes, Chat!Respond,
              Chat!NoTurn, Chat!Suffers
<1>2. ASSUME NEW c \in Clients, Chat!Save(c) \/ Chat!Find(c) PROVE Looked' /\ Accepted'
  BY <1>2 DEF Chat!Save, Chat!Find, Chat!Goes, Chat!Respond, Chat!NoTurn
<1>3. ASSUME NEW c \in Clients, Chat!Create(c) \/ Chat!ClaimRun(c) PROVE Looked' /\ Accepted'
  BY <1>3 DEF Chat!Create, Chat!ClaimRun, Chat!Goes, Chat!Respond
<1>4. ASSUME NEW c \in Clients, Chat!Post(c) \/ Chat!PostEnds(c) PROVE Looked' /\ Accepted'
  BY <1>4 DEF Chat!Post, Chat!PostEnds, Chat!Goes, Chat!Respond
<1>5. CASE Chat!Begin \/ \E s \in {"completed", "failed", "waiting_for_approval", "queued"} : Chat!Settle(s)
  BY <1>5 DEF Chat!Begin, Chat!Settle, Chat!Counts, Chat!NoRequest, OneTurn
<1>6. CASE Chat!Release \/ Chat!Other \/ Chat!Continue \/ Chat!Continued
  BY <1>6 DEF Chat!Release, Chat!Other, Chat!Continue, Chat!Continued, Chat!NoRequest
<1>7. CASE Chat!Crash
  BY <1>7 DEF Chat!Crash
<1>8. CASE UNCHANGED Chat!chatVars
  BY <1>8 DEF Chat!chatVars
<1> QED
  BY <1>1, <1>2, <1>3, <1>4, <1>5, <1>6, <1>7, <1>8 DEF Chat!Next, Chat!Handle, Chat!Turn

\* The strengthening of the invariants below.
LEMMA ChatInductive == Chat!ChatAssumption /\ Chat!Spec => []ChatInv
<1> SUFFICES ASSUME Chat!ChatAssumption PROVE Chat!Spec => []ChatInv
  OBVIOUS
<1>1. Chat!Init => ChatInv
  BY DEF Chat!ChatAssumption, Chat!Init, ChatInv, ChatShape, OneTurn, Counted, ToCome, Looked, Accepted,
         Unclaimed, Steps, RunStatuses
<1>2. ChatInv /\ [Chat!Next]_(Chat!chatVars) => ChatInv'
  BY ShapeStep, CountedStep, AcceptedStep DEF ChatInv
<1> QED
  BY <1>1, <1>2, PTL DEF Chat!Spec

\* Every reachable state of a message is well typed, once it has one turn that waits at most.
THEOREM ChatTyped == Chat!ChatAssumption /\ Chat!Spec => []Chat!TypeOK
<1>1. ChatInv => Chat!TypeOK
  BY DEF ChatInv, ChatShape, Steps, RunStatuses, Chat!TypeOK
<1> QED
  BY <1>1, ChatInductive, PTL

\* However many clients send a message however often, its turn begins once, and once more only
\* for a POST and for every time its run was queued again; whoever was told that it was
\* accepted finds it stored and its run at work, settled, or queued with its checkpoint
\* (handlers/chat.rs 279-453, work.rs 449-466).
THEOREM MessageIsKept == Chat!ChatAssumption /\ Chat!Spec => []Chat!ChatKept
<1> SUFFICES ASSUME Chat!ChatAssumption PROVE Chat!Spec => []Chat!ChatKept
  OBVIOUS
<1>1. ChatInv => Chat!ChatKept
  <2> SUFFICES ASSUME ChatInv PROVE Chat!ChatKept
    OBVIOUS
  <2> USE DEF ChatInv, ChatShape
  <2>1. Chat!BegunOnce
    BY DEF Counted, ToCome, Chat!BegunOnce
  <2>2. Chat!AcceptedIsKept
    BY DEF Accepted, Unclaimed, OneTurn, RunStatuses, Chat!AcceptedIsKept
  <2> QED
    BY <2>1, <2>2 DEF Chat!ChatKept
<1>2. Chat!Spec => []ChatInv
  BY ChatInductive
<1> QED
  BY <1>1, <1>2, PTL

-------------------------------------------------------------------------------
(* The summary of a conversation *)

\* A summary, and what a task or a run has of it.
Summaries == [covers : SUBSET Int, upto : Nat, count : Int, exists : BOOLEAN]
Places == {"rest", "read", "ask", "shown"}
Readings == [at : Places, seen : Summaries, part : SUBSET Int, lost : SUBSET Int]

SummaryShape ==
  /\ said \in 0 .. MaxMessages /\ asks \in 0 .. MaxAsks /\ exact \in BOOLEAN
  /\ summary \in Summaries /\ skipped \in SUBSET Int
  /\ updater \in [Updaters -> Readings] /\ reader \in Readings
  /\ \A u \in Updaters : updater[u].at # "shown"

\* All up to its cursor went into it or was skipped, and it counts what its cursor passed.
Honest(s) ==
  /\ 1 .. s.upto \subseteq s.covers \union skipped
  /\ exact => s.count = s.upto

Honesty ==
  /\ Honest(summary)
  /\ \A u \in Updaters : Honest(updater[u].seen)
  /\ Honest(reader.seen)
  /\ exact => skipped = {}

\* What a task folds in begins where its summary ends, without a gap.
Following ==
  \A u \in Updaters : updater[u].at = "ask" =>
    \E e \in Nat : e > updater[u].seen.upto /\ updater[u].part = updater[u].seen.upto + 1 .. e

\* What a run sees are the last messages of the conversation as it was.
Seeing == \E s \in 0 .. said : reader.part = {m \in 1 .. s : m > s - Window}

SummaryInv == SummaryShape /\ Honesty /\ Following /\ Seeing /\ Summed!FewDropped

-------------------------------------------------------------------------------
\* An instance has the library's operators by its own name.
LEMMA SummedLibrary ==
  /\ \A S : Summed!Cardinality(S) = Cardinality(S)
  /\ \A S : Summed!Max(S) = Max(S)
<1>1. \A S : Summed!Cardinality(S) = Cardinality(S)
  BY DEF Cardinality, Summed!Cardinality
<1>2. \A S : Summed!Max(S) = Max(S)
  BY DEF Max, Summed!Max
<1> QED
  BY <1>1, <1>2

LEMMA Least ==
  ASSUME NEW T \in SUBSET Nat, T # {}
  PROVE  \E m \in T : \A k \in T : m <= k
<1> DEFINE R == {p \in Nat \X Nat : p[1] < p[2]}
<1>1. IsWellFoundedOn(R, Nat)
  BY NatLessThanWellFounded DEF OpToRel
<1>2. \A x, y \in T : <<y, x>> \in R <=> y < x
  OBVIOUS
<1> HIDE DEF R
<1>3. PICK x \in T : \A y \in T : ~ (<<y, x>> \in R)
  BY <1>1, WFMin
<1>4. ASSUME NEW k \in T PROVE x <= k
  <2>1. ~ (k < x) /\ k \in Nat /\ x \in Nat
    BY <1>2, <1>3
  <2> QED
    BY <2>1
<1> QED
  BY <1>4

LEMMA Greatest ==
  ASSUME NEW N \in Nat, NEW T \in SUBSET (0 .. N), T # {}
  PROVE  Max(T) \in T /\ \A k \in T : k <= Max(T)
<1> DEFINE D == {N - t : t \in T}
<1>1. D \in SUBSET Nat /\ D # {}
  <2>1. \A t \in T : t \in 0 .. N /\ N - t \in Nat
    OBVIOUS
  <2> QED
    BY <2>1
<1>2. PICK m \in D : \A k \in D : m <= k
  BY <1>1, Least
<1>3. PICK t \in T : m = N - t
  BY <1>2
<1>4. ASSUME NEW k \in T PROVE k <= t
  <2>1. N - k \in D
    OBVIOUS
  <2>2. N - t <= N - k
    BY <2>1, <1>2, <1>3
  <2>3. k \in Nat /\ t \in Nat
    OBVIOUS
  <2> QED
    BY <2>2, <2>3
<1>5. \E x \in T : \A y \in T : x >= y
  BY <1>4
<1> QED
  BY <1>5 DEF Max

\* The cursor is the last message of a part.
LEMMA LastOf ==
  ASSUME NEW N \in Nat, NEW part \in SUBSET (1 .. N)
  PROVE  Summed!Last(part) \in 0 .. N /\ (\A m \in part : m <= Summed!Last(part))
           /\ (Summed!Last(part) # 0 => Summed!Last(part) \in part)
<1>1. part \union {0} \in SUBSET (0 .. N) /\ part \union {0} # {}
  OBVIOUS
<1> QED
  BY <1>1, Greatest, SummedLibrary DEF Summed!Last

LEMMA LastOfInterval ==
  ASSUME NEW a \in Nat, NEW e \in Nat, a < e
  PROVE  Summed!Last(a + 1 .. e) = e
<1>1. a + 1 .. e \in SUBSET (1 .. e) /\ e \in a + 1 .. e
  OBVIOUS
<1>2. Summed!Last(a + 1 .. e) \in 0 .. e /\ e <= Summed!Last(a + 1 .. e)
  BY <1>1, LastOf
<1> QED
  BY <1>2

\* The messages a run sees after which it summarises nothing older than the last of them: the
\* recent ones, and those before.
LEMMA OlderOf ==
  ASSUME Summed!SummaryAssumption, SummaryShape, Seeing
  PROVE  \E s \in 0 .. said :
           /\ reader.part = {m \in 1 .. s : m > s - Window}
           /\ Summed!Older \subseteq 1 .. s /\ Summed!Last(Summed!Older) \in 0 .. said
           /\ \A m \in Summed!Older : m <= s - Keep
<1>1. PICK s \in 0 .. said : reader.part = {m \in 1 .. s : m > s - Window}
  BY DEF Seeing
<1>2. said \in Nat /\ s \in Nat /\ Window \in Nat /\ Keep \in Nat
  BY <1>1 DEF SummaryShape, Summed!SummaryAssumption
<1>3. reader.part \in SUBSET (1 .. s) /\ Summed!Older \in SUBSET (1 .. s)
  BY <1>1 DEF Summed!Older
<1>4. /\ Summed!Last(reader.part) \in 0 .. s /\ (\A m \in reader.part : m <= Summed!Last(reader.part))
      /\ (Summed!Last(reader.part) # 0 => Summed!Last(reader.part) \in reader.part)
  BY <1>2, <1>3, LastOf
<1>5. Summed!Last(Summed!Older) \in 0 .. s
  BY <1>2, <1>3, LastOf
<1>6. s > 0 /\ Window > 0 => s \in reader.part
  BY <1>1, <1>2
<1>7. s > 0 /\ Window > 0 => Summed!Last(reader.part) = s
  BY <1>2, <1>4, <1>6
<1>8. ASSUME NEW m \in Summed!Older PROVE m <= s - Keep
  <2>1. m \in 1 .. s /\ m > s - Window /\ ~(m > Summed!Last(reader.part) - Keep)
    BY <1>1, <1>8 DEF Summed!Older, Summed!Recent
  <2>2. s > 0 /\ Window > 0
    BY <2>1, <1>2
  <2> QED
    BY <2>1, <2>2, <1>2, <1>7
<1>9. Summed!Last(Summed!Older) \in 0 .. said
  BY <1>1, <1>2, <1>5
<1> QED
  BY <1>1, <1>3, <1>8, <1>9

-------------------------------------------------------------------------------
LEMMA SummaryInit ==
  ASSUME Summed!SummaryAssumption, Summed!Init
  PROVE  SummaryInv
<1>1. Summed!NoSummary \in Summaries /\ Summed!NoSummary.upto = 0 /\ Summed!NoSummary.count = 0
  BY DEF Summed!NoSummary, Summaries
<1>2. Summed!Resting \in Readings /\ Summed!Resting.seen = Summed!NoSummary /\ Summed!Resting.part = {}
        /\ Summed!Resting.lost = {} /\ Summed!Resting.at = "rest"
  BY <1>1 DEF Summed!Resting, Readings, Places
<1>3. SummaryShape
  <2>1. 0 \in 0 .. MaxMessages /\ 0 \in 0 .. MaxAsks
    BY DEF Summed!SummaryAssumption
  <2> QED
    BY <1>1, <1>2, <2>1 DEF Summed!Init, SummaryShape
<1>4. Honesty /\ Following
  BY <1>1, <1>2 DEF Summed!Init, Honesty, Honest, Following
<1>5. Seeing
  BY <1>2 DEF Summed!Init, Seeing
<1>6. Summed!FewDropped
  BY <1>2, FS_EmptySet, SummedLibrary DEF Summed!Init, Summed!FewDropped, Summed!SummaryAssumption
<1> QED
  BY <1>3, <1>4, <1>5, <1>6 DEF SummaryInv

LEMMA SayKeeps ==
  ASSUME Summed!SummaryAssumption, SummaryInv, Summed!Say
  PROVE  SummaryInv'
<1>1. said' = said + 1 /\ said + 1 \in 0 .. MaxMessages /\ said \in Nat
  BY DEF Summed!Say, SummaryInv, SummaryShape, Summed!SummaryAssumption
<1>2. UNCHANGED <<summary, updater, reader, skipped, exact, asks>>
  BY DEF Summed!Say
<1>3. SummaryShape' /\ Honesty' /\ Following'
  BY <1>1, <1>2 DEF SummaryInv, SummaryShape, Honesty, Honest, Following
<1>4. Seeing'
  BY <1>1, <1>2 DEF SummaryInv, Seeing
<1>5. Summed!FewDropped'
  BY <1>1, <1>2 DEF SummaryInv, Summed!FewDropped, Summed!SummaryAssumption
<1> QED
  BY <1>3, <1>4, <1>5 DEF SummaryInv

\* What a step of one task leaves alone.
LEMMA OthersKeep ==
  ASSUME Summed!SummaryAssumption, SummaryInv, Summed!OnlyUpdates, NEW u \in Updaters, NEW r \in Readings,
         updater' = [updater EXCEPT ![u] = r], r.at # "shown", asks' \in 0 .. MaxAsks,
         summary' \in Summaries, Honest(summary)', Honest(r.seen),
         r.at = "ask" => \E e \in Nat : e > r.seen.upto /\ r.part = r.seen.upto + 1 .. e
  PROVE  SummaryInv'
<1>1. UNCHANGED <<said, reader, skipped, exact>>
  BY DEF Summed!OnlyUpdates
<1>2. updater \in [Updaters -> Readings] /\ reader \in Readings
  BY DEF SummaryInv, SummaryShape
<1>3. updater' \in [Updaters -> Readings] /\ updater'[u] = r /\ \A v \in Updaters : v # u => updater'[v] = updater[v]
  BY <1>2
<1>4. SummaryShape'
  BY <1>1, <1>3 DEF SummaryInv, SummaryShape
<1>5. Honesty'
  BY <1>1, <1>3 DEF SummaryInv, Honesty, Honest
<1>6. Following'
  BY <1>3 DEF SummaryInv, Following
<1>7. Seeing' /\ Summed!FewDropped'
  BY <1>1 DEF SummaryInv, Seeing, Summed!FewDropped
<1> QED
  BY <1>4, <1>5, <1>6, <1>7 DEF SummaryInv

LEMMA RestingIs == Summed!Resting \in Readings /\ Summed!Resting.at = "rest" /\ Summed!Resting.seen.upto = 0 /\ Summed!Resting.seen.count = 0
                   /\ Summed!Resting.part = {} /\ Summed!Resting.lost = {}
  BY DEF Summed!Resting, Readings, Places, Summed!NoSummary, Summaries

LEMMA ReadSummaryKeeps ==
  ASSUME Summed!SummaryAssumption, SummaryInv, NEW u \in Updaters, Summed!ReadSummary(u)
  PROVE  SummaryInv'
<1> DEFINE r == [Summed!Resting EXCEPT !.at = "read", !.seen = summary]
<1>1. summary \in Summaries /\ summary' = summary
  BY DEF Summed!ReadSummary, SummaryInv, SummaryShape
<1>2. r \in Readings /\ r.at = "read" /\ r.seen = summary
  BY <1>1 DEF Summed!Resting, Readings, Places
<1>3. updater' = [updater EXCEPT ![u] = r] /\ Summed!OnlyUpdates
  BY DEF Summed!ReadSummary, Summed!Updates
<1>4. asks' \in 0 .. MaxAsks
  BY DEF Summed!ReadSummary, Summed!Asks, SummaryInv, SummaryShape, Summed!SummaryAssumption
<1>5. Honest(summary)' /\ Honest(r.seen)
  BY <1>1, <1>2, <1>3 DEF SummaryInv, Honesty, Honest, Summed!OnlyUpdates
<1> HIDE DEF r
<1> QED
  BY <1>1, <1>2, <1>3, <1>4, <1>5, OthersKeep

LEMMA ReadChunkKeeps ==
  ASSUME Summed!SummaryAssumption, SummaryInv, NEW u \in Updaters, Summed!ReadChunk(u)
  PROVE  SummaryInv'
<1> DEFINE part == {m \in updater[u].seen.upto + 1 .. said : m <= updater[u].seen.upto + Chunk}
           r == [updater[u] EXCEPT !.at = "ask", !.part = part]
<1>1. /\ updater[u] \in Readings /\ updater[u].seen \in Summaries /\ updater[u].seen.upto \in Nat
      /\ said \in Nat /\ Chunk \in Nat /\ summary \in Summaries /\ asks \in 0 .. MaxAsks
  BY DEF SummaryInv, SummaryShape, Readings, Summaries, Summed!SummaryAssumption
<1>2. Summed!OnlyUpdates /\ UNCHANGED <<summary, asks>>
  BY DEF Summed!ReadChunk
<1>3. Honest(summary)' /\ Honest(updater[u].seen)
  BY <1>2 DEF Summed!OnlyUpdates, SummaryInv, Honesty, Honest
<1>4. CASE part # {} /\ updater' = [updater EXCEPT ![u] = r]
  <2>1. r \in Readings /\ r.at = "ask" /\ r.seen = updater[u].seen /\ r.part = part
    <3>1. part \in SUBSET Int
      OBVIOUS
    <3> HIDE DEF part
    <3> QED
      BY <1>1, <3>1 DEF Readings, Places
  <2>2. \E e \in Nat : e > updater[u].seen.upto /\ part = updater[u].seen.upto + 1 .. e
    <3> DEFINE up == updater[u].seen.upto
    <3>1. CASE said <= up + Chunk
      <4>1. part = up + 1 .. said /\ said > up
        BY <3>1, <1>1, <1>4
      <4> QED
        BY <4>1, <1>1
    <3>2. CASE ~(said <= up + Chunk)
      <4>1. part = up + 1 .. up + Chunk /\ up + Chunk > up /\ up + Chunk \in Nat
        BY <3>2, <1>1, <1>4
      <4> QED
        BY <4>1
    <3> QED
      BY <3>1, <3>2
  <2>3. Honest(r.seen)
    BY <1>3, <2>1
  <2> HIDE DEF part, r
  <2> QED
    BY <1>1, <1>2, <1>3, <1>4, <2>1, <2>2, <2>3, OthersKeep
<1>5. CASE updater' = [updater EXCEPT ![u] = Summed!Resting]
  <2>1. Honest(Summed!Resting.seen)
    BY RestingIs DEF Honest
  <2> QED
    BY <1>1, <1>2, <1>3, <1>5, <2>1, RestingIs, OthersKeep
<1> QED
  BY <1>4, <1>5 DEF Summed!ReadChunk, Summed!Updates

LEMMA SaveFoldedKeeps ==
  ASSUME Summed!SummaryAssumption, SummaryInv, NEW u \in Updaters, Summed!SaveFolded(u)
  PROVE  SummaryInv'
<1>1. Summed!OnlyUpdates /\ updater' = [updater EXCEPT ![u] = Summed!Resting] /\ asks' = asks
        /\ asks \in 0 .. MaxAsks
      /\ summary' \in {summary, Summed!Folded(u)} /\ updater[u].at = "ask"
  BY DEF Summed!SaveFolded, Summed!Updates, SummaryInv, SummaryShape
<1>2. Honest(Summed!Resting.seen)
  BY RestingIs DEF Honest
<1>3. summary \in Summaries /\ updater[u].seen \in Summaries /\ updater[u].seen.upto \in Nat
      /\ updater[u].seen.count \in Int /\ updater[u].seen.covers \in SUBSET Int
  BY DEF SummaryInv, SummaryShape, Summaries, Readings
<1>4. Honest(summary) /\ Honest(updater[u].seen)
  BY DEF SummaryInv, Honesty
<1>5. PICK e \in Nat : e > updater[u].seen.upto /\ updater[u].part = updater[u].seen.upto + 1 .. e
  BY <1>1 DEF SummaryInv, Following
<1>6. Summed!Last(updater[u].part) = e
  BY <1>3, <1>5, LastOfInterval
<1>7. Cardinality(updater[u].part) = e - updater[u].seen.upto
  <2>1. updater[u].seen.upto + 1 \in Int /\ e \in Int /\ ~(updater[u].seen.upto + 1 > e)
    BY <1>3, <1>5
  <2>2. Cardinality(updater[u].seen.upto + 1 .. e) = e - (updater[u].seen.upto + 1) + 1
    BY <2>1, FS_Interval
  <2> QED
    BY <2>2, <1>3, <1>5
<1>8. /\ Summed!Folded(u).covers = updater[u].seen.covers \union updater[u].part
      /\ Summed!Folded(u).upto = e /\ Summed!Folded(u).count = updater[u].seen.count + (e - updater[u].seen.upto)
      /\ Summed!Folded(u) \in Summaries
  <2>1. updater[u].part \in SUBSET Int
    BY <1>3, <1>5
  <2> QED
    BY <1>3, <1>6, <1>7, <2>1, SummedLibrary DEF Summed!Folded, Summaries
<1>9. Honest(Summed!Folded(u))
  <2>1. exact => Summed!Folded(u).count = Summed!Folded(u).upto
    BY <1>3, <1>4, <1>8 DEF Honest
  <2>2. ASSUME NEW m \in 1 .. e PROVE m \in Summed!Folded(u).covers \union skipped
    <3>1. m <= updater[u].seen.upto \/ m \in updater[u].seen.upto + 1 .. e
      BY <1>3
    <3> QED
      BY <3>1, <1>3, <1>4, <1>5, <1>8 DEF Honest
  <2> QED
    BY <1>8, <2>1, <2>2 DEF Honest
<1>10. Honest(summary)'
  BY <1>1, <1>4, <1>9 DEF Summed!OnlyUpdates, Honest
<1>11. summary' \in Summaries
  BY <1>1, <1>3, <1>8
<1> QED
  BY <1>1, <1>2, <1>10, <1>11, RestingIs, OthersKeep

\* What a step of the run leaves alone.
LEMMA RunKeeps ==
  ASSUME Summed!SummaryAssumption, SummaryInv, Summed!OnlyReads, NEW r \in Readings, reader' = r, asks' \in 0 .. MaxAsks,
         UNCHANGED <<summary, skipped, exact>>, Honest(r.seen),
         \E s \in 0 .. said : r.part = {m \in 1 .. s : m > s - Window},
         (exact /\ said <= Window) => Cardinality(r.lost) < Slack
  PROVE  SummaryInv'
<1>1. UNCHANGED <<said, updater>>
  BY DEF Summed!OnlyReads
<1>2. SummaryShape'
  BY <1>1 DEF SummaryInv, SummaryShape
<1>3. Honesty'
  BY <1>1 DEF SummaryInv, Honesty, Honest
<1>4. Following' /\ Seeing' /\ Summed!FewDropped'
  BY <1>1, SummedLibrary DEF SummaryInv, Following, Seeing, Summed!FewDropped
<1> QED
  BY <1>2, <1>3, <1>4 DEF SummaryInv

LEMMA ReadingKeeps ==
  ASSUME Summed!SummaryAssumption, SummaryInv, Summed!ReadWindow \/ Summed!Summarise \/ Summed!Forget
  PROVE  SummaryInv'
<1>1. /\ summary \in Summaries /\ reader \in Readings /\ said \in Nat /\ said \in 0 .. said /\ Window \in Nat
      /\ reader.seen \in Summaries /\ reader.part \in SUBSET Int /\ reader.lost \in SUBSET Int
      /\ Honest(summary) /\ Honest(reader.seen) /\ asks \in 0 .. MaxAsks
  BY DEF SummaryInv, SummaryShape, Honesty, Readings, Summed!SummaryAssumption
<1>2. Summed!OnlyReads /\ UNCHANGED <<summary, skipped, exact>>
  BY DEF Summed!ReadWindow, Summed!Summarise, Summed!Forget
<1>3. Cardinality({}) < Slack
  BY FS_EmptySet DEF Summed!SummaryAssumption
<1>4. CASE Summed!ReadWindow
  <2> DEFINE r == [at |-> "read", seen |-> summary, part |-> {m \in 1 .. said : m > said - Window}, lost |-> {}]
  <2>1. r \in Readings
    BY <1>1 DEF Readings, Places
  <2>2. asks' \in 0 .. MaxAsks
    BY <1>4 DEF Summed!ReadWindow, Summed!Asks, SummaryInv, SummaryShape, Summed!SummaryAssumption
  <2>3. reader' = r /\ Honest(r.seen) /\ r.part = {m \in 1 .. said : m > said - Window} /\ r.lost = {}
    BY <1>1, <1>4 DEF Summed!ReadWindow
  <2> HIDE DEF r
  <2> QED
    BY <1>1, <1>2, <1>3, <2>1, <2>2, <2>3, RunKeeps
<1>5. CASE Summed!Summarise
  <2> DEFINE r == [reader EXCEPT !.at = "ask"]
  <2>1. r \in Readings /\ r.seen = reader.seen /\ r.part = reader.part /\ r.lost = reader.lost
    BY <1>1 DEF Readings, Places
  <2>2. reader' = r /\ asks' = asks
    BY <1>5 DEF Summed!Summarise
  <2>3. /\ \E s \in 0 .. said : reader.part = {m \in 1 .. s : m > s - Window}
        /\ (exact /\ said <= Window) => Cardinality(reader.lost) < Slack
    BY SummedLibrary DEF SummaryInv, Seeing, Summed!FewDropped
  <2> HIDE DEF r
  <2> QED
    BY <1>1, <1>2, <2>1, <2>2, <2>3, RunKeeps
<1>6. CASE Summed!Forget
  <2>1. 0 \in 0 .. said /\ {} = {m \in 1 .. 0 : m > 0 - Window}
    BY <1>1
  <2>2. reader' = Summed!Resting /\ asks' = asks
    BY <1>6 DEF Summed!Forget
  <2>3. Honest(Summed!Resting.seen)
    BY RestingIs DEF Honest
  <2> QED
    BY <1>1, <1>2, <1>3, <2>1, <2>2, <2>3, RestingIs, RunKeeps
<1> QED
  BY <1>4, <1>5, <1>6

\* A run that relies on a recent summary drops little that is not in it.
LEMMA SufficesKeeps ==
  ASSUME Summed!SummaryAssumption, SummaryInv, Summed!Suffices
  PROVE  SummaryInv'
<1>1. /\ reader \in Readings /\ said \in Nat /\ Window \in Nat /\ Keep \in Nat /\ Slack \in Nat /\ Slack > 0
      /\ reader.seen \in Summaries /\ reader.seen.upto \in Nat /\ reader.part \in SUBSET Int
           /\ reader.lost \in SUBSET Int
      /\ Honest(reader.seen) /\ asks \in 0 .. MaxAsks /\ (exact => skipped = {})
  BY DEF SummaryInv, SummaryShape, Honesty, Readings, Summaries, Summed!SummaryAssumption
<1>2. Summed!OnlyReads /\ UNCHANGED <<summary, skipped, exact, asks>>
  BY DEF Summed!Suffices
<1>3. /\ \E s \in 0 .. said : reader.part = {m \in 1 .. s : m > s - Window}
      /\ (exact /\ said <= Window) => Cardinality(reader.lost) < Slack
  BY SummedLibrary DEF SummaryInv, Seeing, Summed!FewDropped
<1>4. CASE reader' = [reader EXCEPT !.at = "shown"]
  <2> DEFINE r == [reader EXCEPT !.at = "shown"]
  <2>1. r \in Readings /\ r.seen = reader.seen /\ r.part = reader.part /\ r.lost = reader.lost
    BY <1>1 DEF Readings, Places
  <2>2. reader' = r
    BY <1>4
  <2> HIDE DEF r
  <2> QED
    BY <1>1, <1>2, <1>3, <2>1, <2>2, RunKeeps
<1>5. CASE /\ reader.seen.exists /\ Summed!Length - reader.seen.count <= Keep + Slack
           /\ reader' = [reader EXCEPT !.at = "shown", !.lost = Summed!Older \ reader.seen.covers]
  <2> DEFINE lost == Summed!Older \ reader.seen.covers
             r == [reader EXCEPT !.at = "shown", !.lost = lost]
  <2>1. PICK s \in 0 .. said :
          /\ reader.part = {m \in 1 .. s : m > s - Window}
          /\ Summed!Older \subseteq 1 .. s /\ \A m \in Summed!Older : m <= s - Keep
    BY OlderOf DEF SummaryInv
  <2>2. r \in Readings /\ r.seen = reader.seen /\ r.part = reader.part /\ r.lost = lost
    <3>1. lost \in SUBSET Int
      <4>1. 1 .. s \subseteq Int /\ lost \subseteq Summed!Older
        OBVIOUS
      <4> HIDE DEF lost
      <4> QED
        BY <4>1, <2>1
    <3> HIDE DEF lost
    <3> QED
      BY <3>1, <1>1 DEF Readings, Places
  <2>3. ASSUME exact, said <= Window PROVE Cardinality(lost) < Slack
    <3>1. reader.part = 1 .. s /\ s \in Nat
      BY <1>1, <2>1, <2>3
    <3>2. Cardinality(reader.part) = s
      BY <3>1, FS_Interval
    <3>3. Summed!Length = s + 1
      BY <3>2, <1>5, SummedLibrary DEF Summed!Length
    <3>4. s + 1 - reader.seen.upto <= Keep + Slack
      BY <3>3, <1>1, <1>5, <2>3 DEF Honest
    <3>5. ASSUME NEW m \in lost PROVE m \in reader.seen.upto + 1 .. s - Keep
      <4>1. m \in 1 .. s /\ m <= s - Keep /\ m \notin reader.seen.covers
        BY <2>1
      <4>2. ~(m \in 1 .. reader.seen.upto)
        BY <4>1, <1>1, <2>3 DEF Honest
      <4> QED
        BY <4>1, <4>2, <1>1, <3>1
    <3> DEFINE gap == reader.seen.upto + 1 .. s - Keep
    <3>6. IsFiniteSet(gap) /\ Cardinality(gap) < Slack
      <4>1. reader.seen.upto + 1 \in Int /\ s - Keep \in Int
        BY <1>1, <3>1
      <4>2. IsFiniteSet(gap)
        BY <4>1, FS_Interval
      <4>3. Cardinality(gap) = IF reader.seen.upto + 1 > s - Keep THEN 0 ELSE s - Keep - (reader.seen.upto + 1) + 1
        BY <4>1, FS_Interval
      <4> HIDE DEF gap
      <4> QED
        BY <4>2, <4>3, <3>1, <3>4, <1>1
    <3>7. lost \subseteq gap
      BY <3>5
    <3> HIDE DEF lost, gap
    <3>8. Cardinality(lost) <= Cardinality(gap) /\ Cardinality(lost) \in Nat /\ Cardinality(gap) \in Nat
      BY <3>6, <3>7, FS_Subset, FS_CardinalityType
    <3> QED
      BY <3>6, <3>8, <1>1
  <2>4. reader' = r
    BY <1>5
  <2> HIDE DEF r, lost
  <2> QED
    BY <1>1, <1>2, <1>3, <2>2, <2>3, <2>4, RunKeeps
<1> QED
  BY <1>4, <1>5 DEF Summed!Suffices

LEMMA SaveOlderKeeps ==
  ASSUME Summed!SummaryAssumption, SummaryInv, Summed!SaveOlder
  PROVE  SummaryInv'
<1>1. /\ reader \in Readings /\ said \in Nat /\ Keep \in Nat /\ asks \in 0 .. MaxAsks
      /\ reader.seen \in Summaries /\ reader.seen.covers \in SUBSET Int
      /\ reader.part \in SUBSET Int /\ reader.lost \in SUBSET Int /\ Honest(reader.seen)
      /\ summary \in Summaries /\ skipped \in SUBSET Int
  BY DEF SummaryInv, SummaryShape, Honesty, Readings, Summaries, Summed!SummaryAssumption
<1> DEFINE r == [reader EXCEPT !.at = "shown"]
<1>2. r \in Readings /\ r.seen = reader.seen /\ r.part = reader.part /\ r.lost = reader.lost /\ r.at = "shown"
  BY <1>1 DEF Readings, Places
<1>3. reader' = r /\ Summed!OnlyReads /\ asks' = asks /\ UNCHANGED <<said, updater>>
  BY DEF Summed!SaveOlder, Summed!OnlyReads
<1>4. /\ \E s \in 0 .. said : reader.part = {m \in 1 .. s : m > s - Window}
      /\ (exact /\ said <= Window) => Cardinality(reader.lost) < Slack
  BY SummedLibrary DEF SummaryInv, Seeing, Summed!FewDropped
<1> HIDE DEF r
<1>5. CASE UNCHANGED <<summary, skipped, exact>>
  BY <1>1, <1>2, <1>3, <1>4, <1>5, RunKeeps
<1>6. CASE /\ summary' = [covers |-> reader.seen.covers \union Summed!Older, upto |-> Summed!Last(Summed!Older),
                          count |-> Summed!Length - Keep, exists |-> TRUE]
           /\ skipped' = skipped \union (1 .. Summed!Last(Summed!Older) \ summary'.covers)
           /\ exact' = FALSE
  <2>1. PICK s \in 0 .. said :
          /\ reader.part = {m \in 1 .. s : m > s - Window}
          /\ Summed!Older \subseteq 1 .. s /\ Summed!Last(Summed!Older) \in 0 .. said
    BY OlderOf DEF SummaryInv
  <2>2. Summed!Length \in Int
    <3>1. IsFiniteSet(1 .. s)
      <4>1. 1 \in Int /\ s \in Int
        BY <1>1
      <4> QED
        BY <4>1, FS_Interval
    <3>3. reader.part \subseteq 1 .. s
      BY <2>1
    <3>2. Cardinality(reader.part) \in Nat
      BY <3>1, <3>3, FS_Subset, FS_CardinalityType
    <3> QED
      BY <3>2, SummedLibrary DEF Summed!Length
  <2>3. reader.seen.covers \union Summed!Older \in SUBSET Int /\ Summed!Last(Summed!Older) \in Nat
          /\ Summed!Length - Keep \in Int
    <3>1. 1 .. s \subseteq Int /\ Summed!Last(Summed!Older) \in Nat
      BY <1>1, <2>1
    <3>2. reader.seen.covers \union Summed!Older \subseteq Int
      BY <3>1, <1>1, <2>1
    <3>3. Summed!Length - Keep \in Int
      BY <1>1, <2>2
    <3> QED
      BY <3>1, <3>2, <3>3
  <2>4. summary' \in Summaries /\ summary'.upto = Summed!Last(Summed!Older)
    BY <1>6, <2>3 DEF Summaries
  <2>5. skipped' \in SUBSET Int /\ skipped \subseteq skipped'
    <3>1. 1 .. Summed!Last(Summed!Older) \subseteq Int
      OBVIOUS
    <3> QED
      BY <1>1, <1>6, <3>1
  <2>6. SummaryShape'
    BY <1>2, <1>3, <1>1, <1>6, <2>4, <2>5 DEF SummaryInv, SummaryShape
  <2>7. Honest(summary)'
    BY <1>6, <2>4 DEF Honest
  <2>8. \A x : Honest(x) => (1 .. x.upto \subseteq x.covers \union skipped')
    BY <2>5 DEF Honest
  <2>9. Honesty'
    BY <1>2, <1>3, <1>6, <2>7, <2>8 DEF SummaryInv, Honesty, Honest
  <2>10. Following' /\ Seeing' /\ Summed!FewDropped'
    BY <1>2, <1>3, <1>4, <1>6 DEF SummaryInv, Following, Seeing, Summed!FewDropped
  <2> QED
    BY <2>6, <2>9, <2>10 DEF SummaryInv
<1> QED
  BY <1>5, <1>6 DEF Summed!SaveOlder

LEMMA SummaryStep ==
  ASSUME Summed!SummaryAssumption, SummaryInv, [Summed!Next]_(Summed!summaryVars)
  PROVE  SummaryInv'
<1>1. CASE UNCHANGED Summed!summaryVars
  BY <1>1 DEF Summed!summaryVars, SummaryInv, SummaryShape, Honesty, Honest, Following, Seeing,
              Summed!FewDropped
<1> QED
  BY <1>1, SayKeeps, ReadSummaryKeeps, ReadChunkKeeps, SaveFoldedKeeps, ReadingKeeps, SufficesKeeps,
     SaveOlderKeeps
     DEF Summed!Next

\* However many tasks fold messages into the summary at once, and whatever a run reads of it
\* meanwhile: what the cursor of the summary passed went into it or was skipped by a task that
\* overtook another, its count is that of the messages passed until then, and a run leaves out
\* fewer messages than a summary may lag behind (agent/context_window.rs).
THEOREM SummaryIsSound ==
  Summed!SummaryAssumption /\ Summed!Spec => [](Summed!TypeOK /\ Summed!SummaryHolds)
<1> SUFFICES ASSUME Summed!SummaryAssumption PROVE Summed!Spec => [](Summed!TypeOK /\ Summed!SummaryHolds)
  OBVIOUS
<1>1. Summed!Init => SummaryInv
  BY SummaryInit
<1>2. SummaryInv /\ [Summed!Next]_(Summed!summaryVars) => SummaryInv'
  BY SummaryStep
<1>3. SummaryInv => Summed!TypeOK
  BY DEF SummaryInv, SummaryShape, Summed!TypeOK, Readings, Places
<1>4. SummaryInv => Summed!SummaryHolds
  BY DEF SummaryInv, Honesty, Honest, Summed!SummaryHolds, Summed!SummaryCovers, Summed!CountTrue
<1> QED
  BY <1>1, <1>2, <1>3, <1>4, PTL DEF Summed!Spec

-------------------------------------------------------------------------------
(* An answer of the model *)

Kinds == {"delta", "reset", "completed", "error"}
Stages == {"request", "stream", "broken", "done"}
LlmShape ==
  /\ client \in [at : Stages, attempt : Nat, emitted : BOOLEAN, pieces : Nat, retryable : BOOLEAN, retries : Nat]
  /\ client.retries <= MaxRetries
  /\ channel \in Seq([kind : Kinds, attempt : Nat]) /\ Len(channel) <= Capacity
  /\ shown \in Seq(Nat)
  /\ ending \in {"none", "answered", "asking_again", "failed", "stopped"} /\ chainedTo \in BOOLEAN

\* Of the attempt at work: the pieces that the reader has or will get, if it is to keep them; and
\* how many events end the stream.
Delivered == IF client.emitted THEN client.pieces ELSE 0
Over == IF client.at = "done" THEN 1 ELSE 0

\* A reader that has shown sh and reads the first n events of ch shows p pieces of attempt a: all
\* that it has and gets after the last reset, which is the r-th.
ReadsFrom(ch, sh, p, a, n, r) ==
  /\ n \in Nat /\ r \in Nat /\ r <= n
  /\ \A i \in 1 .. r : ch[i].kind \in {"delta", "reset"}
  /\ \A i \in r + 1 .. n : ch[i] = [kind |-> "delta", attempt |-> a]
  /\ r > 0 => ch[r].kind = "reset" /\ n - r = p
  /\ r = 0 => Len(sh) + n = p /\ \A i \in 1 .. Len(sh) : sh[i] = a

\* The same, and t more events end the stream.
Reads(ch, sh, p, a, t) ==
  \E n, r \in Nat :
    /\ Len(ch) = n + t /\ ReadsFrom(ch, sh, p, a, n, r)
    /\ \A i \in n + 1 .. Len(ch) : ch[i].kind \in {"completed", "error"}

Collecting ==
  /\ ending = "none" => Reads(channel, shown, Delivered, client.attempt, Over)
  /\ ending # "none" => client.at = "done" /\ channel = <<>>
  /\ client.at = "request" => Delivered = 0
  /\ client.at = "stream" => Delivered = client.pieces
  /\ \A i \in DOMAIN channel : channel[i].kind = "completed" => client.at = "done" /\ Delivered = client.pieces
  /\ ending = "answered" =>
       \/ \A i \in DOMAIN shown : shown[i] = 0
       \/ shown = [i \in 1 .. client.pieces |-> client.attempt]
  /\ ending = "asking_again" => shown = <<>>

AnswerInv == LlmShape /\ Collecting

-------------------------------------------------------------------------------
(* What each event does to what the reader will show *)

LEMMA Appended ==
  ASSUME NEW S, NEW ch \in Seq(S), NEW e
  PROVE  /\ Len(ch) \in Nat /\ Len(Append(ch, e)) = Len(ch) + 1 /\ Append(ch, e)[Len(ch) + 1] = e
         /\ \A i \in 1 .. Len(ch) : Append(ch, e)[i] = ch[i]
  OBVIOUS

LEMMA Taken ==
  ASSUME NEW S, NEW ch \in Seq(S), ch # <<>>
  PROVE  /\ Len(ch) \in Nat /\ Len(ch) > 0 /\ Head(ch) = ch[1] /\ Head(ch) \in S
         /\ Tail(ch) \in Seq(S) /\ Len(Tail(ch)) = Len(ch) - 1
         /\ \A i \in 1 .. Len(Tail(ch)) : Tail(ch)[i] = ch[i + 1]
         /\ Len(ch) = 1 => Tail(ch) = <<>>
<1>1. Len(ch) \in Nat /\ Len(ch) > 0 /\ Head(ch) = ch[1] /\ Head(ch) \in S
  OBVIOUS
<1>2. Tail(ch) \in Seq(S) /\ Len(Tail(ch)) = Len(ch) - 1
  OBVIOUS
<1>3. \A i \in 1 .. Len(Tail(ch)) : Tail(ch)[i] = ch[i + 1]
  OBVIOUS
<1>4. \A x \in Seq(S) : Len(x) = 0 => x = <<>>
  OBVIOUS
<1>5. ASSUME Len(ch) = 1 PROVE Tail(ch) = <<>>
  <2>1. Len(Tail(ch)) = 0
    BY <1>2, <1>5
  <2> QED
    BY <1>2, <1>4, <2>1
<1> QED
  BY <1>1, <1>2, <1>3, <1>5

\* A piece more
LEMMA ReadsMore ==
  ASSUME NEW S, NEW ch \in Seq(S), NEW sh \in Seq(Nat), NEW p \in Nat, NEW a \in Nat, Reads(ch, sh, p, a, 0)
  PROVE  Reads(Append(ch, [kind |-> "delta", attempt |-> a]), sh, p + 1, a, 0)
<1> DEFINE e == [kind |-> "delta", attempt |-> a]
           cd == Append(ch, e)
<1>1. Len(ch) \in Nat /\ Len(cd) = Len(ch) + 1 /\ cd[Len(ch) + 1] = e /\ \A i \in 1 .. Len(ch) : cd[i] = ch[i]
  BY Appended
<1> HIDE DEF cd
<1>2. PICK n, r \in Nat : Len(ch) = n + 0 /\ ReadsFrom(ch, sh, p, a, n, r)
  BY DEF Reads
<1>3. n = Len(ch) /\ Len(sh) \in Nat
  BY <1>1, <1>2
<1>4. ReadsFrom(cd, sh, p + 1, a, n + 1, r)
  <2>1. \A i \in 1 .. r : cd[i].kind \in {"delta", "reset"}
    <3>1. r \in Nat /\ r <= Len(ch) /\ \A i \in 1 .. r : ch[i].kind \in {"delta", "reset"}
      BY <1>2, <1>3 DEF ReadsFrom
    <3>2. \A i \in 1 .. r : i \in 1 .. Len(ch)
      BY <1>1, <3>1
    <3>3. \A i \in 1 .. r : cd[i] = ch[i]
      BY <1>1, <3>2
    <3> QED
      BY <3>1, <3>3
  <2>2. \A i \in r + 1 .. n + 1 : cd[i] = e
    <3>1. ASSUME NEW i \in r + 1 .. n + 1 PROVE (i \in r + 1 .. n /\ i \in 1 .. n) \/ i = n + 1
      BY <1>2
    <3> QED
      BY <1>1, <1>2, <1>3, <3>1 DEF ReadsFrom
  <2>3. r > 0 => cd[r].kind = "reset" /\ n + 1 - r = p + 1
    BY <1>1, <1>2, <1>3 DEF ReadsFrom
  <2>4. r = 0 => Len(sh) + (n + 1) = p + 1 /\ \A i \in 1 .. Len(sh) : sh[i] = a
    BY <1>2, <1>3 DEF ReadsFrom
  <2> QED
    BY <1>2, <2>1, <2>2, <2>3, <2>4 DEF ReadsFrom
<1>5. Len(cd) = n + 1 + 0 /\ n + 1 \in Nat /\ \A i \in n + 1 + 1 .. Len(cd) : FALSE
  BY <1>1, <1>3
<1>6. Reads(cd, sh, p + 1, a, 0)
  BY <1>2, <1>4, <1>5 DEF Reads
<1> QED
  BY <1>6 DEF cd

\* The end
LEMMA ReadsEnd ==
  ASSUME NEW S, NEW ch \in Seq(S), NEW sh \in Seq(Nat), NEW p \in Nat, NEW a \in Nat, Reads(ch, sh, p, a, 0),
         NEW e, e.kind \in {"completed", "error"}
  PROVE  Reads(Append(ch, e), sh, p, a, 1)
<1> DEFINE cd == Append(ch, e)
<1>1. Len(ch) \in Nat /\ Len(cd) = Len(ch) + 1 /\ cd[Len(ch) + 1] = e /\ \A i \in 1 .. Len(ch) : cd[i] = ch[i]
  BY Appended
<1> HIDE DEF cd
<1>2. PICK n, r \in Nat : Len(ch) = n + 0 /\ ReadsFrom(ch, sh, p, a, n, r)
  BY DEF Reads
<1>3. n = Len(ch)
  BY <1>1, <1>2
<1>4. ReadsFrom(cd, sh, p, a, n, r)
  BY <1>1, <1>2, <1>3 DEF ReadsFrom
<1>5. Len(cd) = n + 1 /\ \A i \in n + 1 .. Len(cd) : cd[i].kind \in {"completed", "error"}
  BY <1>1, <1>3
<1>6. Reads(cd, sh, p, a, 1)
  BY <1>2, <1>4, <1>5 DEF Reads
<1> QED
  BY <1>6 DEF cd

\* A reset
LEMMA ReadsAgain ==
  ASSUME NEW S, NEW ch \in Seq(S), NEW sh \in Seq(Nat), NEW p \in Nat, NEW a \in Nat, NEW b \in Nat,
         Reads(ch, sh, p, a, 0), NEW e, e.kind = "reset"
  PROVE  Reads(Append(ch, e), sh, 0, b, 0)
<1> DEFINE cd == Append(ch, e)
<1>1. Len(ch) \in Nat /\ Len(cd) = Len(ch) + 1 /\ cd[Len(ch) + 1] = e /\ \A i \in 1 .. Len(ch) : cd[i] = ch[i]
  BY Appended
<1> HIDE DEF cd
<1>2. PICK n, r \in Nat : Len(ch) = n + 0 /\ ReadsFrom(ch, sh, p, a, n, r)
  BY DEF Reads
<1>3. n = Len(ch)
  BY <1>1, <1>2
<1>4. ASSUME NEW i \in 1 .. n + 1 PROVE cd[i].kind \in {"delta", "reset"}
  <2>1. CASE i \in 1 .. r
    BY <1>1, <1>2, <1>3, <2>1 DEF ReadsFrom
  <2>2. CASE i \in r + 1 .. n
    <3>1. cd[i] = [kind |-> "delta", attempt |-> a]
      BY <1>1, <1>2, <1>3, <2>2 DEF ReadsFrom
    <3> QED
      BY <3>1
  <2>3. CASE i = n + 1
    BY <1>1, <1>3, <2>3
  <2> QED
    BY <1>2, <2>1, <2>2, <2>3
<1>5. ReadsFrom(cd, sh, 0, b, n + 1, n + 1)
  BY <1>1, <1>3, <1>4 DEF ReadsFrom
<1>6. Len(cd) = n + 1 + 0 /\ n + 1 \in Nat /\ \A i \in n + 1 + 1 .. Len(cd) : FALSE
  BY <1>1, <1>3
<1>7. Reads(cd, sh, 0, b, 0)
  BY <1>5, <1>6 DEF Reads
<1> QED
  BY <1>7 DEF cd

\* Another attempt, when nothing was sent of the last one
LEMMA ReadsNothing ==
  ASSUME NEW S, NEW ch \in Seq(S), NEW sh \in Seq(Nat), NEW a \in Nat, NEW b \in Nat, Reads(ch, sh, 0, a, 0)
  PROVE  Reads(ch, sh, 0, b, 0)
<1>1. PICK n, r \in Nat :
        /\ Len(ch) = n + 0 /\ ReadsFrom(ch, sh, 0, a, n, r)
        /\ \A i \in n + 1 .. Len(ch) : ch[i].kind \in {"completed", "error"}
  BY DEF Reads
<1>2. Len(sh) \in Nat
  OBVIOUS
<1>3. n = r /\ (r = 0 => Len(sh) = 0)
  BY <1>1, <1>2 DEF ReadsFrom
<1>4. ReadsFrom(ch, sh, 0, b, n, r)
  BY <1>1, <1>2, <1>3 DEF ReadsFrom
<1> QED
  BY <1>1, <1>4 DEF Reads

\* The reader takes the next event.
LEMMA ReadsNext ==
  ASSUME NEW S, NEW ch \in Seq(S), ch # <<>>, NEW sh \in Seq(Nat), NEW p \in Nat, NEW a \in Nat, NEW t \in {0, 1},
         Reads(ch, sh, p, a, t)
  PROVE  /\ Head(ch).kind = "delta" => Reads(Tail(ch), Append(sh, Head(ch).attempt), p, a, t)
         /\ Head(ch).kind = "reset" => Reads(Tail(ch), <<>>, p, a, t)
         /\ Head(ch).kind \notin {"delta", "reset"} =>
              t = 1 /\ Tail(ch) = <<>> /\ Len(sh) = p /\ \A i \in 1 .. p : sh[i] = a
<1> DEFINE rest == Tail(ch)
<1>1. /\ Len(ch) \in Nat /\ Len(ch) > 0 /\ Head(ch) = ch[1] /\ Len(rest) = Len(ch) - 1 /\ Len(rest) \in Nat
      /\ (Len(ch) = 1 => rest = <<>>) /\ \A i \in 1 .. Len(rest) : rest[i] = ch[i + 1]
  BY Taken
<1> HIDE DEF rest
<1>2. PICK n, r \in Nat :
        /\ Len(ch) = n + t /\ ReadsFrom(ch, sh, p, a, n, r)
        /\ \A i \in n + 1 .. Len(ch) : ch[i].kind \in {"completed", "error"}
  BY DEF Reads
<1>3. Len(sh) \in Nat
  OBVIOUS
<1>4. CASE n = 0
  <2>1. t = 1 /\ Len(ch) = 1 /\ r = 0
    BY <1>1, <1>2, <1>4 DEF ReadsFrom
  <2>2. Head(ch).kind \in {"completed", "error"} /\ Len(sh) = p /\ \A i \in 1 .. p : sh[i] = a
    BY <1>1, <1>2, <1>3, <1>4, <2>1 DEF ReadsFrom
  <2> QED
    BY <1>1, <2>1, <2>2 DEF rest
<1>5. ASSUME n > 0
      PROVE  /\ n - 1 \in Nat /\ Len(rest) = n - 1 + t
             /\ \A i \in n - 1 + 1 .. Len(rest) : rest[i].kind \in {"completed", "error"}
  BY <1>1, <1>2, <1>5
<1>6. CASE n > 0 /\ r = 0
  <2>1. Head(ch) = [kind |-> "delta", attempt |-> a]
    BY <1>1, <1>2, <1>6 DEF ReadsFrom
  <2>2. \A i \in 1 .. n - 1 : rest[i] = [kind |-> "delta", attempt |-> a]
    BY <1>1, <1>2, <1>5, <1>6 DEF ReadsFrom
  <2>3. Len(sh) + n = p /\ \A i \in 1 .. Len(sh) : sh[i] = a
    BY <1>2, <1>6 DEF ReadsFrom
  <2> DEFINE more == Append(sh, a)
  <2>4. Len(more) = Len(sh) + 1 /\ more[Len(sh) + 1] = a /\ \A i \in 1 .. Len(sh) : more[i] = sh[i]
    BY Appended
  <2> HIDE DEF more
  <2>5. Len(more) + (n - 1) = p /\ \A i \in 1 .. Len(more) : more[i] = a
    BY <1>3, <2>3, <2>4
  <2>6. ReadsFrom(rest, more, p, a, n - 1, 0)
    BY <1>5, <1>6, <2>2, <2>5 DEF ReadsFrom
  <2>7. Reads(rest, more, p, a, t)
    BY <1>5, <1>6, <2>6 DEF Reads
  <2> QED
    BY <2>1, <2>7 DEF rest, more
<1>7. CASE n > 0 /\ r > 0
  <2>1. Head(ch).kind \in {"delta", "reset"} /\ n - r = p
    BY <1>1, <1>2, <1>7 DEF ReadsFrom
  <2>2. /\ r - 1 \in Nat /\ r - 1 <= n - 1
        /\ \A i \in 1 .. r - 1 : rest[i].kind \in {"delta", "reset"}
        /\ \A i \in r - 1 + 1 .. n - 1 : rest[i] = [kind |-> "delta", attempt |-> a]
    BY <1>1, <1>2, <1>5, <1>7 DEF ReadsFrom
  <2>3. CASE r > 1
    <3>1. rest[r - 1].kind = "reset" /\ n - 1 - (r - 1) = p /\ r - 1 > 0
      <4>1. ch[r].kind = "reset" /\ n - r = p /\ r <= n
        BY <1>2, <1>7 DEF ReadsFrom
      <4>2. rest[r - 1] = ch[r]
        BY <1>1, <1>5, <1>7, <2>3, <4>1
      <4> QED
        BY <1>2, <2>3, <4>1, <4>2
    <3>2. ASSUME NEW x PROVE Reads(rest, x, p, a, t)
      <4>1. ReadsFrom(rest, x, p, a, n - 1, r - 1)
        BY <1>5, <1>7, <2>2, <3>1 DEF ReadsFrom
      <4> QED
        BY <1>5, <1>7, <2>2, <4>1 DEF Reads
    <3> QED
      BY <2>1, <3>2 DEF rest
  <2>4. CASE r = 1
    <3>1. Head(ch).kind = "reset" /\ n - 1 = p /\ r - 1 = 0
      BY <1>1, <1>2, <2>4 DEF ReadsFrom
    <3>2. Len(<<>>) = 0
      OBVIOUS
    <3>3. ReadsFrom(rest, <<>>, p, a, n - 1, 0)
      BY <1>5, <1>7, <2>2, <3>1, <3>2 DEF ReadsFrom
    <3>4. Reads(rest, <<>>, p, a, t)
      BY <1>5, <1>7, <3>3 DEF Reads
    <3> QED
      BY <3>1, <3>4 DEF rest
  <2> QED
    BY <1>2, <1>7, <2>3, <2>4
<1> QED
  BY <1>2, <1>4, <1>6, <1>7

-------------------------------------------------------------------------------
(* The steps *)

LEMMA ShapeFacts ==
  ASSUME LlmShape
  PROVE  /\ client.attempt \in Nat /\ client.pieces \in Nat /\ client.retries \in Nat
              /\ client.emitted \in BOOLEAN
         /\ client.at \in Stages /\ Delivered \in Nat /\ Over \in {0, 1}
         /\ channel \in Seq([kind : Kinds, attempt : Nat]) /\ shown \in Seq(Nat)
<1>1. client.attempt \in Nat /\ client.pieces \in Nat /\ client.retries \in Nat
        /\ client.emitted \in BOOLEAN /\ client.at \in Stages
  BY DEF LlmShape
<1> QED
  BY <1>1 DEF LlmShape, Delivered, Over

LEMMA AnswerInit ==
  ASSUME Llm!LlmAssumption, Llm!Init
  PROVE  AnswerInv
<1>1. /\ client.at = "request" /\ client.attempt = 1 /\ client.emitted = FALSE /\ client.pieces = 0
           /\ client.retries = 0
      /\ channel = <<>> /\ shown = <<>> /\ ending = "none"
  BY DEF Llm!Init, Llm!Fresh
<1>2. Llm!Fresh \in [at : Stages, attempt : Nat, emitted : BOOLEAN, pieces : Nat, retryable : BOOLEAN, retries : Nat]
  BY DEF Llm!Fresh, Stages
<1>3. LlmShape
  BY <1>1, <1>2 DEF Llm!Init, LlmShape, Llm!LlmAssumption
<1>4. Delivered = 0 /\ Over = 0
  BY <1>1 DEF Delivered, Over
<1>5. Reads(<<>>, <<>>, 0, 1, 0)
  <2>1. ReadsFrom(<<>>, <<>>, 0, 1, 0, 0)
    BY DEF ReadsFrom
  <2> QED
    BY <2>1 DEF Reads
<1> QED
  BY <1>1, <1>3, <1>4, <1>5 DEF AnswerInv, Collecting

LEMMA AnswerStep ==
  ASSUME Llm!LlmAssumption, AnswerInv, [Llm!Next]_(Llm!llmVars)
  PROVE  AnswerInv'
<1> USE ShapeFacts DEF AnswerInv
<1> DEFINE Records == [at : Stages, attempt : Nat, emitted : BOOLEAN, pieces : Nat, retryable : BOOLEAN, retries : Nat]
<1>1. client \in Records /\ client.retries <= MaxRetries /\ Len(channel) <= Capacity
  BY DEF LlmShape
<1>2. client.at # "done" => ending = "none" /\ Over = 0 /\ \A i \in DOMAIN channel : channel[i].kind # "completed"
  BY DEF Collecting, Over
<1>3. CASE UNCHANGED Llm!llmVars
  BY <1>3 DEF Llm!llmVars, LlmShape, Collecting, Delivered, Over
\* The client goes on without an event: what it has sent is the same, or it begins anew.
<1>4. ASSUME client.at # "done", client' \in Records, client'.at # "done", client'.retries <= MaxRetries,
             UNCHANGED <<channel, shown, ending, chainedTo>>,
             Delivered' = Delivered, client'.attempt = client.attempt \/ Delivered = 0,
             client'.at = "request" => Delivered = 0, client'.at = "stream" => Delivered' = client'.pieces
      PROVE  AnswerInv'
  <2>1. LlmShape'
    BY <1>4 DEF LlmShape
  <2>2. Over' = 0
    BY <1>4 DEF Over
  <2>3. Reads(channel, shown, Delivered, client.attempt, 0)
    BY <1>2, <1>4 DEF Collecting
  <2>4. client'.attempt \in Nat
    BY <1>4
  <2>5. Reads(channel, shown, Delivered, client'.attempt, 0)
    BY <1>4, <2>3, <2>4, ReadsNothing
  <2>6. Collecting'
    BY <1>2, <1>4, <2>2, <2>5 DEF Collecting
  <2> QED
    BY <2>1, <2>6
\* It sends an event.
<1>5. ASSUME client.at # "done", client' \in Records, client'.retries <= MaxRetries,
             NEW e \in [kind : Kinds, attempt : Nat], Len(channel) < Capacity, channel' = Append(channel, e),
             UNCHANGED <<shown, ending, chainedTo>>,
             Reads(channel', shown, Delivered', client'.attempt, Over'),
             client'.at = "request" => Delivered' = 0, client'.at = "stream" => Delivered' = client'.pieces,
             e.kind = "completed" => client'.at = "done" /\ Delivered' = client'.pieces
      PROVE  AnswerInv'
  <2> DEFINE Events == [kind : Kinds, attempt : Nat]
  <2>1. /\ channel' \in Seq(Events) /\ Len(channel') = Len(channel) + 1
        /\ \A i \in DOMAIN channel' : (i \in DOMAIN channel /\ channel'[i] = channel[i]) \/ channel'[i] = e
    <3>1. channel \in Seq(Events) /\ e \in Events
      BY <1>5
    <3> HIDE DEF Events
    <3> QED
      BY <1>5, <3>1
  <2>2. Len(channel') <= Capacity
    BY <1>5, <2>1 DEF Llm!LlmAssumption
  <2>3. LlmShape'
    BY <1>5, <2>1, <2>2 DEF LlmShape
  <2>4. \A i \in DOMAIN channel' : channel'[i].kind = "completed" => client'.at = "done"
          /\ Delivered' = client'.pieces
    BY <1>2, <1>5, <2>1
  <2>5. Collecting'
    BY <1>2, <1>5, <2>4 DEF Collecting
  <2> QED
    BY <2>3, <2>5
<1>6. CASE Llm!Breaks
  <2>1. PICK retryable \in BOOLEAN : client' = [client EXCEPT !.at = "broken", !.retryable = retryable]
    BY <1>6 DEF Llm!Breaks
  <2>2. /\ client' \in Records /\ client'.at = "broken" /\ client'.retries = client.retries
        /\ client'.attempt = client.attempt /\ client'.emitted = client.emitted
             /\ client'.pieces = client.pieces
    BY <1>1, <2>1 DEF Stages
  <2>3. Delivered' = Delivered
    BY <2>2 DEF Delivered
  <2> QED
    BY <1>1, <1>4, <1>6, <2>2, <2>3 DEF Llm!Breaks, Llm!Client
<1>7. CASE Llm!Opens
  <2>1. client' = [client EXCEPT !.at = "stream", !.emitted = FALSE, !.pieces = 0]
    BY <1>7 DEF Llm!Opens
  <2>2. /\ client' \in Records /\ client'.at = "stream" /\ client'.retries = client.retries
        /\ client'.attempt = client.attempt /\ client'.emitted = FALSE /\ client'.pieces = 0
    BY <1>1, <2>1 DEF Stages
  <2>3. Delivered' = 0 /\ Delivered = 0
    BY <1>7, <2>2 DEF Delivered, Llm!Opens, Collecting
  <2> QED
    BY <1>1, <1>4, <1>7, <2>2, <2>3 DEF Llm!Opens, Llm!Client
<1>8. CASE Llm!Piece
  <2>1. client.at = "stream" /\ Delivered = client.pieces
    BY <1>8 DEF Llm!Piece, Collecting
  <2>2. CASE client' = [client EXCEPT !.emitted = TRUE] /\ UNCHANGED channel
    <3>1. /\ client' \in Records /\ client'.at = "stream" /\ client'.retries = client.retries
          /\ client'.attempt = client.attempt /\ client'.emitted = TRUE /\ client'.pieces = client.pieces
      BY <1>1, <2>1, <2>2
    <3>2. Delivered' = client.pieces
      BY <3>1 DEF Delivered
    <3> QED
      BY <1>1, <1>4, <1>8, <2>1, <2>2, <3>1, <3>2 DEF Llm!Piece, Llm!Client
  <2>3. CASE /\ client' = [client EXCEPT !.emitted = TRUE, !.pieces = @ + 1]
             /\ Llm!Puts([kind |-> "delta", attempt |-> client.attempt])
    <3>1. /\ client' \in Records /\ client'.at = "stream" /\ client'.retries = client.retries
          /\ client'.attempt = client.attempt /\ client'.emitted = TRUE /\ client'.pieces = client.pieces + 1
      <4>1. client' = [client EXCEPT !.emitted = TRUE, !.pieces = client.pieces + 1]
              /\ client.pieces + 1 \in Nat
        BY <2>3
      <4> QED
        BY <1>1, <2>1, <4>1
    <3>2. Delivered' = Delivered + 1 /\ Over' = 0
      BY <2>1, <3>1 DEF Delivered, Over
    <3> DEFINE e == [kind |-> "delta", attempt |-> client.attempt]
    <3>3. e \in [kind : Kinds, attempt : Nat] /\ e.kind = "delta"
      BY DEF Kinds
    <3>4. Len(channel) < Capacity /\ channel' = Append(channel, e)
      BY <2>3 DEF Llm!Puts
    <3>5. Reads(channel, shown, Delivered, client.attempt, 0)
      BY <1>2, <2>1 DEF Collecting
    <3>6. Reads(channel', shown, Delivered + 1, client.attempt, 0)
      BY <3>4, <3>5, ReadsMore
    <3> HIDE DEF e
    <3> QED
      BY <1>1, <1>5, <1>8, <2>1, <3>1, <3>2, <3>3, <3>4, <3>6 DEF Llm!Piece, Llm!Client
  <2> QED
    BY <1>8, <2>2, <2>3 DEF Llm!Piece
<1>9. CASE Llm!Completes \/ Llm!GivesUp
  <2>1. client' = [client EXCEPT !.at = "done"] /\ client.at # "done" /\ Llm!Client
    BY <1>9 DEF Llm!Completes, Llm!GivesUp
  <2>2. /\ client' \in Records /\ client'.at = "done" /\ client'.retries = client.retries
        /\ client'.attempt = client.attempt /\ client'.emitted = client.emitted
             /\ client'.pieces = client.pieces
    BY <1>1, <2>1 DEF Stages
  <2>3. Delivered' = Delivered /\ Over' = 1
    BY <2>2 DEF Delivered, Over
  <2>4. PICK kind \in {"completed", "error"} :
          /\ Llm!Puts([kind |-> kind, attempt |-> client.attempt])
          /\ kind = "completed" => Delivered = client.pieces
    BY <1>9 DEF Llm!Completes, Llm!GivesUp, Collecting
  <2> DEFINE e == [kind |-> kind, attempt |-> client.attempt]
  <2>5. e \in [kind : Kinds, attempt : Nat] /\ e.kind = kind
    BY DEF Kinds
  <2>6. Len(channel) < Capacity /\ channel' = Append(channel, e)
    BY <2>4 DEF Llm!Puts
  <2>7. Reads(channel, shown, Delivered, client.attempt, 0)
    BY <1>2, <2>1 DEF Collecting
  <2> HIDE DEF e
  <2>8. Reads(channel', shown, Delivered, client.attempt, 1)
    BY <2>5, <2>6, <2>7, ReadsEnd
  <2> QED
    BY <1>1, <1>5, <2>1, <2>2, <2>3, <2>4, <2>5, <2>6, <2>8 DEF Llm!Client
<1>10. CASE Llm!Retry
  <2>1. /\ client.at = "broken" /\ Llm!Client /\ client.retries < MaxRetries
        /\ client' = [client EXCEPT !.at = "request", !.attempt = @ + 1, !.retries = @ + 1, !.emitted = FALSE]
    BY <1>10 DEF Llm!Retry, Llm!Retries
  <2>2. /\ client' \in Records /\ client'.at = "request" /\ client'.retries = client.retries + 1
        /\ client'.attempt = client.attempt + 1 /\ client'.emitted = FALSE
    <3>1. client.attempt + 1 \in Nat /\ client.retries + 1 \in Nat
      BY <1>1
    <3> QED
      BY <1>1, <2>1, <3>1 DEF Stages
  <2>3. client'.retries <= MaxRetries
    BY <2>1, <2>2 DEF Llm!LlmAssumption
  <2>4. Delivered' = 0 /\ Over' = 0
    BY <2>2 DEF Delivered, Over
  <2>5. CASE client.emitted
    <3> DEFINE e == [kind |-> "reset", attempt |-> client.attempt]
    <3>1. e \in [kind : Kinds, attempt : Nat] /\ e.kind = "reset"
      BY DEF Kinds
    <3>2. Len(channel) < Capacity /\ channel' = Append(channel, e)
      BY <1>10, <2>5 DEF Llm!Retry, Llm!Puts
    <3>3. Reads(channel, shown, Delivered, client.attempt, 0)
      BY <1>2, <2>1 DEF Collecting
    <3> HIDE DEF e
    <3>4. client'.attempt \in Nat
      BY <2>2
    <3>5. Reads(channel', shown, 0, client'.attempt, 0)
      BY <3>1, <3>2, <3>3, <3>4, ReadsAgain
    <3> QED
      BY <1>5, <2>1, <2>2, <2>3, <2>4, <3>1, <3>2, <3>5 DEF Llm!Client
  <2>6. CASE ~client.emitted
    <3>1. Delivered = 0 /\ UNCHANGED channel
      BY <1>10, <2>6 DEF Delivered, Llm!Retry
    <3> QED
      BY <1>4, <2>1, <2>2, <2>3, <2>4, <3>1 DEF Llm!Client
  <2> QED
    BY <2>5, <2>6
<1>11. CASE Llm!Receive
  <2> DEFINE e == Head(channel)
  <2>1. ending = "none" /\ channel # <<>> /\ channel' = Tail(channel) /\ UNCHANGED <<client, chainedTo>>
    BY <1>11 DEF Llm!Receive, Llm!Run
  <2>2. Delivered' = Delivered /\ Over' = Over
    BY <2>1 DEF Delivered, Over
  <2>3. /\ e \in [kind : Kinds, attempt : Nat] /\ channel' \in Seq([kind : Kinds, attempt : Nat])
        /\ Len(channel') = Len(channel) - 1 /\ Len(channel) \in Nat /\ 1 \in DOMAIN channel /\ e = channel[1]
        /\ \A i \in DOMAIN channel' : i + 1 \in DOMAIN channel /\ channel'[i] = channel[i + 1]
    <3>1. channel \in Seq([kind : Kinds, attempt : Nat]) /\ channel # <<>>
      BY <2>1
    <3>2. channel' \in Seq([kind : Kinds, attempt : Nat])
      BY <2>1, <3>1, Taken
    <3>3. DOMAIN channel = 1 .. Len(channel) /\ DOMAIN channel' = 1 .. Len(channel')
      BY <3>1, <3>2
    <3>4. /\ Len(channel) \in Nat /\ Len(channel) > 0 /\ e = channel[1] /\ e \in [kind : Kinds, attempt : Nat]
          /\ Len(channel') = Len(channel) - 1 /\ \A i \in 1 .. Len(channel') : channel'[i] = channel[i + 1]
      BY <2>1, <3>1, Taken
    <3>5. ASSUME NEW i \in DOMAIN channel' PROVE i + 1 \in DOMAIN channel /\ channel'[i] = channel[i + 1]
      <4>1. i \in 1 .. Len(channel') /\ i + 1 \in 1 .. Len(channel)
        BY <3>3, <3>4
      <4>2. i + 1 \in DOMAIN channel
        BY <3>3, <4>1
      <4>3. channel'[i] = channel[i + 1]
        BY <3>4, <4>1
      <4> QED
        BY <4>2, <4>3
    <3>6. 1 \in DOMAIN channel
      BY <3>3, <3>4
    <3> HIDE DEF e
    <3> QED
      BY <3>2, <3>4, <3>5, <3>6
  <2>4. Len(channel') <= Capacity
    BY <1>1, <2>3 DEF Llm!LlmAssumption
  <2>5. Reads(channel, shown, Delivered, client.attempt, Over)
    BY <2>1 DEF Collecting
  <2>6. /\ e.kind = "delta" => Reads(channel', Append(shown, e.attempt), Delivered, client.attempt, Over)
        /\ e.kind = "reset" => Reads(channel', <<>>, Delivered, client.attempt, Over)
        /\ e.kind \notin {"delta", "reset"} =>
             Over = 1 /\ channel' = <<>> /\ Len(shown) = Delivered
               /\ \A i \in 1 .. Delivered : shown[i] = client.attempt
    BY <2>1, <2>5, ReadsNext
  <2>7. /\ shown' = CASE e.kind = "delta" -> Append(shown, e.attempt) [] e.kind = "reset" -> <<>> [] OTHER -> shown
        /\ ending' = CASE e.kind = "completed" -> "answered"
                       [] e.kind = "error" -> IF chainedTo /\ shown = <<>> THEN "asking_again" ELSE "failed"
                       [] OTHER -> "none"
    BY <1>11 DEF Llm!Receive
  <2>8. \A i \in DOMAIN channel' : channel'[i].kind = "completed" => client.at = "done"
          /\ Delivered = client.pieces
    BY <2>3 DEF Collecting
  <2>9. e.kind = "completed" => Delivered = client.pieces
    BY <2>3 DEF Collecting
  <2> HIDE DEF e
  <2>10. CASE e.kind \in {"delta", "reset"}
    <3>1. ending' = "none" /\ Reads(channel', shown', Delivered, client.attempt, Over)
      BY <2>6, <2>7, <2>10
    <3>2. shown' \in Seq(Nat)
      BY <2>3, <2>7, <2>10
    <3>3. LlmShape'
      BY <2>1, <2>3, <2>4, <3>1, <3>2 DEF LlmShape
    <3>4. Collecting'
      BY <2>1, <2>2, <2>8, <3>1 DEF Collecting
    <3> QED
      BY <3>3, <3>4
  <2>11. CASE e.kind \notin {"delta", "reset"}
    <3>1. shown' = shown /\ ending' \in {"answered", "asking_again", "failed"} /\ channel' = <<>>
      BY <2>3, <2>6, <2>7, <2>11 DEF Kinds
    <3>2. client.at = "done"
      BY <2>6, <2>11 DEF Over
    <3>3. ending' = "answered" => shown' = [i \in 1 .. client.pieces |-> client.attempt]
      <4>1. ending' = "answered" => e.kind = "completed"
        BY <2>7
      <4>2. shown = [i \in 1 .. Len(shown) |-> shown[i]]
        OBVIOUS
      <4> QED
        BY <2>6, <2>9, <2>11, <3>1, <4>1, <4>2
    <3>4. ending' = "asking_again" => shown' = <<>>
      BY <2>7, <2>11, <3>1
    <3>5. LlmShape'
      BY <2>1, <2>3, <2>4, <3>1 DEF LlmShape
    <3>6. Collecting'
      BY <2>1, <2>2, <2>8, <3>1, <3>2, <3>3, <3>4 DEF Collecting
    <3> QED
      BY <3>5, <3>6
  <2> QED
    BY <2>10, <2>11
<1>12. CASE Llm!AsksAgain
  <2>1. ending = "asking_again" /\ UNCHANGED <<client, chainedTo, channel>>
    BY <1>12 DEF Llm!AsksAgain, Llm!Run
  <2>2. \/ ending' = "answered" /\ \E n \in 0 .. MaxPieces : shown' = [i \in 1 .. n |-> 0]
        \/ ending' = "failed" /\ UNCHANGED shown
    BY <1>12 DEF Llm!AsksAgain
  <2>3. shown' \in Seq(Nat) /\ (ending' = "answered" => \A i \in DOMAIN shown' : shown'[i] = 0)
    <3>1. ASSUME NEW n \in 0 .. MaxPieces PROVE [i \in 1 .. n |-> 0] \in Seq(Nat)
      BY DEF Llm!LlmAssumption
    <3> QED
      BY <2>2, <3>1
  <2>4. LlmShape'
    BY <2>1, <2>2, <2>3 DEF LlmShape
  <2>5. Collecting'
    BY <2>1, <2>2, <2>3 DEF Collecting, Delivered
  <2> QED
    BY <2>4, <2>5
<1>13. CASE Llm!Stop
  <2>1. /\ client' = [client EXCEPT !.at = "done"] /\ channel' = <<>> /\ ending' = "stopped"
        /\ UNCHANGED <<shown, chainedTo>>
    BY <1>13 DEF Llm!Stop
  <2>2. client' \in Records /\ client'.at = "done" /\ client'.retries = client.retries
    BY <1>1, <2>1 DEF Stages
  <2>3. LlmShape'
    BY <1>1, <2>1, <2>2 DEF LlmShape, Llm!LlmAssumption
  <2>4. Collecting'
    BY <2>1, <2>2 DEF Collecting
  <2> QED
    BY <2>3, <2>4
<1> QED
  BY <1>3, <1>6, <1>7, <1>8, <1>9, <1>10, <1>11, <1>12, <1>13
     DEF Llm!Next, Llm!Streams, Llm!Ends, Llm!Collects

\* However an answer fails and is tried again, what a run takes for the answer is that of one
\* attempt, all of it; a second request is only made when nothing was shown; and a channel that is
\* closed has told how it ended.
THEOREM AnswersAreWhole ==
  Llm!LlmAssumption /\ Llm!Spec => [](Llm!TypeOK /\ Llm!AnswerIsOne)
<1> SUFFICES ASSUME Llm!LlmAssumption PROVE Llm!Spec => [](Llm!TypeOK /\ Llm!AnswerIsOne)
  OBVIOUS
<1>1. Llm!Init => AnswerInv
  BY AnswerInit
<1>2. AnswerInv /\ [Llm!Next]_(Llm!llmVars) => AnswerInv'
  BY AnswerStep
<1>3. ASSUME AnswerInv PROVE Llm!TypeOK
  BY <1>3, ShapeFacts DEF AnswerInv, LlmShape, Llm!TypeOK, Stages, Llm!LlmAssumption
<1>4. ASSUME AnswerInv PROVE Llm!AnswerIsOne
  <2>1. ASSUME ending = "none", client.at = "done" PROVE channel # <<>>
    <3>1. Reads(channel, shown, Delivered, client.attempt, 1)
      BY <1>4, <2>1 DEF AnswerInv, Collecting, Over
    <3>2. \E n \in Nat : Len(channel) = n + 1
      BY <3>1 DEF Reads
    <3> QED
      BY <3>2
  <2> QED
    BY <1>4, <2>1 DEF AnswerInv, Collecting, Llm!AnswerIsOne
<1>5. AnswerInv => Llm!TypeOK /\ Llm!AnswerIsOne
  BY <1>3, <1>4
<1> QED
  BY <1>1, <1>2, <1>5, PTL DEF Llm!Spec

-------------------------------------------------------------------------------
(* Memories and relations *)

Spending ==
  /\ DOMAIN spent = {"saves", "forgets", "faults"} /\ spent = [w \in DOMAIN spent |-> spent[w]]
  /\ spent.saves \in Nat /\ spent.forgets \in Nat /\ spent.faults \in Nat

SaverShape ==
  /\ scope \in {"absent", "none", "chat"}
  /\ saver = [s \in Savers |-> saver[s]]
  /\ \A s \in Savers : saver[s] \in [at : {"idle", "delete", "insert", "metadata"}, scope : {"none", "chat"}, content : Nat]

AdderShape ==
  /\ node \subseteq Learnt!Ends
  /\ adder = [a \in Adders |-> adder[a]]
  /\ \A a \in Adders :
       /\ DOMAIN adder[a] = {"at", "found", "seen"}
       /\ adder[a].at \in {"idle", "insert", "update", "refused", "created"}
       /\ adder[a].seen \in Nat /\ adder[a].seen <= spent.forgets

\* Who found the relation, or made it, can rely on it until something is forgotten.
FoundIsThere ==
  \A a \in Adders : (adder[a].at \in {"update", "created"} /\ spent.forgets = adder[a].seen) => edge # {}

KnowledgeInv == Spending /\ SaverShape /\ AdderShape /\ Learnt!SavedIsRecalled /\ (edge # {} => node = Learnt!Ends) /\ FoundIsThere

LEMMA Spent ==
  ASSUME Spending, NEW what \in {"saves", "forgets", "faults"}, NEW bound, Learnt!Spends(what, bound)
  PROVE  /\ Spending' /\ spent'[what] = spent[what] + 1
         /\ \A w \in {"saves", "forgets", "faults"} : w # what => spent'[w] = spent[w]
<1>1. spent' = [spent EXCEPT ![what] = spent[what] + 1]
  BY DEF Learnt!Spends
<1>2. DOMAIN spent' = {"saves", "forgets", "faults"} /\ spent' = [w \in DOMAIN spent' |-> spent'[w]]
  BY <1>1 DEF Spending
<1>3. spent'[what] = spent[what] + 1 /\ \A w \in {"saves", "forgets", "faults"} : w # what => spent'[w] = spent[w]
  BY <1>1 DEF Spending
<1>4. \A w \in {"saves", "forgets", "faults"} : spent[w] \in Nat
  BY DEF Spending
<1>5. \A w \in {"saves", "forgets", "faults"} : spent'[w] \in Nat
  BY <1>3, <1>4
<1> QED
  BY <1>2, <1>3, <1>5 DEF Spending

LEMMA SavingStep ==
  ASSUME KnowledgeInv, NEW s \in Savers, Learnt!Save(s) \/ Learnt!DeleteRow(s) \/ Learnt!InsertRow(s) \/ Learnt!WriteMetadata(s) \/ Learnt!SaveFails(s)
  PROVE  KnowledgeInv'
<1> DEFINE Running == [at : {"idle", "delete", "insert", "metadata"}, scope : {"none", "chat"}, content : Nat]
<1>1. /\ Learnt!Memories /\ Spending' /\ spent'.forgets = spent.forgets
      /\ spent'.faults >= spent.faults /\ spent.faults \in Nat /\ spent'.faults \in Nat
  <2>1. Learnt!Memories
    BY DEF Learnt!Save, Learnt!DeleteRow, Learnt!InsertRow, Learnt!WriteMetadata, Learnt!SaveFails
  <2>2. Learnt!Spends("saves", MaxSaves) \/ Learnt!Spends("faults", MaxFaults) \/ UNCHANGED spent
    BY DEF Learnt!Save, Learnt!DeleteRow, Learnt!InsertRow, Learnt!WriteMetadata, Learnt!SaveFails
  <2>3. Spending
    BY DEF KnowledgeInv
  <2>4. CASE Learnt!Spends("saves", MaxSaves)
    BY <2>1, <2>3, <2>4, Spent DEF Spending
  <2>5. CASE Learnt!Spends("faults", MaxFaults)
    BY <2>1, <2>3, <2>5, Spent DEF Spending
  <2>6. CASE UNCHANGED spent
    BY <2>1, <2>3, <2>6 DEF Spending
  <2> QED
    BY <2>2, <2>4, <2>5, <2>6
<1>2. AdderShape' /\ (edge # {} => node = Learnt!Ends)' /\ FoundIsThere'
  BY <1>1 DEF Learnt!Memories, KnowledgeInv, AdderShape, FoundIsThere
<1>3. /\ saver = [x \in Savers |-> saver[x]] /\ saver[s] \in Running /\ \A x \in Savers : saver[x] \in Running
      /\ scope \in {"absent", "none", "chat"} /\ Learnt!SavedIsRecalled
  BY DEF KnowledgeInv, SaverShape
\* What the save of one task may do to the memory
<1>4. ASSUME NEW r \in Running, saver' = [saver EXCEPT ![s] = r], scope' \in {"absent", "none", "chat"},
             \/ UNCHANGED <<memory, latest>> /\ (saver[s].at = "insert" => r.at = "insert" \/ spent'.faults > 0)
             \/ r.at = "insert"
             \/ latest' \in memory'
      PROVE  KnowledgeInv'
  <2>1. saver' = [x \in Savers |-> saver'[x]] /\ saver'[s] = r /\ \A x \in Savers : x # s => saver'[x] = saver[x]
    BY <1>3, <1>4
  <2>2. SaverShape'
    BY <1>3, <1>4, <2>1 DEF SaverShape
  <2>3. Learnt!SavedIsRecalled'
    <3>1. SUFFICES ASSUME latest' # 0, spent'.faults = 0, \A x \in Savers : saver'[x].at # "insert"
                   PROVE  latest' \in memory'
      BY DEF Learnt!SavedIsRecalled
    <3>2. r.at # "insert"
      BY <2>1, <3>1
    <3>3. CASE UNCHANGED <<memory, latest>> /\ saver[s].at # "insert"
      <4>1. \A x \in Savers : saver[x].at # "insert"
        BY <2>1, <3>1, <3>3
      <4>2. spent.faults = 0
        BY <1>1, <3>1
      <4> QED
        BY <1>3, <3>1, <3>3, <4>1, <4>2 DEF Learnt!SavedIsRecalled
    <3> QED
      BY <1>4, <3>1, <3>2, <3>3
  <2> QED
    BY <1>1, <1>2, <2>2, <2>3 DEF KnowledgeInv
<1>5. CASE Learnt!Save(s)
  <2>1. PICK wanted \in {"chat", "kept"} :
          saver' = [saver EXCEPT ![s] = [at |-> "delete", content |-> spent'.saves,
                                         scope |-> IF wanted = "chat" THEN "chat"
                                                  ELSE IF scope = "absent" THEN "none" ELSE scope]]
    BY <1>5 DEF Learnt!Save
  <2> DEFINE r == [at |-> "delete", content |-> spent'.saves,
                   scope |-> IF wanted = "chat" THEN "chat" ELSE IF scope = "absent" THEN "none" ELSE scope]
  <2>2. spent'.saves \in Nat
    BY <1>1 DEF Spending
  <2>3. (IF wanted = "chat" THEN "chat" ELSE IF scope = "absent" THEN "none" ELSE scope) \in {"none", "chat"}
    BY <1>3
  <2>4. r \in Running
    BY <2>2, <2>3
  <2>5. UNCHANGED <<memory, scope, latest>> /\ saver[s].at = "idle"
    BY <1>5 DEF Learnt!Save
  <2> HIDE DEF r
  <2>6. saver' = [saver EXCEPT ![s] = r]
    BY <2>1 DEF r
  <2> QED
    BY <1>3, <1>4, <2>4, <2>5, <2>6
<1>6. CASE Learnt!DeleteRow(s)
  <2> DEFINE r == [saver[s] EXCEPT !.at = "insert"]
  <2>1. r \in Running /\ r.at = "insert"
    BY <1>3
  <2>2. saver' = [saver EXCEPT ![s] = r] /\ scope' = scope
    BY <1>6 DEF Learnt!DeleteRow
  <2> QED
    BY <1>3, <1>4, <2>1, <2>2
<1>7. CASE Learnt!InsertRow(s)
  <2> DEFINE r == [saver[s] EXCEPT !.at = "metadata"]
  <2>1. r \in Running
    BY <1>3
  <2>2. saver' = [saver EXCEPT ![s] = r] /\ scope' = scope /\ latest' \in memory'
    BY <1>7 DEF Learnt!InsertRow
  <2> QED
    BY <1>3, <1>4, <2>1, <2>2
<1>8. CASE Learnt!WriteMetadata(s)
  <2>1. Learnt!NoSave \in Running
    BY DEF Learnt!NoSave
  <2>2. saver' = [saver EXCEPT ![s] = Learnt!NoSave] /\ scope' \in {"absent", "none", "chat"} /\ UNCHANGED <<memory, latest>>
        /\ saver[s].at = "metadata"
    BY <1>3, <1>8 DEF Learnt!WriteMetadata
  <2> QED
    BY <1>4, <2>1, <2>2
<1>9. CASE Learnt!SaveFails(s)
  <2>1. Learnt!NoSave \in Running
    BY DEF Learnt!NoSave
  <2>2. saver' = [saver EXCEPT ![s] = Learnt!NoSave] /\ scope' = scope /\ UNCHANGED <<memory, latest>>
    BY <1>9 DEF Learnt!SaveFails
  <2>3. spent'.faults = spent.faults + 1
    BY <1>9, Spent DEF Learnt!SaveFails, KnowledgeInv
  <2>4. spent'.faults > 0
    BY <1>1, <2>3
  <2> QED
    BY <1>3, <1>4, <2>1, <2>2, <2>4
<1> QED
  BY <1>5, <1>6, <1>7, <1>8, <1>9

LEMMA GraphStep ==
  ASSUME KnowledgeInv, Learnt!Adds \/ Learnt!ForgetNode \/ Learnt!ForgetEdge \/ Learnt!Extract \/ Learnt!ExtractNode
  PROVE  KnowledgeInv'
<1>1. /\ Learnt!Graph /\ Spending' /\ spent'.forgets \in Nat /\ spent.forgets \in Nat /\ spent.forgets <= spent'.forgets
      /\ spent.faults \in Nat /\ spent.faults <= spent'.faults /\ spent'.faults \in Nat
  <2>1. Learnt!Graph
    BY DEF Learnt!Adds, Learnt!AddNode, Learnt!FindEdge, Learnt!PutEdge, Learnt!Answered, Learnt!ForgetNode, Learnt!ForgetEdge, Learnt!Extract, Learnt!ExtractNode
  <2>2. \/ Learnt!Spends("saves", MaxSaves) \/ Learnt!Spends("faults", MaxFaults) \/ Learnt!Spends("forgets", MaxForgets)
        \/ UNCHANGED spent
    BY DEF Learnt!Adds, Learnt!AddNode, Learnt!FindEdge, Learnt!PutEdge, Learnt!Answered, Learnt!ForgetNode, Learnt!ForgetEdge, Learnt!Extract, Learnt!ExtractNode
  <2>3. Spending
    BY DEF KnowledgeInv
  <2>4. CASE Learnt!Spends("saves", MaxSaves)
    BY <2>1, <2>3, <2>4, Spent DEF Spending
  <2>5. CASE Learnt!Spends("faults", MaxFaults)
    BY <2>1, <2>3, <2>5, Spent DEF Spending
  <2>6. CASE Learnt!Spends("forgets", MaxForgets)
    BY <2>1, <2>3, <2>6, Spent DEF Spending
  <2>7. CASE UNCHANGED spent
    BY <2>1, <2>3, <2>7 DEF Spending
  <2> QED
    BY <2>2, <2>4, <2>5, <2>6, <2>7
<1>2. SaverShape' /\ Learnt!SavedIsRecalled'
  BY <1>1 DEF Learnt!Graph, KnowledgeInv, SaverShape, Learnt!SavedIsRecalled
<1>3. /\ node \subseteq Learnt!Ends /\ adder = [a \in Adders |-> adder[a]] /\ (edge # {} => node = Learnt!Ends) /\ FoundIsThere
      /\ \A a \in Adders : /\ DOMAIN adder[a] = {"at", "found", "seen"}
                           /\ adder[a].at \in {"idle", "insert", "update", "refused", "created"}
                           /\ adder[a].seen \in Nat /\ adder[a].seen <= spent.forgets
  BY DEF KnowledgeInv, AdderShape
\* The additions are as they were: relations stay, or something was forgotten.
<1>4. ASSUME UNCHANGED adder, node' \subseteq Learnt!Ends, edge' # {} => node' = Learnt!Ends,
             edge' = edge \/ spent'.forgets > spent.forgets
      PROVE  KnowledgeInv'
  <2>1. AdderShape'
    BY <1>1, <1>3, <1>4 DEF AdderShape
  <2>2. FoundIsThere'
    BY <1>1, <1>3, <1>4 DEF FoundIsThere
  <2> QED
    BY <1>1, <1>2, <1>4, <2>1, <2>2 DEF KnowledgeInv
\* One of them goes on: it may add the relation.
<1>5. ASSUME NEW a \in Adders, NEW r, adder' = [adder EXCEPT ![a] = r], DOMAIN r = {"at", "found", "seen"},
             r.at \in {"idle", "insert", "update", "refused", "created"}, r.seen \in Nat, r.seen <= spent.forgets,
             spent'.forgets = spent.forgets, node' = node, edge \subseteq edge', edge' # {} => node = Learnt!Ends,
             (r.at \in {"update", "created"} /\ r.seen = spent.forgets) => edge' # {}
      PROVE  KnowledgeInv'
  <2>1. adder' = [x \in Adders |-> adder'[x]] /\ adder'[a] = r /\ \A x \in Adders : x # a => adder'[x] = adder[x]
    BY <1>3, <1>5
  <2>2. AdderShape'
    <3>1. ASSUME NEW x \in Adders
          PROVE  /\ DOMAIN adder'[x] = {"at", "found", "seen"}
                 /\ adder'[x].at \in {"idle", "insert", "update", "refused", "created"}
                 /\ adder'[x].seen \in Nat /\ adder'[x].seen <= spent'.forgets
      BY <1>3, <1>5, <2>1
    <3> QED
      BY <1>3, <1>5, <2>1, <3>1 DEF AdderShape
  <2>3. FoundIsThere'
    <3>1. ASSUME NEW x \in Adders, adder'[x].at \in {"update", "created"}, spent'.forgets = adder'[x].seen
          PROVE  edge' # {}
      BY <1>3, <1>5, <2>1, <3>1 DEF FoundIsThere
    <3> QED
      BY <3>1 DEF FoundIsThere
  <2> QED
    BY <1>1, <1>2, <1>5, <2>2, <2>3 DEF KnowledgeInv
<1>6. CASE Learnt!AddNode
  BY <1>3, <1>4, <1>6 DEF Learnt!AddNode
<1>7. ASSUME NEW a \in Adders, Learnt!FindEdge(a) PROVE KnowledgeInv'
  <2> DEFINE r == [at |-> IF edge = {} THEN "insert" ELSE "update",
                   found |-> IF edge = {} THEN spent'.saves ELSE Learnt!Min(edge), seen |-> spent.forgets]
  <2>1. adder' = [adder EXCEPT ![a] = r] /\ UNCHANGED <<node, edge>> /\ Learnt!Spends("saves", MaxSaves)
    BY <1>7 DEF Learnt!FindEdge
  <2>2. spent'.forgets = spent.forgets
    BY <2>1, Spent DEF KnowledgeInv
  <2>3. DOMAIN r = {"at", "found", "seen"} /\ r.at = (IF edge = {} THEN "insert" ELSE "update") /\ r.seen = spent.forgets
    OBVIOUS
  <2> HIDE DEF r
  <2> QED
    BY <1>1, <1>3, <1>5, <2>1, <2>2, <2>3
<1>8. ASSUME NEW a \in Adders, Learnt!PutEdge(a) PROVE KnowledgeInv'
  <2> DEFINE r == [adder[a] EXCEPT !.at = IF adder[a].at = "insert" /\ node # Learnt!Ends THEN "refused" ELSE "created"]
  <2>1. adder' = [adder EXCEPT ![a] = r]
    BY <1>8 DEF Learnt!PutEdge
  <2>2. UNCHANGED <<node, spent>> /\ adder[a].at \in {"insert", "update"}
    BY <1>8 DEF Learnt!PutEdge
  <2>3. IF adder[a].at = "insert" /\ node = Learnt!Ends THEN edge' = edge \union {adder[a].found} ELSE UNCHANGED edge
    BY <1>8 DEF Learnt!PutEdge
  <2>4. /\ DOMAIN r = {"at", "found", "seen"} /\ r.seen = adder[a].seen
        /\ r.at = IF adder[a].at = "insert" /\ node # Learnt!Ends THEN "refused" ELSE "created"
    BY <1>3
  <2> HIDE DEF r
  <2>5. edge \subseteq edge' /\ (edge' # {} => node = Learnt!Ends)
    BY <1>3, <2>3
  <2>6. (r.at \in {"update", "created"} /\ r.seen = spent.forgets) => edge' # {}
    BY <1>3, <2>2, <2>3, <2>4 DEF FoundIsThere
  <2> QED
    BY <1>3, <1>5, <2>1, <2>2, <2>4, <2>5, <2>6
<1>9. ASSUME NEW a \in Adders, Learnt!Answered(a) PROVE KnowledgeInv'
  <2>1. adder' = [adder EXCEPT ![a] = Learnt!NoEdge] /\ UNCHANGED <<node, edge, spent>>
    BY <1>9 DEF Learnt!Answered
  <2>2. DOMAIN Learnt!NoEdge = {"at", "found", "seen"} /\ Learnt!NoEdge.at = "idle" /\ Learnt!NoEdge.seen = 0
    BY DEF Learnt!NoEdge
  <2> QED
    BY <1>1, <1>3, <1>5, <2>1, <2>2
<1>10. CASE Learnt!ForgetNode
  <2>1. Learnt!Spends("forgets", MaxForgets)
    BY <1>10 DEF Learnt!ForgetNode
  <2>2. spent'.forgets > spent.forgets
    BY <1>1, <2>1, Spent DEF KnowledgeInv
  <2> QED
    BY <1>3, <1>4, <1>10, <2>2 DEF Learnt!ForgetNode
<1>11. CASE Learnt!ForgetEdge
  <2>1. Learnt!Spends("forgets", MaxForgets)
    BY <1>11 DEF Learnt!ForgetEdge
  <2>2. spent'.forgets > spent.forgets
    BY <1>1, <2>1, Spent DEF KnowledgeInv
  <2> QED
    BY <1>3, <1>4, <1>11, <2>2 DEF Learnt!ForgetEdge
<1>12. CASE Learnt!Extract
  BY <1>3, <1>4, <1>12 DEF Learnt!Extract
<1>13. CASE Learnt!ExtractNode
  BY <1>3, <1>4, <1>13 DEF Learnt!ExtractNode
<1> QED
  BY <1>6, <1>7, <1>8, <1>9, <1>10, <1>11, <1>12, <1>13 DEF Learnt!Adds

LEMMA KnowledgeStep ==
  ASSUME KnowledgeInv, [Learnt!Next]_(Learnt!knowledgeVars)
  PROVE  KnowledgeInv'
<1>1. CASE Learnt!Saves
  BY <1>1, SavingStep DEF Learnt!Saves
<1>2. CASE Learnt!Forget
  <2>1. /\ Learnt!Spends("forgets", MaxForgets) /\ Learnt!Memories /\ UNCHANGED saver
        /\ scope' = "absent" /\ latest' = 0
    BY <1>2 DEF Learnt!Forget
  <2>2. Spending' /\ spent'.forgets = spent.forgets + 1 /\ spent.forgets \in Nat
    BY <2>1, Spent DEF KnowledgeInv, Spending
  <2>3. SaverShape' /\ Learnt!SavedIsRecalled'
    BY <2>1 DEF KnowledgeInv, SaverShape, Learnt!SavedIsRecalled
  <2>4. AdderShape' /\ FoundIsThere' /\ (edge # {} => node = Learnt!Ends)'
    BY <2>1, <2>2 DEF Learnt!Memories, KnowledgeInv, AdderShape, FoundIsThere
  <2> QED
    BY <2>2, <2>3, <2>4 DEF KnowledgeInv
<1>3. CASE Learnt!Adds \/ Learnt!ForgetNode \/ Learnt!ForgetEdge \/ Learnt!Extract \/ Learnt!ExtractNode
  BY <1>3, GraphStep
<1>4. CASE UNCHANGED Learnt!knowledgeVars
  BY <1>4 DEF Learnt!knowledgeVars, KnowledgeInv, Spending, SaverShape, AdderShape, FoundIsThere, Learnt!SavedIsRecalled
<1> QED
  BY <1>1, <1>2, <1>3, <1>4 DEF Learnt!Next

\* Whatever saves, deletions and additions interleave, each of them several statements that may
\* fail: a memory that was saved can be recalled unless a save is at it or failed, and an edge has
\* its nodes and is there for whoever was told so (repositories/memory.rs, repositories/graph.rs).
THEOREM KnowledgeIsKept ==
  Learnt!Spec => [](Learnt!TypeOK /\ Learnt!KnowledgeKept)
<1>1. Learnt!Init => KnowledgeInv
  BY DEF Learnt!Init, KnowledgeInv, Spending, SaverShape, AdderShape, FoundIsThere, Learnt!SavedIsRecalled, Learnt!NoSave, Learnt!NoEdge
<1>2. KnowledgeInv /\ [Learnt!Next]_(Learnt!knowledgeVars) => KnowledgeInv'
  BY KnowledgeStep
<1>3. KnowledgeInv => Learnt!TypeOK /\ Learnt!KnowledgeKept
  BY DEF KnowledgeInv, SaverShape, AdderShape, FoundIsThere, Learnt!TypeOK, Learnt!KnowledgeKept, Learnt!RelationsHold
<1> QED
  BY <1>1, <1>2, <1>3, PTL DEF Learnt!Spec

-------------------------------------------------------------------------------
(* The schema *)

SchemaShape ==
  /\ version \in -1 .. MaxVersion /\ version # 0 /\ base \in {"none", "old", "whole"}
  /\ files \in {"none", "plain", "encrypted", "damaged"} /\ links \in {"none", "whole", "damaged"}
  /\ step \in {"inspect", "copy", "drop", "files", "links", "version", "copying_old", "normalize", "migrate",
               "up", "failed"}
  /\ crashed \in [times : 0 .. MaxCrashes, repair : BOOLEAN]
  /\ origin.version \in -1 .. MaxVersion

\* What the first start found of the file, and whether its attachments were damaged
Was == [files |-> origin.files, links |-> origin.links, base |-> origin.base]
WasDamaged == "damaged" \in {origin.files, origin.links}

\* Where the steps of a repair stand
Repairing ==
  /\ files = "damaged" => origin.files = "damaged"
  /\ links = "damaged" => origin.links = "damaged"
  /\ step \in {"copy", "drop", "files", "links"} => WasDamaged
  /\ step \in {"files", "links"} => links = "none"
  /\ step = "files" => files = "none"
  /\ step = "links" => files = "encrypted"
  /\ step \in {"version", "copying_old", "normalize", "migrate", "up", "failed"} =>
       files # "damaged" /\ links # "damaged"

\* Nothing is changed of damaged attachments before the file is copied, nor of the columns of an
\* old file.
Copied ==
  /\ (WasDamaged /\ Was \notin backups) =>
       step \in {"inspect", "copy"} /\ files = origin.files /\ links = origin.links /\ base = origin.base
  /\ (origin.base = "old" /\ (base # "old" \/ step = "normalize")) => \E copy \in backups : copy.base = "old"
  /\ base = "old" => origin.base = "old"

\* Which tables there are at which version
Tables ==
  /\ version > 0 => base = "whole"
  /\ step \in {"copying_old", "normalize"} => base # "none"
  /\ (step = "migrate" /\ version = -1) => base # "old"
  /\ origin.version <= version
  /\ files = "none" => WasDamaged \/ (origin.files = "none" /\ version = -1)
  /\ (files = "encrypted" /\ version < 2) => WasDamaged
  /\ (~crashed.repair /\ step \notin {"files", "links"}) =>
       /\ files = "none" => version = -1 /\ links = "none"
       /\ links = "none" => files = "none"
       /\ version >= 2 => files \in {"encrypted", "damaged"}
  /\ step = "up" => version = MaxVersion
  /\ step = "failed" => WasDamaged /\ origin.version < 2

SchemaInv == SchemaShape /\ Repairing /\ Copied /\ Tables

-------------------------------------------------------------------------------

LEMMA SchemaInit == ASSUME Schema!SchemaAssumption, Schema!Init PROVE SchemaInv
<1> USE DEF Schema!SchemaAssumption
<1>1. SchemaShape
  BY DEF Schema!Init, SchemaShape, Schema!Found
<1>2. Repairing
  BY DEF Schema!Init, Repairing, Schema!Found, WasDamaged
<1>3. Copied
  BY DEF Schema!Init, Copied, Schema!Found, WasDamaged, Was
<1>4. Tables
  <2>1. /\ version \in Int /\ step = "inspect" /\ crashed.repair = FALSE
        /\ origin.version = version /\ origin.files = files /\ origin.links = links
    BY DEF Schema!Init, Schema!Found
  <2>2. /\ version > 0 => base = "whole"
        /\ files = "none" <=> base = "none"
        /\ links = "none" <=> base = "none"
        /\ base = "none" => version = -1
        /\ files = "encrypted" => version \notin {-1, 1}
        /\ version >= 2 => files \in {"encrypted", "damaged"}
    <3>1. CASE base = "none"
      <4>1. version = -1
        BY <3>1 DEF Schema!Init
      <4>2. files = "none" /\ links = "none"
        BY <3>1 DEF Schema!Init
      <4> QED
        BY <3>1, <4>1, <4>2
    <3>2. CASE base # "none" /\ version \in {-1, 1}
      BY <3>2 DEF Schema!Init
    <3>3. CASE base # "none" /\ version \notin {-1, 1}
      BY <3>3 DEF Schema!Init
    <3> QED
      BY <3>1, <3>2, <3>3
  <2>3. version < 2 => version \in {-1, 1}
    BY DEF Schema!Init
  <2> QED
    BY <2>1, <2>2, <2>3 DEF Tables, WasDamaged
<1> QED
  BY <1>1, <1>2, <1>3, <1>4 DEF SchemaInv

LEMMA SchemaStep == ASSUME Schema!SchemaAssumption, SchemaInv, [Schema!Next]_(Schema!schemaVars) PROVE SchemaInv'
<1> USE DEF Schema!SchemaAssumption
<1>0. SchemaShape /\ Repairing /\ Copied /\ Tables
  BY DEF SchemaInv
<1>1. CASE Schema!Inspect
  <2>1. SchemaShape'
    BY <1>0, <1>1 DEF Schema!Inspect, Schema!Goes, SchemaShape
  <2>2. Repairing'
    BY <1>0, <1>1 DEF Schema!Inspect, Schema!Goes, SchemaShape, Repairing, WasDamaged
  <2>3. Copied'
    BY <1>0, <1>1 DEF Schema!Inspect, Schema!Goes, SchemaShape, Copied, WasDamaged, Was, Repairing
  <2>4. Tables'
    BY <1>0, <1>1 DEF Schema!Inspect, Schema!Goes, SchemaShape, Tables, WasDamaged
  <2> QED
    BY <2>1, <2>2, <2>3, <2>4 DEF SchemaInv
<1>2. CASE Schema!Copy
  <2>1. SchemaShape'
    BY <1>0, <1>2 DEF Schema!Copy, Schema!Backup, Schema!Goes, SchemaShape
  <2>2. Repairing'
    BY <1>0, <1>2 DEF Schema!Copy, Schema!Backup, Schema!Goes, SchemaShape, Repairing, WasDamaged
  <2>3. Copied'
    BY <1>0, <1>2 DEF Schema!Copy, Schema!Backup, Schema!Goes, SchemaShape, Copied, WasDamaged, Was, Repairing
  <2>4. Tables'
    BY <1>0, <1>2 DEF Schema!Copy, Schema!Backup, Schema!Goes, SchemaShape, Tables, WasDamaged
  <2> QED
    BY <2>1, <2>2, <2>3, <2>4 DEF SchemaInv
<1>3. CASE Schema!Drop
  <2>1. SchemaShape'
    BY <1>0, <1>3 DEF Schema!Drop, Schema!Goes, SchemaShape
  <2>2. Repairing'
    BY <1>0, <1>3 DEF Schema!Drop, Schema!Goes, SchemaShape, Repairing, WasDamaged
  <2>3. Copied'
    BY <1>0, <1>3 DEF Schema!Drop, Schema!Goes, SchemaShape, Copied, WasDamaged, Was, Repairing
  <2>4. Tables'
    BY <1>0, <1>3 DEF Schema!Drop, Schema!Goes, SchemaShape, Tables, WasDamaged, Repairing
  <2> QED
    BY <2>1, <2>2, <2>3, <2>4 DEF SchemaInv
<1>4. CASE Schema!MakeFiles
  <2>1. SchemaShape'
    BY <1>0, <1>4 DEF Schema!MakeFiles, Schema!Goes, SchemaShape
  <2>2. Repairing'
    BY <1>0, <1>4 DEF Schema!MakeFiles, Schema!Goes, SchemaShape, Repairing, WasDamaged
  <2>3. Copied'
    BY <1>0, <1>4 DEF Schema!MakeFiles, Schema!Goes, SchemaShape, Copied, WasDamaged, Was, Repairing
  <2>4. Tables'
    BY <1>0, <1>4 DEF Schema!MakeFiles, Schema!Goes, SchemaShape, Tables, WasDamaged, Repairing
  <2> QED
    BY <2>1, <2>2, <2>3, <2>4 DEF SchemaInv
<1>5. CASE Schema!MakeLinks
  <2>1. SchemaShape'
    BY <1>0, <1>5 DEF Schema!MakeLinks, Schema!Goes, SchemaShape
  <2>2. Repairing'
    BY <1>0, <1>5 DEF Schema!MakeLinks, Schema!Goes, SchemaShape, Repairing, WasDamaged
  <2>3. Copied'
    BY <1>0, <1>5 DEF Schema!MakeLinks, Schema!Goes, SchemaShape, Copied, WasDamaged, Was, Repairing
  <2>4. Tables'
    BY <1>0, <1>5 DEF Schema!MakeLinks, Schema!Goes, SchemaShape, Tables, WasDamaged, Repairing
  <2> QED
    BY <2>1, <2>2, <2>3, <2>4 DEF SchemaInv
<1>6. CASE Schema!LookUp
  <2>1. SchemaShape'
    BY <1>0, <1>6 DEF Schema!LookUp, Schema!Goes, SchemaShape
  <2>2. Repairing'
    BY <1>0, <1>6 DEF Schema!LookUp, Schema!Goes, SchemaShape, Repairing, WasDamaged
  <2>3. Copied'
    BY <1>0, <1>6 DEF Schema!LookUp, Schema!Goes, SchemaShape, Copied, WasDamaged, Was, Repairing
  <2>4. Tables'
    BY <1>0, <1>6 DEF Schema!LookUp, Schema!Goes, SchemaShape, Tables, WasDamaged, Repairing
  <2> QED
    BY <2>1, <2>2, <2>3, <2>4 DEF SchemaInv
<1>7. CASE Schema!CopyOld
  <2>1. SchemaShape'
    BY <1>0, <1>7 DEF Schema!CopyOld, Schema!Backup, Schema!Goes, SchemaShape
  <2>2. Repairing'
    BY <1>0, <1>7 DEF Schema!CopyOld, Schema!Backup, Schema!Goes, SchemaShape, Repairing, WasDamaged
  <2>3. Copied'
    BY <1>0, <1>7 DEF Schema!CopyOld, Schema!Backup, Schema!Goes, SchemaShape, Copied, WasDamaged, Was, Repairing
  <2>4. Tables'
    BY <1>0, <1>7 DEF Schema!CopyOld, Schema!Backup, Schema!Goes, SchemaShape, Tables, WasDamaged, Repairing
  <2> QED
    BY <2>1, <2>2, <2>3, <2>4 DEF SchemaInv
<1>8. CASE Schema!Normalize
  <2>1. SchemaShape'
    BY <1>0, <1>8 DEF Schema!Normalize, Schema!Goes, SchemaShape
  <2>2. Repairing'
    BY <1>0, <1>8 DEF Schema!Normalize, Schema!Goes, SchemaShape, Repairing, WasDamaged
  <2>3. Copied'
    BY <1>0, <1>8 DEF Schema!Normalize, Schema!Goes, SchemaShape, Copied, WasDamaged, Was, Repairing
  <2>4. Tables'
    BY <1>0, <1>8 DEF Schema!Normalize, Schema!Goes, SchemaShape, Tables, WasDamaged, Repairing
  <2> QED
    BY <2>1, <2>2, <2>3, <2>4 DEF SchemaInv
<1>9. CASE Schema!Migrate
  <2>1. SchemaShape'
    BY <1>0, <1>9 DEF Schema!Migrate, Schema!Baseline, Schema!AddsColumn, Schema!Goes, SchemaShape
  <2>2. Repairing'
    BY <1>0, <1>9 DEF Schema!Migrate, Schema!Baseline, Schema!AddsColumn, Schema!Goes, SchemaShape, Repairing, WasDamaged
  <2>3. Copied'
    BY <1>0, <1>9 DEF Schema!Migrate, Schema!Baseline, Schema!AddsColumn, Schema!Goes, SchemaShape, Copied, WasDamaged, Was, Tables
  <2>4. Tables'
    <3> DEFINE next == IF version = -1 THEN 1 ELSE version + 1
    <3>0. step = "migrate" /\ version \in Int /\ version # 0 /\ origin' = origin /\ crashed' = crashed
      BY <1>0, <1>9 DEF Schema!Migrate, Schema!Goes, SchemaShape
    <3>1. CASE next > MaxVersion
      BY <1>0, <1>9, <3>0, <3>1 DEF Schema!Migrate, Schema!Goes, SchemaShape, Tables, WasDamaged, Repairing
    <3>2. CASE next <= MaxVersion /\ next = 2 /\ files # "plain"
      BY <1>0, <1>9, <3>0, <3>2 DEF Schema!Migrate, Schema!Goes, SchemaShape, Tables, WasDamaged, Repairing
    <3>3. CASE next <= MaxVersion /\ next = 1
      BY <1>0, <1>9, <3>0, <3>3 DEF Schema!Migrate, Schema!Baseline, Schema!Goes, SchemaShape, Tables, WasDamaged, Repairing
    <3>4. CASE next <= MaxVersion /\ next = 2 /\ files = "plain"
      BY <1>0, <1>9, <3>0, <3>4 DEF Schema!Migrate, Schema!AddsColumn, Schema!Goes, SchemaShape, Tables, WasDamaged, Repairing
    <3>5. CASE next <= MaxVersion /\ next \notin {1, 2}
      BY <1>0, <1>9, <3>0, <3>5 DEF Schema!Migrate, Schema!Goes, SchemaShape, Tables, WasDamaged, Repairing
    <3> QED
      BY <1>0, <3>0, <3>1, <3>2, <3>3, <3>4, <3>5 DEF SchemaShape
  <2> QED
    BY <2>1, <2>2, <2>3, <2>4 DEF SchemaInv
<1>10. CASE Schema!Crash
  <2>1. SchemaShape'
    BY <1>0, <1>10 DEF Schema!Crash, SchemaShape
  <2>2. Repairing'
    BY <1>0, <1>10 DEF Schema!Crash, SchemaShape, Repairing, WasDamaged
  <2>3. Copied'
    BY <1>0, <1>10 DEF Schema!Crash, SchemaShape, Copied, WasDamaged, Was, Repairing
  <2>4. Tables'
    BY <1>0, <1>10 DEF Schema!Crash, SchemaShape, Tables, WasDamaged, Repairing
  <2> QED
    BY <2>1, <2>2, <2>3, <2>4 DEF SchemaInv
<1>11. CASE UNCHANGED Schema!schemaVars
  BY <1>11 DEF Schema!schemaVars, SchemaInv, SchemaShape, Repairing, Copied, Tables, WasDamaged, Was
<1> QED
  BY <1>1, <1>2, <1>3, <1>4, <1>5, <1>6, <1>7, <1>8, <1>9, <1>10, <1>11 DEF Schema!Next, Schema!Steps

LEMMA SchemaGood == ASSUME Schema!SchemaAssumption, SchemaInv PROVE Schema!TypeOK /\ Schema!SchemaKept
<1> USE DEF Schema!SchemaAssumption
<1>0. SchemaShape /\ Repairing /\ Copied /\ Tables
  BY DEF SchemaInv
<1>1. Schema!TypeOK
  BY <1>0 DEF Schema!TypeOK, SchemaShape
<1>2. Schema!FoundIsKept
  BY <1>0 DEF Schema!FoundIsKept, Copied, Tables, Was, WasDamaged
<1>3. Schema!UpIsWhole
  BY <1>0 DEF Schema!UpIsWhole, SchemaShape, Repairing, Tables
<1>4. Schema!FailsOnlyThen
  BY <1>0 DEF Schema!FailsOnlyThen, Tables, WasDamaged
<1> QED
  BY <1>1, <1>2, <1>3, <1>4 DEF Schema!SchemaKept

\* Whatever the first start finds, and wherever the server ends between two statements and starts
\* again: what was found damaged or old is in a copy before it is changed, a start that succeeds
\* leaves the schema whole, and one fails for good only as FailsOnlyThen says (jossie-db/src/lib.rs
\* migrate).
THEOREM SchemaIsKept == Schema!SchemaAssumption /\ Schema!Spec => [](Schema!TypeOK /\ Schema!SchemaKept)
<1> SUFFICES ASSUME Schema!SchemaAssumption PROVE Schema!Spec => [](Schema!TypeOK /\ Schema!SchemaKept)
    OBVIOUS
<1>1. Schema!Init => SchemaInv
  BY SchemaInit
<1>2. SchemaInv /\ [Schema!Next]_(Schema!schemaVars) => SchemaInv'
  BY SchemaStep
<1>3. SchemaInv => Schema!TypeOK /\ Schema!SchemaKept
  BY SchemaGood
<1> QED
  BY <1>1, <1>2, <1>3, PTL DEF Schema!Spec

-------------------------------------------------------------------------------
(* The calls of a reply *)

CallRows ==
  [at : {"ready", "trying", "pause", "told", "late", "gone"}, attempt : 0 .. MaxAttempts, did : BOOLEAN,
   effects : Nat, answer : {"none", "ok", "error", "timed_out"}]

CallShape ==
  /\ call = [n \in DOMAIN BatchCalls |-> call[n]]
  /\ \A n \in DOMAIN BatchCalls : call[n] \in CallRows

Tried ==
  \A n \in DOMAIN BatchCalls :
    /\ call[n].at = "pause" => call[n].attempt < MaxAttempts
    /\ call[n].at = "ready" => ~call[n].did /\ call[n].attempt = 0

\* A call that changes something has an effect per attempt that did it, and one attempt.
Alone(n) == ~Batched!Policy(n).concurrent
AloneOnce ==
  \A n \in DOMAIN BatchCalls : Alone(n) =>
    /\ call[n].at # "pause"
    /\ call[n].effects = IF call[n].did THEN 1 ELSE 0
    /\ call[n].answer = "ok" => call[n].did

\* Those that change something begin in the order of the reply.
AloneInOrder ==
  \A n, k \in DOMAIN BatchCalls :
    (Alone(n) /\ Alone(k) /\ k < n /\ (call[n].at # "ready" /\ (call[n].at = "gone" => call[n].effects > 0))) => Batched!Over(k)

CallInv == CallShape /\ Tried /\ AloneOnce /\ AloneInOrder

LEMMA ReadsAreRetried == \A n \in DOMAIN BatchCalls : Batched!Policy(n).retry_transient = Batched!Policy(n).concurrent
  BY DEF Batched!Policy, Batched!Metadata

LEMMA CallInit == ASSUME Batched!ToolsAssumption, Batched!Init PROVE CallInv
  BY DEF Batched!ToolsAssumption, Batched!Init, CallInv, CallShape, Tried, AloneOnce, AloneInOrder, CallRows, Batched!Ready

\* A step of one call
LEMMA OneCall ==
  ASSUME CallInv, NEW n \in DOMAIN BatchCalls, NEW r \in CallRows,
         call' = [call EXCEPT ![n] = r],
         Batched!Over(n) => r.at = call[n].at,
         r.at = "pause" => ~Alone(n) /\ r.attempt < MaxAttempts,
         r.at # "ready",
         Alone(n) => /\ r.effects = IF r.did THEN 1 ELSE 0
                     /\ r.answer = "ok" => r.did
                     /\ call[n].at = "ready" => \A k \in DOMAIN BatchCalls : (Alone(k) /\ k < n) => Batched!Over(k)
                     /\ call[n].at = "gone" => r.effects = 0
  PROVE  CallInv'
<1>1. CallShape /\ Tried /\ AloneOnce /\ AloneInOrder
  BY DEF CallInv
<1>2. /\ \A k \in DOMAIN BatchCalls : k # n => call'[k] = call[k]
      /\ call'[n] = r
      /\ CallShape'
  BY <1>1 DEF CallShape
<1>3. Tried'
  BY <1>1, <1>2 DEF Tried
<1>4. AloneOnce'
  BY <1>1, <1>2 DEF AloneOnce, Alone
<1>5. \A k \in DOMAIN BatchCalls : Batched!Over(k) => Batched!Over(k)'
  BY <1>1, <1>2 DEF Batched!Over
<1>6. AloneInOrder'
  <2> SUFFICES ASSUME NEW m \in DOMAIN BatchCalls, NEW k \in DOMAIN BatchCalls, Alone(m), Alone(k), k < m,
                      call'[m].at # "ready", call'[m].at = "gone" => call'[m].effects > 0
               PROVE  Batched!Over(k)
    BY <1>5 DEF AloneInOrder, Alone
  <2>1. CASE m # n
    BY <1>1, <1>2, <2>1 DEF AloneInOrder
  <2>2. CASE m = n /\ call[n].at = "ready"
    BY <2>2
  <2>3. CASE m = n /\ call[n].at # "ready" /\ call[n].at # "gone"
    BY <1>1, <2>3 DEF AloneInOrder
  <2>4. CASE m = n /\ call[n].at = "gone"
    BY <1>1, <1>2, <2>4 DEF Batched!Over
  <2> QED
    BY <2>1, <2>2, <2>3, <2>4
<1> QED
  BY <1>2, <1>3, <1>4, <1>6 DEF CallInv

LEMMA TrySteps == ASSUME Batched!ToolsAssumption, CallInv, NEW n \in DOMAIN BatchCalls, Batched!Try(n) \/ Batched!Perform(n) PROVE CallInv'
<1>1. CallShape /\ Tried /\ AloneOnce /\ AloneInOrder
  BY DEF CallInv
<1>2. call[n] \in CallRows /\ MaxAttempts \in Nat \ {0}
  BY <1>1 DEF CallShape, Batched!ToolsAssumption
<1>3. /\ call[n].at = "pause" => call[n].attempt < MaxAttempts /\ ~Alone(n)
      /\ Alone(n) => /\ call[n].effects = IF call[n].did THEN 1 ELSE 0
                     /\ call[n].answer = "ok" => call[n].did
  BY <1>1 DEF Tried, AloneOnce
<1>4. CASE Batched!Start(n)
  <2> DEFINE r == [call[n] EXCEPT !.at = "trying", !.attempt = 1]
  <2> DEFINE begun == [call[n] EXCEPT !.at = "trying"]
  <2>0. begun \in CallRows /\ 1 \in 0 .. MaxAttempts
    BY <1>2 DEF CallRows
  <2>1. r \in CallRows /\ r.at = "trying" /\ r.effects = call[n].effects /\ r.did = call[n].did /\ r.answer = call[n].answer
    BY <1>2, <2>0 DEF CallRows
  <2>2. call' = [call EXCEPT ![n] = r] /\ call[n].at = "ready"
    BY <1>4 DEF Batched!Start, Batched!Becomes
  <2>3. Alone(n) => \A k \in DOMAIN BatchCalls : (Alone(k) /\ k < n) => Batched!Over(k)
    BY <1>4 DEF Batched!Start, Alone
  <2> HIDE DEF r
  <2> QED
    BY <1>3, <2>1, <2>2, <2>3, OneCall DEF Batched!Over
<1>5. CASE Batched!Perform(n)
  <2> DEFINE r == [call[n] EXCEPT !.did = TRUE, !.effects = @ + 1]
  <2> DEFINE served == [call[n] EXCEPT !.did = TRUE]
  <2>0. /\ served \in CallRows /\ served.effects = call[n].effects /\ call[n].effects + 1 \in Nat
        /\ served.at = call[n].at /\ served.did = TRUE
    <3>1. served \in CallRows
      BY <1>2 DEF CallRows
    <3>2. served.effects = call[n].effects /\ served.at = call[n].at /\ served.did = TRUE
      BY <1>2 DEF CallRows
    <3> QED
      BY <1>2, <3>1, <3>2 DEF CallRows
  <2>1. r \in CallRows /\ r.at = call[n].at /\ r.effects = call[n].effects + 1 /\ r.did = TRUE
    BY <1>2, <2>0 DEF CallRows
  <2>2. call' = [call EXCEPT ![n] = r] /\ call[n].at \in {"trying", "late"} /\ ~call[n].did
    BY <1>5 DEF Batched!Perform, Batched!Becomes
  <2>3. call[n].effects \in Nat /\ (Alone(n) => call[n].effects = 0)
    BY <1>2, <1>3, <2>2 DEF CallRows
  <2>4. Alone(n) => r.effects = IF r.did THEN 1 ELSE 0
    BY <2>1, <2>3
  <2>5. r.at \notin {"ready", "pause"} /\ (Batched!Over(n) => r.at = call[n].at) /\ r.did
    BY <2>1, <2>2 DEF Batched!Over
  <2> HIDE DEF r
  <2> QED
    BY <2>1, <2>2, <2>4, <2>5, OneCall
<1>6. CASE Batched!Succeeds(n)
  <2> DEFINE r == [call[n] EXCEPT !.at = "told", !.answer = "ok"]
  <2>1. r \in CallRows /\ r.at = "told" /\ r.effects = call[n].effects /\ r.did = call[n].did
    BY <1>2 DEF CallRows
  <2>2. call' = [call EXCEPT ![n] = r] /\ call[n].at = "trying" /\ call[n].did
    BY <1>6 DEF Batched!Succeeds, Batched!Becomes
  <2> HIDE DEF r
  <2> QED
    BY <1>3, <2>1, <2>2, OneCall DEF Batched!Over
<1>7. CASE Batched!Errs(n)
  <2>1. CASE Batched!Retries(n) /\ Batched!Becomes(n, [call[n] EXCEPT !.at = "pause"])
    <3> DEFINE r == [call[n] EXCEPT !.at = "pause"]
    <3>1. /\ r \in CallRows /\ r.at = "pause" /\ r.effects = call[n].effects /\ r.did = call[n].did
          /\ r.answer = call[n].answer /\ r.attempt = call[n].attempt
      BY <1>2 DEF CallRows
    <3>2. call' = [call EXCEPT ![n] = r] /\ call[n].at = "trying"
      BY <1>7, <2>1 DEF Batched!Errs, Batched!Becomes
    <3>3. ~Alone(n) /\ call[n].attempt < MaxAttempts
      BY <2>1, ReadsAreRetried DEF Batched!Retries, Alone
    <3> HIDE DEF r
    <3> QED
      BY <1>3, <3>1, <3>2, <3>3, OneCall DEF Batched!Over
  <2>2. CASE Batched!Becomes(n, [call[n] EXCEPT !.at = "told", !.answer = "error"])
    <3> DEFINE r == [call[n] EXCEPT !.at = "told", !.answer = "error"]
    <3>1. /\ r \in CallRows /\ r.at = "told" /\ r.effects = call[n].effects /\ r.did = call[n].did
          /\ r.answer = "error"
      BY <1>2 DEF CallRows
    <3>2. call' = [call EXCEPT ![n] = r] /\ call[n].at = "trying"
      BY <1>7, <2>2 DEF Batched!Errs, Batched!Becomes
    <3> HIDE DEF r
    <3> QED
      BY <1>3, <3>1, <3>2, OneCall DEF Batched!Over
  <2> QED
    BY <1>7, <2>1, <2>2 DEF Batched!Errs
<1>8. CASE Batched!TryAgain(n)
  <2> DEFINE r == [call[n] EXCEPT !.at = "trying", !.attempt = @ + 1, !.did = FALSE]
  <2>1. call' = [call EXCEPT ![n] = r] /\ call[n].at = "pause"
    BY <1>8 DEF Batched!TryAgain, Batched!Becomes
  <2> DEFINE begun == [call[n] EXCEPT !.at = "trying"]
             again == [begun EXCEPT !.attempt = call[n].attempt + 1]
  <2>3. begun \in CallRows /\ begun.attempt = call[n].attempt /\ call[n].attempt + 1 \in 0 .. MaxAttempts
    BY <1>2, <1>3, <2>1 DEF CallRows
  <2>4. again \in CallRows /\ again.at = "trying"
    BY <2>3 DEF CallRows
  <2>2. r \in CallRows /\ r.at = "trying"
    BY <2>4 DEF CallRows
  <2> HIDE DEF r
  <2> QED
    BY <1>3, <2>1, <2>2, OneCall DEF Batched!Over
<1>9. CASE Batched!TimesOut(n)
  <2> DEFINE r == [call[n] EXCEPT !.at = IF call[n].at = "trying" THEN "late" ELSE "told", !.answer = "timed_out"]
  <2>1. /\ r \in CallRows /\ r.at \in {"late", "told"} /\ r.effects = call[n].effects /\ r.did = call[n].did
        /\ r.answer = "timed_out"
    BY <1>2 DEF CallRows
  <2>2. call' = [call EXCEPT ![n] = r] /\ call[n].at \in {"trying", "pause"}
    BY <1>9 DEF Batched!TimesOut, Batched!Becomes
  <2> HIDE DEF r
  <2> QED
    BY <1>3, <2>1, <2>2, OneCall DEF Batched!Over
<1>10. CASE Batched!Panics(n)
  <2> DEFINE r == [call[n] EXCEPT !.at = "gone"]
  <2>1. r \in CallRows /\ r.at = "gone"
    BY <1>2 DEF CallRows
  <2>2. call' = [call EXCEPT ![n] = r] /\ call[n].at = "trying" /\ ~Alone(n)
    BY <1>10 DEF Batched!Panics, Batched!Becomes, Alone
  <2> HIDE DEF r
  <2> QED
    BY <1>3, <2>1, <2>2, OneCall DEF Batched!Over
<1> QED
  BY <1>4, <1>5, <1>6, <1>7, <1>8, <1>9, <1>10 DEF Batched!Try

LEMMA StopStep == ASSUME CallInv, Batched!StopBatch PROVE CallInv'
<1>1. CallShape /\ Tried /\ AloneOnce /\ AloneInOrder
  BY DEF CallInv
<1> DEFINE alone == {n \in DOMAIN BatchCalls : ~Batched!Policy(n).concurrent}
           nextOnes == {n \in alone : call[n].at = "ready" /\ \A k \in alone : k < n => Batched!Over(k)}
<1>2. PICK begun \in SUBSET nextOnes :
        call' = [n \in DOMAIN BatchCalls |->
                   CASE Batched!Over(n) -> call[n]
                     [] call[n].at = "trying" \/ n \in begun -> [call[n] EXCEPT !.at = "late"]
                     [] OTHER -> [call[n] EXCEPT !.at = "gone"]]
  BY DEF Batched!StopBatch
<1>3. \A n \in begun : Alone(n) /\ call[n].at = "ready" /\ \A k \in DOMAIN BatchCalls : (Alone(k) /\ k < n) => Batched!Over(k)
  BY DEF Alone
<1>4. ASSUME NEW n \in DOMAIN BatchCalls
      PROVE  \/ Batched!Over(n) /\ call'[n] = call[n]
             \/ (call[n].at = "trying" \/ n \in begun) /\ ~Batched!Over(n) /\ call'[n] = [call[n] EXCEPT !.at = "late"]
             \/ call[n].at \in {"ready", "pause"} /\ n \notin begun /\ call'[n] = [call[n] EXCEPT !.at = "gone"]
  <2>1. Batched!Over(n) => call[n].at # "trying" /\ n \notin begun
    BY <1>3 DEF Batched!Over
  <2>2. CASE Batched!Over(n)
    BY <1>2, <2>1, <2>2
  <2>3. CASE ~Batched!Over(n) /\ (call[n].at = "trying" \/ n \in begun)
    BY <1>2, <2>3
  <2>4. CASE ~Batched!Over(n) /\ ~(call[n].at = "trying" \/ n \in begun)
    <3>1. call'[n] = [call[n] EXCEPT !.at = "gone"]
      BY <1>2, <2>4
    <3>2. call[n].at \in {"ready", "pause"}
      BY <1>1, <2>4 DEF CallShape, CallRows, Batched!Over
    <3> QED
      BY <2>4, <3>1, <3>2
  <2> QED
    BY <2>2, <2>3, <2>4
<1>5. ASSUME NEW n \in DOMAIN BatchCalls
      PROVE  /\ call'[n] \in CallRows /\ Batched!Over(n)'
             /\ call'[n].did = call[n].did /\ call'[n].effects = call[n].effects /\ call'[n].answer = call[n].answer
  <2>1. call[n] \in CallRows
    BY <1>1 DEF CallShape
  <2>2. CASE Batched!Over(n) /\ call'[n] = call[n]
    BY <2>1, <2>2 DEF Batched!Over
  <2>3. CASE call'[n] = [call[n] EXCEPT !.at = "late"]
    BY <2>1, <2>3 DEF Batched!Over, CallRows
  <2>4. CASE call'[n] = [call[n] EXCEPT !.at = "gone"]
    BY <2>1, <2>4 DEF Batched!Over, CallRows
  <2> QED
    BY <1>4, <2>2, <2>3, <2>4
<1>6. CallShape'
  BY <1>2, <1>5 DEF CallShape
<1>7. Tried'
  BY <1>5 DEF Tried, Batched!Over
<1>8. AloneOnce'
  BY <1>1, <1>5 DEF AloneOnce, Alone, Batched!Over
<1>9. AloneInOrder'
  BY <1>5 DEF AloneInOrder
<1> QED
  BY <1>6, <1>7, <1>8, <1>9 DEF CallInv

LEMMA CallStep == ASSUME Batched!ToolsAssumption, CallInv, [Batched!Next]_(Batched!callVars) PROVE CallInv'
<1>1. CASE Batched!StopBatch
  BY <1>1, StopStep
<1>2. ASSUME NEW n \in DOMAIN BatchCalls, Batched!Try(n) \/ Batched!Perform(n) PROVE CallInv'
  BY <1>2, TrySteps
<1>3. CASE UNCHANGED Batched!callVars
  BY <1>3 DEF Batched!callVars, CallInv, CallShape, Tried, AloneOnce, AloneInOrder, Batched!Over, Alone
<1> QED
  BY <1>1, <1>2, <1>3 DEF Batched!Next

LEMMA CallGood == ASSUME Batched!ToolsAssumption, CallInv PROVE Batched!TypeOK /\ Batched!EffectsOnce
<1>1. CallShape /\ Tried /\ AloneOnce /\ AloneInOrder
  BY DEF CallInv
<1>2. Batched!TypeOK
  BY <1>1 DEF Batched!TypeOK, CallShape, CallRows
<1>3. Batched!EffectsOnce
  <2> SUFFICES ASSUME NEW n \in DOMAIN BatchCalls, Alone(n)
               PROVE  /\ call[n].effects <= 1
                      /\ call[n].answer = "ok" => call[n].effects = 1
                      /\ \A k \in 1 .. n - 1 :
                           (call[n].effects > 0 /\ Alone(k)) => call[k].at \notin {"ready", "trying", "pause"}
    BY DEF Batched!EffectsOnce, Alone
  <2>1. call[n].effects = (IF call[n].did THEN 1 ELSE 0) /\ (call[n].answer = "ok" => call[n].did)
    BY <1>1 DEF AloneOnce
  <2>2. call[n].effects > 0 => call[n].at # "ready"
    BY <1>1, <2>1 DEF Tried
  <2>3. \A k \in 1 .. n - 1 : k \in DOMAIN BatchCalls /\ k < n
    BY DEF Batched!ToolsAssumption
  <2>4. \A k \in 1 .. n - 1 : (call[n].effects > 0 /\ Alone(k)) => Batched!Over(k)
    BY <1>1, <2>2, <2>3 DEF AloneInOrder
  <2> QED
    BY <2>1, <2>4 DEF Batched!Over
<1> QED
  BY <1>2, <1>3

\* Whatever a reply asks for and however its calls end: one that changes something does so at most
\* once and is never told to have worked when it did not, and not before an earlier such call has
\* ended (jossie-core/src/integration/registry.rs, agent/tools.rs).
THEOREM EffectsHappenOnce == Batched!ToolsAssumption /\ Batched!Spec => [](Batched!TypeOK /\ Batched!EffectsOnce)
<1> SUFFICES ASSUME Batched!ToolsAssumption PROVE Batched!Spec => [](Batched!TypeOK /\ Batched!EffectsOnce)
    OBVIOUS
<1>1. Batched!Init => CallInv
  BY CallInit
<1>2. CallInv /\ [Batched!Next]_(Batched!callVars) => CallInv'
  BY CallStep
<1>3. CallInv => Batched!TypeOK /\ Batched!EffectsOnce
  BY CallGood
<1> QED
  BY <1>1, <1>2, <1>3, PTL DEF Batched!Spec

-------------------------------------------------------------------------------
(* The plan of a goal *)

PlanPlaces == {"idle", "list", "store", "write", "report"}

\* A step that the plan has stored, in the row it took, unless a later one took the same row.
StoredAs(n) ==
  (\A k \in n + 1 .. Len(writer.rows) : writer.rows[k] # writer.rows[n]) =>
    /\ task[writer.rows[n]].position = n
    /\ task[writer.rows[n]].status \in {writer.plan.tasks[n].status, "cancelled"}

PlanShape ==
  /\ goal \in Planning!GoalStates \union {"none"}
  /\ task \in Seq([position : Nat, status : Planning!TaskStates])
  /\ writer \in [at : PlanPlaces, plan : WorkPlans \union {Planning!Idle.plan}, existing : Seq(Nat), next : Nat, rows : Seq(Nat)]
  /\ Planning!At("idle") \/ writer.plan \in WorkPlans
  /\ told \in {"none", "stored", "error"} /\ torn \in BOOLEAN

\* The rows a plan has taken so far; the tasks are those it found and those it added.
PlanRows ==
  /\ \A k \in 1 .. Len(writer.existing) : writer.existing[k] \in 1 .. Len(task)
  /\ Planning!At("list") => writer.next = 1 /\ writer.rows = <<>> /\ writer.existing = <<>>
  /\ Planning!At("store") \/ Planning!At("write") \/ Planning!At("report") =>
       /\ writer.next \in 1 .. Len(writer.plan.tasks) + 1 /\ Len(writer.rows) = writer.next - 1
       /\ \A n \in 1 .. Len(writer.rows) : writer.rows[n] \in 1 .. Len(task) /\ StoredAs(n)
       /\ Len(task) <= Len(writer.existing) \/ Len(task) <= writer.next - 1
  /\ Planning!At("write") \/ Planning!At("report") => writer.next = Len(writer.plan.tasks) + 1

PlanInv ==
  /\ PlanShape /\ PlanRows
  /\ Planning!CompletedIsDone /\ Planning!TasksFoundAgain
  /\ Planning!At("write") /\ writer.plan.status = "completed" => Planning!Unfinished = {}

\* What is in a list.
LEMMA ListOf ==
  ASSUME NEW S, NEW s \in Seq(S)
  PROVE  DOMAIN s = 1 .. Len(s) /\ Len(s) \in Nat /\ \A i \in 1 .. Len(s) : s[i] \in S
  OBVIOUS

LEMMA AppendOf ==
  ASSUME NEW S, NEW s \in Seq(S), NEW x \in S
  PROVE  /\ Append(s, x) \in Seq(S) /\ Len(Append(s, x)) = Len(s) + 1 /\ Append(s, x)[Len(s) + 1] = x
         /\ \A i \in 1 .. Len(s) : Append(s, x)[i] = s[i]
  OBVIOUS

LEMMA PlanLibrary == \A S : Planning!Cardinality(S) = Cardinality(S)
  BY DEF Planning!Cardinality, Cardinality

\* The rows of a goal have an order: each number of rows before it belongs to one of them.
LEMMA RowsAreOrdered ==
  ASSUME task \in Seq([position : Nat, status : Planning!TaskStates])
  PROVE  \A n \in DOMAIN task : \E i \in DOMAIN task : Cardinality(Planning!Before(i)) = n - 1
<1> DEFINE rows == 1 .. Len(task)
           rank == [i \in rows |-> Cardinality(Planning!Before(i)) + 1]
<1>1. DOMAIN task = rows /\ Len(task) \in Nat /\ \A i \in rows : task[i].position \in Nat
  <2> DEFINE Row == [position : Nat, status : Planning!TaskStates]
  <2>1. DOMAIN task = rows /\ Len(task) \in Nat /\ \A i \in rows : task[i] \in Row
    BY ListOf
  <2> QED
    BY <2>1
<1>2. IsFiniteSet(rows) /\ Cardinality(rows) = Len(task)
  <2>1. 1 \in Int /\ Len(task) \in Int /\ Len(task) >= 0
    BY <1>1
  <2>2. IsFiniteSet(rows) /\ Cardinality(rows) = IF 1 > Len(task) THEN 0 ELSE Len(task) - 1 + 1
    BY <2>1, FS_Interval
  <2> QED
    BY <2>1, <2>2
<1>3. ASSUME NEW i \in rows
      PROVE  /\ Planning!Before(i) \subseteq rows \ {i} /\ IsFiniteSet(Planning!Before(i))
             /\ Cardinality(Planning!Before(i)) \in 0 .. Len(task) - 1
  <2>1. Planning!Before(i) \subseteq rows \ {i}
    BY <1>1 DEF Planning!Before
  <2>2. IsFiniteSet(rows \ {i}) /\ Cardinality(rows \ {i}) = Len(task) - 1
    BY <1>2, FS_RemoveElement
  <2>3. IsFiniteSet(Planning!Before(i)) /\ Cardinality(Planning!Before(i)) <= Len(task) - 1
    BY <2>1, <2>2, FS_Subset
  <2> QED
    BY <1>1, <2>1, <2>3, FS_CardinalityType
<1>4. rank \in [rows -> rows]
  BY <1>1, <1>3
<1>5. ASSUME NEW i \in rows, NEW j \in rows, j \in Planning!Before(i)
      PROVE  rank[j] < rank[i]
  <2>1. Planning!Before(j) \subseteq Planning!Before(i) \ {j}
    BY <1>1, <1>5 DEF Planning!Before
  <2>2. IsFiniteSet(Planning!Before(i) \ {j}) /\ Cardinality(Planning!Before(i) \ {j}) = Cardinality(Planning!Before(i)) - 1
    BY <1>3, <1>5, FS_RemoveElement
  <2>3. Cardinality(Planning!Before(j)) <= Cardinality(Planning!Before(i)) - 1
    BY <2>1, <2>2, FS_Subset
  <2> QED
    BY <2>3, <1>3
<1>6. \A i, j \in rows : i # j => i \in Planning!Before(j) \/ j \in Planning!Before(i)
  BY <1>1 DEF Planning!Before
<1>7. rank \in Injection(rows, rows)
  <2>1. ASSUME NEW i \in rows, NEW j \in rows, rank[i] = rank[j] PROVE i = j
    BY <2>1, <1>4, <1>5, <1>6
  <2> QED
    BY <1>4, <2>1 DEF Injection, IsInjective
<1>8. rank \in Surjection(rows, rows)
  BY <1>2, <1>7, FS_Injection
<1>9. ASSUME NEW n \in rows PROVE \E i \in rows : Cardinality(Planning!Before(i)) = n - 1
  <2>1. PICK i \in rows : rank[i] = n
    BY <1>8 DEF Surjection
  <2> QED
    BY <2>1, <1>3
<1> QED
  BY <1>1, <1>9

LEMMA PlanInit == Planning!Init => PlanInv
<1> SUFFICES ASSUME Planning!Init PROVE PlanInv
  OBVIOUS
<1>1. goal = "none" /\ task = <<>> /\ writer = Planning!Idle /\ told = "none" /\ torn = FALSE
  BY DEF Planning!Init
<1>2. /\ Planning!Idle.at = "idle" /\ Planning!Idle.existing = <<>> /\ Planning!Idle.next = 1 /\ Planning!Idle.rows = <<>>
      /\ Planning!Idle \in [at : PlanPlaces, plan : {Planning!Idle.plan}, existing : Seq(Nat), next : Nat, rows : Seq(Nat)]
  BY DEF Planning!Idle, PlanPlaces
<1>3. PlanShape
  <2>1. task \in Seq([position : Nat, status : Planning!TaskStates])
    BY <1>1
  <2>2. Planning!At("idle")
    BY <1>1, <1>2 DEF Planning!At
  <2> QED
    BY <1>1, <1>2, <2>1, <2>2 DEF PlanShape
<1>4. PlanRows
  BY <1>1, <1>2 DEF PlanRows, Planning!At
<1> QED
  BY <1>1, <1>2, <1>3, <1>4 DEF PlanInv, Planning!CompletedIsDone, Planning!TasksFoundAgain, Planning!At


LEMMA PlanFacts ==
  ASSUME Planning!PlanAssumption, PlanShape
  PROVE  /\ Len(task) \in Nat /\ DOMAIN task = 1 .. Len(task)
         /\ \A i \in 1 .. Len(task) : task[i] \in [position : Nat, status : Planning!TaskStates]
         /\ Len(writer.existing) \in Nat /\ DOMAIN writer.existing = 1 .. Len(writer.existing)
         /\ Len(writer.rows) \in Nat /\ DOMAIN writer.rows = 1 .. Len(writer.rows)
         /\ writer.plan \in WorkPlans =>
              /\ writer.plan.status \in Planning!GoalStates
              /\ Len(writer.plan.tasks) \in Nat /\ DOMAIN writer.plan.tasks = 1 .. Len(writer.plan.tasks)
              /\ \A n \in 1 .. Len(writer.plan.tasks) : writer.plan.tasks[n].status \in Planning!TaskStates
<1>1. task \in Seq([position : Nat, status : Planning!TaskStates])
  BY DEF PlanShape
<1>2. writer.existing \in Seq(Nat) /\ writer.rows \in Seq(Nat)
  BY DEF PlanShape
<1>3. ASSUME writer.plan \in WorkPlans
      PROVE  writer.plan.status \in Planning!GoalStates
             /\ writer.plan.tasks \in Seq([id : Nat, status : Planning!TaskStates])
  BY <1>3 DEF Planning!PlanAssumption
<1>4. ASSUME NEW row \in [id : Nat, status : Planning!TaskStates] PROVE row.status \in Planning!TaskStates
  OBVIOUS
<1> QED
  BY <1>1, <1>2, <1>3, <1>4, ListOf

\* A call that has ended, for better or worse.
LEMMA PlanOver ==
  ASSUME writer' = Planning!Idle, goal' \in Planning!GoalStates \union {"none"},
         task' \in Seq([position : Nat, status : Planning!TaskStates]),
         told' \in {"none", "stored", "error"}, torn' \in BOOLEAN,
         Planning!CompletedIsDone', Planning!TasksFoundAgain'
  PROVE  PlanInv'
<1>1. /\ Planning!Idle.at = "idle" /\ Planning!Idle.existing = <<>> /\ Planning!Idle.next = 1 /\ Planning!Idle.rows = <<>>
      /\ Planning!Idle \in [at : PlanPlaces, plan : {Planning!Idle.plan}, existing : Seq(Nat), next : Nat, rows : Seq(Nat)]
  BY DEF Planning!Idle, PlanPlaces
<1>2. Planning!At("idle")' /\ ~Planning!At("list")' /\ ~Planning!At("store")' /\ ~Planning!At("write")' /\ ~Planning!At("report")'
  BY <1>1 DEF Planning!At
<1>3. PlanShape'
  BY <1>1, <1>2 DEF PlanShape
<1>4. PlanRows'
  BY <1>1, <1>2 DEF PlanRows
<1> QED
  BY <1>2, <1>3, <1>4 DEF PlanInv

\* What a plan has stored stays stored, although a task may be cancelled.
LEMMA RowsStay ==
  ASSUME Planning!PlanAssumption, PlanShape, PlanRows,
         Len(task') = Len(task), \A i \in 1 .. Len(task) : task'[i].position = task[i].position
                                                           /\ task'[i].status \in {task[i].status, "cancelled"},
         writer'.plan = writer.plan, writer'.existing = writer.existing, writer'.next = writer.next, writer'.rows = writer.rows,
         Planning!At("list")' => Planning!At("list"),
         (Planning!At("store") \/ Planning!At("write") \/ Planning!At("report"))' =>
            Planning!At("store") \/ Planning!At("write") \/ Planning!At("report"),
         (Planning!At("write") \/ Planning!At("report"))' =>
            writer.next = Len(writer.plan.tasks) + 1
  PROVE  PlanRows'
<1>1. ASSUME NEW n \in 1 .. Len(writer.rows), writer.rows[n] \in 1 .. Len(task), StoredAs(n) PROVE StoredAs(n)'
  BY <1>1, PlanFacts DEF StoredAs
<1> QED
  BY <1>1 DEF PlanRows

\* The next task of the plan is stored.
LEMMA TaskStored ==
  ASSUME Planning!PlanAssumption, PlanInv, Planning!Store PROVE PlanInv'
<1> DEFINE n == writer.next
           row == IF Planning!Effective(n) = 0 THEN Len(task) + 1 ELSE Planning!Effective(n)
           value == [position |-> n, status |-> writer.plan.tasks[n].status]
           Row == [position : Nat, status : Planning!TaskStates]
<1>1. PlanShape /\ PlanRows
  BY DEF PlanInv
<1>2. /\ Planning!At("store") /\ n <= Len(writer.plan.tasks)
      /\ task' = IF row \in DOMAIN task THEN [task EXCEPT ![row] = value] ELSE Append(task, value)
      /\ writer' = [writer EXCEPT !.next = @ + 1, !.rows = Append(@, row)]
      /\ UNCHANGED <<goal, told, torn, counts>>
  BY DEF Planning!Store
<1>3. writer.plan \in WorkPlans /\ n \in Nat
  BY <1>1, <1>2 DEF PlanShape, Planning!At
<1>4. /\ Len(task) \in Nat /\ DOMAIN task = 1 .. Len(task)
      /\ Len(writer.existing) \in Nat /\ DOMAIN writer.existing = 1 .. Len(writer.existing)
      /\ Len(writer.rows) \in Nat /\ DOMAIN writer.rows = 1 .. Len(writer.rows)
      /\ Len(writer.plan.tasks) \in Nat /\ DOMAIN writer.plan.tasks = 1 .. Len(writer.plan.tasks)
  BY <1>1, <1>3, PlanFacts
<1>5. /\ n \in 1 .. Len(writer.plan.tasks) + 1 /\ Len(writer.rows) = n - 1
      /\ \A k \in 1 .. Len(writer.rows) : writer.rows[k] \in 1 .. Len(task) /\ StoredAs(k)
      /\ Len(task) <= Len(writer.existing) \/ Len(task) <= n - 1
      /\ \A k \in 1 .. Len(writer.existing) : writer.existing[k] \in 1 .. Len(task)
  BY <1>1, <1>2 DEF PlanRows
<1>6. value \in Row
  <2>1. n \in 1 .. Len(writer.plan.tasks)
    BY <1>2, <1>3, <1>4, <1>5
  <2>2. writer.plan.tasks[n].status \in Planning!TaskStates
    BY <1>1, <1>3, <2>1, PlanFacts
  <2> QED
    BY <1>3, <2>2
<1> DEFINE id == writer.plan.tasks[n].id
<1>0. /\ ~(\E k \in DOMAIN writer.existing : writer.existing[k] = id) =>
           Planning!Effective(n) = IF n \in DOMAIN writer.existing THEN writer.existing[n] ELSE 0
      /\ (\E k \in DOMAIN writer.existing : writer.existing[k] = id) => Planning!Effective(n) = id
  BY DEF Planning!Effective
<1> HIDE DEF id
<1>7. Planning!Effective(n) = 0 => n > Len(writer.existing)
  BY <1>0, <1>4, <1>5
<1>8. Planning!Effective(n) # 0 => Planning!Effective(n) \in 1 .. Len(task)
  BY <1>0, <1>4, <1>5
<1>9. row \in 1 .. Len(task) + 1 /\ (row \notin DOMAIN task => row = Len(task) + 1 /\ n > Len(writer.existing))
  BY <1>4, <1>7, <1>8
<1> HIDE DEF row, value, Row, n
<1>10. /\ task' \in Seq(Row) /\ Len(task') \in {Len(task), Len(task) + 1} /\ row \in 1 .. Len(task')
       /\ task'[row] = value
       /\ \A i \in 1 .. Len(task) : i # row => task'[i] = task[i]
       /\ Len(task') # Len(task) => n > Len(writer.existing)
  <2>1. task \in Seq(Row)
    BY <1>1 DEF PlanShape, Row
  <2>2. CASE row \in DOMAIN task
    BY <1>2, <1>4, <1>6, <2>1, <2>2
  <2>3. CASE row \notin DOMAIN task
    <3>1. task' = Append(task, value)
      BY <1>2, <2>3
    <3>2. /\ task' \in Seq(Row) /\ Len(task') = Len(task) + 1 /\ task'[Len(task) + 1] = value
          /\ \A i \in 1 .. Len(task) : task'[i] = task[i]
      BY <3>1, <2>1, <1>6, AppendOf
    <3> QED
      BY <3>2, <1>4, <1>9, <2>3
  <2> QED
    BY <2>2, <2>3
<1>11. writer.rows \in Seq(Nat) /\ row \in Nat
  BY <1>1, <1>9, <1>4 DEF PlanShape
<1>12. /\ writer'.at = "store" /\ writer'.plan = writer.plan /\ writer'.existing = writer.existing
       /\ writer'.next = n + 1 /\ writer'.rows = Append(writer.rows, row)
       /\ writer' \in [at : PlanPlaces, plan : WorkPlans \union {Planning!Idle.plan}, existing : Seq(Nat), next : Nat, rows : Seq(Nat)]
  <2>1. writer \in [at : PlanPlaces, plan : WorkPlans \union {Planning!Idle.plan}, existing : Seq(Nat), next : Nat, rows : Seq(Nat)]
    BY <1>1 DEF PlanShape
  <2>2. Append(writer.rows, row) \in Seq(Nat) /\ n + 1 \in Nat /\ writer.at = "store"
    BY <1>2, <1>3, <1>11 DEF Planning!At
  <2>3. writer' = [writer EXCEPT !.next = n + 1, !.rows = Append(writer.rows, row)]
    BY <1>2 DEF n
  <2> QED
    BY <2>1, <2>2, <2>3
<1>20. n <= Len(writer.plan.tasks) /\ UNCHANGED <<goal, told, torn>>
  BY <1>2
<1>13. /\ Len(writer'.rows) = n /\ writer'.rows[n] = row
       /\ \A k \in 1 .. n - 1 : writer'.rows[k] = writer.rows[k]
  BY <1>5, <1>11, <1>12
<1>14. PlanShape'
  BY <1>1, <1>2, <1>3, <1>10, <1>12 DEF PlanShape, Row
<1>15. ASSUME NEW k \in 1 .. n PROVE writer'.rows[k] \in 1 .. Len(task') /\ StoredAs(k)'
  <2>1. CASE k = n
    BY <2>1, <1>10, <1>12, <1>13 DEF StoredAs, value
  <2>2. CASE k # n /\ writer.rows[k] = row
    <3>1. n \in k + 1 .. Len(writer'.rows) /\ writer'.rows[n] = writer'.rows[k] /\ writer'.rows[k] = row
      BY <2>2, <1>3, <1>13
    <3> QED
      BY <3>1, <1>10 DEF StoredAs
  <2>3. CASE k # n /\ writer.rows[k] # row
    <3>1. k \in 1 .. Len(writer.rows) /\ writer.rows[k] \in 1 .. Len(task) /\ StoredAs(k)
      BY <2>3, <1>3, <1>5
    <3>2. task'[writer.rows[k]] = task[writer.rows[k]] /\ writer'.rows[k] = writer.rows[k]
      <4>1. task'[writer.rows[k]] = task[writer.rows[k]]
        BY <2>3, <3>1, <1>10
      <4>2. k \in 1 .. n - 1
        BY <2>3, <1>3
      <4> QED
        BY <4>1, <4>2, <1>13
    <3>3. ASSUME \A l \in k + 1 .. Len(writer'.rows) : writer'.rows[l] # writer'.rows[k]
          PROVE  \A l \in k + 1 .. Len(writer.rows) : writer.rows[l] # writer.rows[k]
      BY <3>2, <3>3, <1>3, <1>5, <1>13
    <3> QED
      <4>1. writer'.rows[k] \in 1 .. Len(task')
        BY <3>1, <3>2, <1>4, <1>10
      <4>2. writer'.plan = writer.plan
        BY <1>12
      <4> QED
        BY <3>1, <3>2, <3>3, <4>1, <4>2 DEF StoredAs
  <2> QED
    BY <2>1, <2>2, <2>3
<1>16. PlanRows'
  <2>1. \A k \in 1 .. Len(writer'.existing) : writer'.existing[k] \in 1 .. Len(task')
    <3>1. 1 .. Len(task) \subseteq 1 .. Len(task') /\ writer'.existing = writer.existing
      BY <1>4, <1>10, <1>12
    <3> QED
      BY <3>1, <1>5
  <2>2. n + 1 \in 1 .. Len(writer'.plan.tasks) + 1 /\ Len(writer'.rows) = n
    BY <1>20, <1>3, <1>4, <1>12, <1>13
  <2>3. Len(task') <= Len(writer'.existing) \/ Len(task') <= n
    <3>1. writer'.existing = writer.existing /\ n \in Nat
      BY <1>3, <1>12 DEF n
    <3>2. CASE Len(task') = Len(task)
      BY <1>4, <1>5, <3>1, <3>2
    <3>3. CASE Len(task') # Len(task)
      <4>1. Len(task') = Len(task) + 1 /\ n > Len(writer.existing)
        BY <1>10, <3>3
      <4> QED
        BY <1>4, <1>5, <3>1, <4>1
    <3> QED
      BY <3>2, <3>3
  <2>4. Planning!At("store")' /\ ~Planning!At("list")' /\ ~Planning!At("write")' /\ ~Planning!At("report")'
    BY <1>12 DEF Planning!At
  <2>5. writer'.next = n + 1 /\ (n + 1) - 1 = n
    BY <1>3, <1>12
  <2> QED
    BY <2>1, <2>2, <2>3, <2>4, <2>5, <1>15 DEF PlanRows
<1>17. Planning!TasksFoundAgain'
  <2>1. Len(task') = Len(task) \/ Len(task') <= Len(writer.plan.tasks)
    BY <1>20, <1>3, <1>4, <1>5, <1>10
  <2>2. Len(task') = Len(task) /\ task' # <<>> => task # <<>>
    BY <1>10, <1>4, <1>9
  <2> QED
    BY <2>1, <2>2, <1>3 DEF Planning!TasksFoundAgain, PlanInv
<1> QED
  <2>1. Planning!At("store")' /\ ~Planning!At("write")'
    BY <1>12 DEF Planning!At
  <2> QED
    BY <2>1, <1>14, <1>16, <1>17 DEF PlanInv, Planning!CompletedIsDone


\* The steps of one plan to the next place.
LEMMA PlanMoves ==
  ASSUME Planning!PlanAssumption, PlanInv, NEW place \in {"write", "report"},
         writer' = [writer EXCEPT !.at = place], told' = told, task' = task,
         \/ Planning!At("store") /\ place = "write" /\ writer.next > Len(writer.plan.tasks)
         \/ Planning!At("write") /\ place = "report",
         goal' \in Planning!GoalStates \union {"none"}, torn' \in BOOLEAN,
         Planning!CompletedIsDone',
         place = "write" /\ writer.plan.status = "completed" => Planning!Unfinished = {}
  PROVE  PlanInv'
<1>1. PlanShape /\ PlanRows
  BY DEF PlanInv
<1>2. /\ writer' \in [at : PlanPlaces, plan : WorkPlans \union {Planning!Idle.plan}, existing : Seq(Nat), next : Nat, rows : Seq(Nat)]
      /\ writer'.at = place /\ writer'.plan = writer.plan /\ writer'.existing = writer.existing
      /\ writer'.next = writer.next /\ writer'.rows = writer.rows
  <2>1. writer \in [at : PlanPlaces, plan : WorkPlans \union {Planning!Idle.plan}, existing : Seq(Nat), next : Nat, rows : Seq(Nat)]
    BY <1>1 DEF PlanShape
  <2> QED
    BY <2>1 DEF PlanPlaces
<1>3. Planning!At("store") \/ Planning!At("write")
  OBVIOUS
<1>4. ~Planning!At("idle") /\ writer.plan \in WorkPlans
  BY <1>1, <1>3 DEF PlanShape, Planning!At
<1>5. ~Planning!At("list")' /\ (Planning!At("write")' <=> place = "write")
  BY <1>2 DEF Planning!At
<1>6. writer.next = Len(writer.plan.tasks) + 1
  <2>1. CASE Planning!At("write")
    BY <2>1, <1>1 DEF PlanRows
  <2>2. CASE ~Planning!At("write")
    BY <2>2, <1>1, <1>3, <1>4, PlanFacts DEF PlanRows
  <2> QED
    BY <2>1, <2>2
<1>7. PlanShape'
  BY <1>1, <1>2, <1>4 DEF PlanShape
<1>8. PlanRows'
  BY <1>1, <1>2, <1>3, <1>5, <1>6, RowsStay
<1>9. Planning!TasksFoundAgain'
  BY DEF PlanInv, Planning!TasksFoundAgain
<1>10. Planning!Unfinished' = Planning!Unfinished
  BY DEF Planning!Unfinished
<1> QED
  BY <1>2, <1>5, <1>7, <1>8, <1>9, <1>10 DEF PlanInv

\* The user pauses, resumes or cancels the goal, whatever the run is about to store.
LEMMA GoalControlled ==
  ASSUME Planning!PlanAssumption, PlanInv, Planning!Pause \/ Planning!Resume \/ Planning!Cancel
  PROVE  PlanInv'
<1> DEFINE Row == [position : Nat, status : Planning!TaskStates]
<1>1. PlanShape /\ PlanRows
  BY DEF PlanInv
<1>2. UNCHANGED <<writer, told, torn>> /\ goal' \in Planning!GoalStates \ {"completed"}
  BY DEF Planning!Pause, Planning!Resume, Planning!Cancel, Planning!Controls, Planning!GoalStates
<1>3. task \in Seq(Row) /\ Len(task) \in Nat /\ DOMAIN task = 1 .. Len(task) /\ \A i \in 1 .. Len(task) : task[i] \in Row
  BY <1>1, PlanFacts DEF PlanShape
<1>4. /\ task' \in Seq(Row) /\ Len(task') = Len(task)
      /\ \A i \in 1 .. Len(task) : task'[i].position = task[i].position /\ task'[i].status \in {task[i].status, "cancelled"}
  <2>1. CASE Planning!Pause \/ Planning!Resume
    BY <2>1, <1>3 DEF Planning!Pause, Planning!Resume
  <2>2. CASE Planning!Cancel
    <3> DEFINE now(i) == IF i \in Planning!Unfinished THEN [task[i] EXCEPT !.status = "cancelled"] ELSE task[i]
    <3>1. \A i \in 1 .. Len(task) : now(i) \in Row /\ now(i).position = task[i].position
                                    /\ now(i).status \in {task[i].status, "cancelled"}
      BY <1>3 DEF Planning!TaskStates
    <3>2. task' = [i \in 1 .. Len(task) |-> now(i)]
      BY <2>2, <1>3 DEF Planning!Cancel
    <3> HIDE DEF now, Row
    <3>3. task' \in [1 .. Len(task) -> Row] /\ \A i \in 1 .. Len(task) : task'[i] = now(i)
      BY <3>1, <3>2
    <3>4. task' \in Seq(Row) /\ Len(task') = Len(task)
      BY <3>3, <1>3
    <3> QED
      BY <3>1, <3>3, <3>4
  <2> QED
    BY <2>1, <2>2
<1> HIDE DEF Row
<1>5. /\ writer' = writer
      /\ \A place \in PlanPlaces : Planning!At(place)' = Planning!At(place)
  BY <1>2 DEF Planning!At
<1>6. PlanShape'
  BY <1>1, <1>2, <1>4, <1>5 DEF PlanShape, Row, PlanPlaces
<1>7. PlanRows'
  <2>1. Planning!At("write") \/ Planning!At("report") => writer.next = Len(writer.plan.tasks) + 1
    BY <1>1 DEF PlanRows
  <2> QED
    BY <1>1, <1>4, <1>5, <2>1, RowsStay DEF PlanPlaces
<1>8. Planning!Unfinished' \subseteq Planning!Unfinished
  <2>1. DOMAIN task' = DOMAIN task
    BY <1>3, <1>4
  <2> QED
    BY <2>1, <1>3, <1>4 DEF Planning!Unfinished, Planning!Finished
<1>9. Planning!CompletedIsDone'
  BY <1>2 DEF Planning!CompletedIsDone
<1>10. Planning!TasksFoundAgain'
  <2>1. task' # <<>> => task # <<>>
    BY <1>3, <1>4
  <2> QED
    BY <2>1, <1>4 DEF PlanInv, Planning!TasksFoundAgain
<1>11. Planning!At("write")' /\ writer'.plan.status = "completed" => Planning!Unfinished' = {}
  BY <1>5, <1>8 DEF PlanInv, PlanPlaces
<1> QED
  BY <1>6, <1>7, <1>9, <1>10, <1>11 DEF PlanInv

LEMMA PlanCalled ==
  ASSUME Planning!PlanAssumption, PlanInv, NEW plan \in WorkPlans, Planning!Call(plan) PROVE PlanInv'
<1>1. PlanShape /\ PlanRows
  BY DEF PlanInv
<1>2. /\ Planning!At("idle") /\ UNCHANGED <<task, torn>> /\ ~Planning!At("store") /\ ~Planning!At("write")
  BY DEF Planning!Call, Planning!At
<1>3. Planning!Unfinished' = Planning!Unfinished /\ (Planning!TasksFoundAgain => Planning!TasksFoundAgain')
  BY <1>2 DEF Planning!Unfinished, Planning!TasksFoundAgain
<1>4. task' \in Seq([position : Nat, status : Planning!TaskStates]) /\ torn' \in BOOLEAN
  BY <1>1, <1>2 DEF PlanShape
<1>5. goal' \in Planning!GoalStates \union {"none"} /\ told' \in {"none", "stored", "error"}
      /\ (goal' = "completed" => goal = "completed")
  BY <1>1 DEF PlanShape, Planning!Call, Planning!Answers, Planning!GoalStates
<1>6. Planning!CompletedIsDone'
  BY <1>2, <1>3, <1>5 DEF PlanInv, Planning!CompletedIsDone
<1>7. CASE Planning!Valid(plan)
  <2>1. writer' = [Planning!Idle EXCEPT !.at = "list", !.plan = plan]
    BY <1>7 DEF Planning!Call
  <2>2. /\ writer' \in [at : PlanPlaces, plan : WorkPlans, existing : Seq(Nat), next : Nat, rows : Seq(Nat)]
        /\ writer'.at = "list" /\ writer'.existing = <<>> /\ writer'.next = 1 /\ writer'.rows = <<>> /\ writer'.plan = plan
    <3>1. <<>> \in Seq(Nat) /\ 1 \in Nat /\ "list" \in PlanPlaces
      BY DEF PlanPlaces
    <3>2. writer' = [at |-> "list", plan |-> plan, existing |-> <<>>, next |-> 1, rows |-> <<>>]
      BY <2>1 DEF Planning!Idle
    <3> QED
      BY <3>1, <3>2
  <2>3. Planning!At("list")' /\ ~Planning!At("store")' /\ ~Planning!At("write")' /\ ~Planning!At("report")'
    BY <2>2 DEF Planning!At
  <2>4. PlanShape'
    BY <2>2, <1>4, <1>5 DEF PlanShape
  <2>5. PlanRows'
    BY <2>2, <2>3 DEF PlanRows
  <2> QED
    BY <2>3, <2>4, <2>5, <1>3, <1>6 DEF PlanInv
<1>8. CASE ~Planning!Valid(plan)
  BY <1>8, <1>3, <1>4, <1>5, <1>6, PlanOver DEF PlanInv, Planning!Call, Planning!Answers
<1> QED
  BY <1>7, <1>8

LEMMA PlanListed ==
  ASSUME Planning!PlanAssumption, PlanInv, Planning!List PROVE PlanInv'
<1> DEFINE found == [n \in DOMAIN task |-> CHOOSE i \in DOMAIN task : Cardinality(Planning!Before(i)) = n - 1]
<1>1. PlanShape /\ PlanRows
  BY DEF PlanInv
<1>2. /\ Planning!At("list") /\ UNCHANGED <<goal, task, told, torn>>
      /\ writer' = [writer EXCEPT !.at = "store", !.existing = found]
  <2>1. /\ Planning!At("list") /\ UNCHANGED <<goal, task, told, torn>>
        /\ writer' = [writer EXCEPT !.at = "store", !.existing = [n \in DOMAIN task |->
             CHOOSE i \in DOMAIN task : Planning!Cardinality(Planning!Before(i)) = n - 1]]
    BY DEF Planning!List
  <2>2. [n \in DOMAIN task |-> CHOOSE i \in DOMAIN task : Planning!Cardinality(Planning!Before(i)) = n - 1] = found
    <3>1. ASSUME NEW n \in DOMAIN task
          PROVE  (CHOOSE i \in DOMAIN task : Planning!Cardinality(Planning!Before(i)) = n - 1)
                 = (CHOOSE i \in DOMAIN task : Cardinality(Planning!Before(i)) = n - 1)
      BY PlanLibrary
    <3> QED
      BY <3>1
  <2> QED
    BY <2>1, <2>2
<1>3. task \in Seq([position : Nat, status : Planning!TaskStates]) /\ Len(task) \in Nat /\ DOMAIN task = 1 .. Len(task)
  BY <1>1, PlanFacts DEF PlanShape
<1>4. \A n \in 1 .. Len(task) : found[n] \in 1 .. Len(task)
  BY <1>3, RowsAreOrdered
<1>5. DOMAIN found = 1 .. Len(task) /\ found = [n \in 1 .. Len(task) |-> found[n]]
  BY <1>3
<1> HIDE DEF found
<1>6. found \in Seq(Nat) /\ Len(found) = Len(task)
  BY <1>3, <1>4, <1>5
<1>7. /\ writer' \in [at : PlanPlaces, plan : WorkPlans \union {Planning!Idle.plan}, existing : Seq(Nat), next : Nat, rows : Seq(Nat)]
      /\ writer'.at = "store" /\ writer'.plan = writer.plan /\ writer'.existing = found
      /\ writer'.next = 1 /\ writer'.rows = <<>>
  <2>1. /\ writer \in [at : PlanPlaces, plan : WorkPlans \union {Planning!Idle.plan}, existing : Seq(Nat), next : Nat, rows : Seq(Nat)]
        /\ writer.next = 1 /\ writer.rows = <<>>
    BY <1>1, <1>2 DEF PlanShape, PlanRows
  <2> QED
    BY <2>1, <1>2, <1>6 DEF PlanPlaces
<1>8. Planning!At("store")' /\ ~Planning!At("list")' /\ ~Planning!At("write")' /\ ~Planning!At("report")'
  BY <1>7 DEF Planning!At
<1>9. writer.plan \in WorkPlans /\ writer'.plan = writer.plan
  BY <1>1, <1>2, <1>7 DEF PlanShape, Planning!At
<1>10. PlanShape'
  BY <1>1, <1>2, <1>7, <1>9 DEF PlanShape
<1>11. PlanRows'
  <2>1. Len(writer.plan.tasks) \in Nat /\ Len(<<>>) = 0
    BY <1>1, <1>9, PlanFacts
  <2> QED
    BY <2>1, <1>2, <1>3, <1>4, <1>6, <1>7, <1>8 DEF PlanRows
<1>12. Planning!TasksFoundAgain'
  BY <1>2 DEF PlanInv, Planning!TasksFoundAgain
<1> QED
  BY <1>8, <1>10, <1>11, <1>12 DEF PlanInv, Planning!CompletedIsDone

LEMMA PlanStep ==
  ASSUME Planning!PlanAssumption, PlanInv, [Planning!Next]_(Planning!planVars) PROVE PlanInv'
<1>1. PlanShape /\ PlanRows
  BY DEF PlanInv
<1>2. ASSUME NEW plan \in WorkPlans, Planning!Call(plan) PROVE PlanInv'
  BY <1>2, PlanCalled
<1>3. CASE Planning!List
  BY <1>3, PlanListed
<1>4. CASE Planning!Store
  BY <1>4, TaskStored
<1>5. ASSUME UNCHANGED <<goal, task>> PROVE Planning!Unfinished' = Planning!Unfinished /\ Planning!TasksFoundAgain'
  BY <1>5 DEF PlanInv, Planning!Unfinished, Planning!TasksFoundAgain
<1>6. CASE Planning!Count
  <2>1. Planning!At("store") /\ writer.next > Len(writer.plan.tasks) /\ UNCHANGED <<goal, task>>
    BY <1>6 DEF Planning!Count
  <2>2. goal' \in Planning!GoalStates \union {"none"} /\ task' \in Seq([position : Nat, status : Planning!TaskStates])
    BY <1>1, <2>1 DEF PlanShape
  <2>3. CASE writer.plan.status = "completed" /\ Planning!Unfinished # {}
    <3>1. writer' = Planning!Idle /\ told' = "error" /\ torn' = TRUE
      BY <2>3, <1>6 DEF Planning!Count, Planning!Answers
    <3> QED
      BY <3>1, <2>1, <2>2, <1>5, PlanOver DEF Planning!CompletedIsDone
  <2>4. CASE ~(writer.plan.status = "completed" /\ Planning!Unfinished # {})
    <3>1. writer' = [writer EXCEPT !.at = "write"] /\ UNCHANGED told /\ torn' = torn
      BY <2>4, <1>6 DEF Planning!Count, Planning!Goes
    <3>2. Planning!At("write")'
      BY <3>1, <1>1 DEF Planning!At, PlanShape
    <3>3. torn' \in BOOLEAN /\ Planning!CompletedIsDone'
      BY <3>1, <3>2, <1>1 DEF PlanShape, Planning!CompletedIsDone
    <3> QED
      BY <2>1, <2>2, <2>4, <3>1, <3>3, PlanMoves
  <2> QED
    BY <2>3, <2>4
<1>7. CASE Planning!Write
  <2>1. /\ Planning!At("write") /\ goal' = writer.plan.status /\ torn' = FALSE /\ task' = task
        /\ writer' = [writer EXCEPT !.at = "report"] /\ told' = told
    BY <1>7 DEF Planning!Write, Planning!Goes
  <2>2. writer.plan \in WorkPlans
    BY <1>1, <2>1 DEF PlanShape, Planning!At
  <2>3. goal' \in Planning!GoalStates \union {"none"}
    BY <2>1, <2>2, <1>1, PlanFacts
  <2>4. Planning!Unfinished' = Planning!Unfinished
    BY <2>1 DEF Planning!Unfinished
  <2>5. Planning!CompletedIsDone'
    BY <2>1, <2>4 DEF PlanInv, Planning!CompletedIsDone
  <2> QED
    BY <2>1, <2>3, <2>5, PlanMoves
<1>8. CASE Planning!Report
  <2>1. /\ Planning!At("report") /\ writer' = Planning!Idle /\ told' = "stored" /\ UNCHANGED <<goal, task, torn>>
        /\ ~Planning!At("store") /\ ~Planning!At("write")
    BY <1>8 DEF Planning!Report, Planning!Answers, Planning!At
  <2>2. Planning!CompletedIsDone' /\ Planning!TasksFoundAgain'
    BY <2>1, <1>5 DEF PlanInv, Planning!CompletedIsDone
  <2> QED
    BY <2>1, <2>2, <1>1, PlanOver DEF PlanShape
<1>9. CASE Planning!Fails
  <2>1. /\ writer' = Planning!Idle /\ told' = "error" /\ UNCHANGED <<goal, task>>
        /\ torn' = (torn \/ Planning!At("store") \/ Planning!At("write"))
    BY <1>9 DEF Planning!Fails, Planning!Answers
  <2>2. Planning!CompletedIsDone' /\ Planning!TasksFoundAgain'
    BY <2>1, <1>5, <1>1 DEF PlanInv, PlanShape, Planning!CompletedIsDone, Planning!At
  <2>3. torn' \in BOOLEAN
    BY <2>1, <1>1 DEF PlanShape, Planning!At
  <2> QED
    BY <2>1, <2>2, <2>3, <1>1, PlanOver DEF PlanShape
<1>10. CASE Planning!Pause \/ Planning!Resume \/ Planning!Cancel
  BY <1>10, GoalControlled
<1>11. CASE UNCHANGED Planning!planVars
  <2>1. UNCHANGED <<goal, task, writer, told, torn>>
    BY <1>11 DEF Planning!planVars
  <2>2. \A n : StoredAs(n)' = StoredAs(n)
    BY <2>1 DEF StoredAs
  <2>3. Planning!Unfinished' = Planning!Unfinished /\ \A place : Planning!At(place)' = Planning!At(place)
    BY <2>1 DEF Planning!Unfinished, Planning!At
  <2>4. PlanShape'
    BY <2>1, <2>3, <1>1 DEF PlanShape
  <2>5. PlanRows'
    BY <2>1, <2>2, <2>3, <1>1 DEF PlanRows
  <2> QED
    BY <2>1, <2>3, <2>4, <2>5 DEF PlanInv, Planning!CompletedIsDone, Planning!TasksFoundAgain
<1> QED
  BY <1>2, <1>3, <1>4, <1>6, <1>7, <1>8, <1>9, <1>10, <1>11 DEF Planning!Next

LEMMA PlanGood ==
  ASSUME Planning!PlanAssumption, PlanInv PROVE Planning!TypeOK /\ Planning!PlanKept
<1>1. PlanShape /\ PlanRows
  BY DEF PlanInv
<1>2. Planning!TypeOK
  <2>1. DOMAIN writer.existing = 1 .. Len(writer.existing) /\ DOMAIN task = 1 .. Len(task)
    BY <1>1, PlanFacts
  <2> QED
    BY <2>1, <1>1 DEF PlanShape, PlanRows, PlanPlaces, Planning!TypeOK
<1>3. ASSUME Planning!At("report"), NEW n \in DOMAIN writer.plan.tasks PROVE StoredAs(n)
  <2>1. writer.plan \in WorkPlans
    BY <1>1, <1>3 DEF PlanShape, Planning!At
  <2>2. n \in 1 .. Len(writer.plan.tasks) /\ Len(writer.plan.tasks) \in Nat
    BY <2>1, <1>1, PlanFacts
  <2>3. Len(writer.rows) = Len(writer.plan.tasks)
    BY <2>2, <1>1, <1>3 DEF PlanRows
  <2> QED
    BY <2>2, <2>3, <1>1, <1>3 DEF PlanRows
<1>4. Planning!PlanStored
  BY <1>3 DEF Planning!PlanStored, StoredAs
<1> QED
  BY <1>2, <1>4 DEF PlanInv, Planning!PlanKept

\* However often the model writes the plan of a goal anew, whatever fails in between and whatever
\* the user does meanwhile: a completed goal has no unfinished task unless a later plan was stored
\* in part, a plan told as stored is stored, and it finds the tasks it had (agent/tools.rs
\* process_work_plan_updates).
THEOREM PlansAreKept == Planning!PlanAssumption /\ Planning!Spec => [](Planning!TypeOK /\ Planning!PlanKept)
<1> SUFFICES ASSUME Planning!PlanAssumption PROVE Planning!Spec => [](Planning!TypeOK /\ Planning!PlanKept)
  OBVIOUS
<1>1. Planning!Init => PlanInv
  BY PlanInit
<1>2. PlanInv /\ [Planning!Next]_(Planning!planVars) => PlanInv'
  BY PlanStep
<1>3. PlanInv => Planning!TypeOK /\ Planning!PlanKept
  BY PlanGood
<1> QED
  BY <1>1, <1>2, <1>3, PTL DEF Planning!Spec

-------------------------------------------------------------------------------
(* What the library folds over a sequence *)

\* Induction up to N, for the set of the numbers of which something holds.
LEMMA Induction ==
  ASSUME NEW N \in Nat, NEW P, 0 \in P, \A n \in 1 .. N : n - 1 \in P => n \in P
  PROVE  \A n \in 0 .. N : n \in P
<1> SUFFICES ASSUME NEW n \in 0 .. N, n \notin P PROVE FALSE
  OBVIOUS
<1> DEFINE T == {m \in 0 .. N : m \notin P}
<1>1. T \in SUBSET Nat /\ n \in T
  OBVIOUS
<1>2. PICK m \in T : \A k \in T : m <= k
  BY <1>1, Least
<1>3. m \in 1 .. N /\ m - 1 \in 0 .. N /\ m - 1 \notin T
  BY <1>2
<1> QED
  BY <1>2, <1>3

LEMMA UpTo ==
  ASSUME NEW n \in Nat, NEW i \in 1 .. n
  PROVE  /\ 1 .. i \in SUBSET (1 .. n) /\ 1 .. i # {} /\ Max(1 .. i) = i /\ (1 .. i) \ {i} = 1 .. i - 1
<1>1. i \in Nat /\ 1 .. i \in SUBSET (0 .. i) /\ i \in 1 .. i /\ 1 .. i # {}
  OBVIOUS
<1>2. Max(1 .. i) \in 1 .. i /\ i <= Max(1 .. i)
  BY <1>1, Greatest
<1> QED
  BY <1>2

LEMMA GreatestOf ==
  ASSUME NEW n \in Nat, NEW s \in SUBSET (1 .. n), s # {}
  PROVE  Max(s) \in s /\ Max(s) \in 1 .. n /\ \A k \in s : k <= Max(s)
<1>1. s \in SUBSET (0 .. n)
  OBVIOUS
<1> QED
  BY <1>1, Greatest

\* A fold takes the greatest number of a set off it, and steps from what it has of the rest.
Folds(it, zero, go, s) == it[s] = IF s = {} THEN zero ELSE go[Max(s)][it[s \ {Max(s)}]]

LEMMA FoldIsThere ==
  ASSUME NEW n \in Nat, NEW V, NEW zero \in V, NEW go \in [1 .. n -> [V -> V]]
  PROVE  \E it \in [SUBSET (1 .. n) -> V] : \A s \in SUBSET (1 .. n) : Folds(it, zero, go, s)
<1> DEFINE Good(k) == \E it \in [SUBSET (1 .. k) -> V] : \A s \in SUBSET (1 .. k) : Folds(it, zero, go, s)
           P == {k \in 0 .. n : Good(k)}
<1>1. 0 \in P
  <2> DEFINE none == [s \in SUBSET (1 .. 0) |-> zero]
  <2>1. none \in [SUBSET (1 .. 0) -> V] /\ \A s \in SUBSET (1 .. 0) : s = {} /\ none[s] = zero
    OBVIOUS
  <2> HIDE DEF none
  <2>2. Good(0)
    BY <2>1 DEF Folds
  <2> HIDE DEF Good
  <2> QED
    BY <2>2
<1>2. ASSUME NEW k \in 1 .. n, k - 1 \in P PROVE k \in P
  <2>1. PICK less \in [SUBSET (1 .. k - 1) -> V] : \A s \in SUBSET (1 .. k - 1) : Folds(less, zero, go, s)
    BY <1>2
  <2> DEFINE it == [s \in SUBSET (1 .. k) |-> IF k \in s THEN go[k][less[s \ {k}]] ELSE less[s]]
  <2>2. \A s \in SUBSET (1 .. k) : s \ {k} \in SUBSET (1 .. k - 1) /\ (k \notin s => s \in SUBSET (1 .. k - 1))
    OBVIOUS
  <2>3. k \in 1 .. n /\ go[k] \in [V -> V]
    OBVIOUS
  <2>4. ASSUME NEW s \in SUBSET (1 .. k) PROVE it[s] \in V
    <3>1. CASE k \in s
      BY <2>2, <2>3, <3>1
    <3>2. CASE k \notin s
      BY <2>2, <3>2
    <3> QED
      BY <3>1, <3>2
  <2>5. ASSUME NEW s \in SUBSET (1 .. k - 1) PROVE s \in SUBSET (1 .. k) /\ it[s] = less[s]
    <3>1. k \notin s /\ s \in SUBSET (1 .. k)
      OBVIOUS
    <3> QED
      BY <3>1
  <2>6. ASSUME NEW s \in SUBSET (1 .. k) PROVE Folds(it, zero, go, s)
    <3>1. CASE k \in s
      <4>1. Max(s) = k
        <5>1. Max(s) \in 1 .. k /\ k <= Max(s)
          BY <3>1, GreatestOf
        <5> QED
          BY <5>1
      <4>2. it[s] = go[k][less[s \ {k}]] /\ it[s \ {k}] = less[s \ {k}]
        BY <3>1, <2>2, <2>5
      <4> HIDE DEF it
      <4> QED
        BY <3>1, <4>1, <4>2 DEF Folds
    <3>2. CASE k \notin s /\ s = {}
      <4>1. it[s] = less[s] /\ s \in SUBSET (1 .. k - 1)
        BY <3>2, <2>2, <2>5
      <4> HIDE DEF it
      <4> QED
        BY <3>2, <4>1, <2>1 DEF Folds
    <3>3. CASE k \notin s /\ s # {}
      <4>1. it[s] = less[s] /\ s \in SUBSET (1 .. k - 1)
        BY <3>3, <2>2, <2>5
      <4>2. s \ {Max(s)} \in SUBSET (1 .. k - 1)
        BY <4>1
      <4>3. it[s \ {Max(s)}] = less[s \ {Max(s)}]
        BY <4>2, <2>5
      <4> HIDE DEF it
      <4> QED
        BY <3>3, <4>1, <4>3, <2>1 DEF Folds
    <3> QED
      BY <3>1, <3>2, <3>3
  <2> HIDE DEF it
  <2>7. it \in [SUBSET (1 .. k) -> V]
    <3>1. it = [s \in SUBSET (1 .. k) |-> it[s]]
      BY DEF it
    <3> QED
      BY <3>1, <2>4
  <2>8. Good(k)
    BY <2>6, <2>7
  <2> HIDE DEF Good
  <2> QED
    BY <2>8
<1> HIDE DEF P
<1>3. n \in P
  <2>1. \A k \in 1 .. n : k - 1 \in P => k \in P
    BY <1>2
  <2>2. \A k \in 0 .. n : k \in P
    BY <1>1, <2>1, Induction
  <2> QED
    BY <2>2
<1> QED
  BY <1>3 DEF P

\* What a fold has of the first numbers, one after the other, as long as its steps stay in V.
\* Where it can step, it does.
Going(it, zero, go, n, V) ==
  /\ it[{}] = zero
  /\ \A s \in SUBSET (1 .. n) : (s # {} /\ it[s \ {Max(s)}] \in V) => Folds(it, zero, go, s)

\* It went, by its steps, from nothing to what it has of all.
Gone(it, zero, go, n, V) ==
  \E c \in [0 .. n -> V] : c[0] = zero /\ c[n] = it[1 .. n] /\ \A i \in 1 .. n : c[i] = go[i][c[i - 1]]

LEMMA FoldGoes ==
  ASSUME NEW n \in Nat, NEW V, NEW zero \in V, NEW go \in [1 .. n -> [V -> V]]
  PROVE  \A it : Going(it, zero, go, n, V) => Gone(it, zero, go, n, V)
<1> SUFFICES ASSUME NEW it, Going(it, zero, go, n, V)
             PROVE  \E c \in [0 .. n -> V] :
                      c[0] = zero /\ c[n] = it[1 .. n] /\ \A i \in 1 .. n : c[i] = go[i][c[i - 1]]
  BY DEF Gone
<1> USE DEF Going
<1> DEFINE c == [i \in 0 .. n |-> it[1 .. i]]
           P == {i \in 0 .. n : c[i] \in V}
<1>1. c[0] = zero /\ c[n] = it[1 .. n]
  <2>1. 1 .. 0 = {}
    OBVIOUS
  <2> QED
    BY <2>1
<1>2. ASSUME NEW i \in 1 .. n, c[i - 1] \in V PROVE c[i] = go[i][c[i - 1]] /\ c[i] \in V
  <2>1. c[i] = it[1 .. i] /\ c[i - 1] = it[1 .. i - 1]
    OBVIOUS
  <2>2. 1 .. i \in SUBSET (1 .. n) /\ 1 .. i # {} /\ Max(1 .. i) = i /\ (1 .. i) \ {i} = 1 .. i - 1
    BY UpTo
  <2> HIDE DEF c
  <2>3. Folds(it, zero, go, 1 .. i)
    BY <1>2, <2>1, <2>2
  <2>4. c[i] = go[i][c[i - 1]]
    BY <2>1, <2>2, <2>3 DEF Folds
  <2>5. go[i] \in [V -> V]
    OBVIOUS
  <2> QED
    BY <1>2, <2>4, <2>5
<1>3. DOMAIN c = 0 .. n /\ c = [i \in 0 .. n |-> c[i]]
  OBVIOUS
<1> HIDE DEF c
<1>4. 0 \in P
  BY <1>1
<1>5. ASSUME NEW i \in 1 .. n, i - 1 \in P PROVE i \in P
  BY <1>2, <1>5
<1> HIDE DEF P
<1>6. \A i \in 0 .. n : i \in P
  BY <1>4, <1>5, Induction
<1>7. \A i \in 0 .. n : c[i] \in V
  BY <1>6 DEF P
<1>8. c \in [0 .. n -> V]
  BY <1>3, <1>7
<1>9. \A i \in 1 .. n : c[i] = go[i][c[i - 1]]
  <2> TAKE i \in 1 .. n
  <2>1. i - 1 \in 0 .. n
    OBVIOUS
  <2> QED
    BY <1>2, <1>7, <2>1
<1> QED
  BY <1>1, <1>8, <1>9

-------------------------------------------------------------------------------
(* The registry, and the size of results *)

LEMMA BatchedLibrary == \A S : Batched!Max(S) = Max(S) /\ Batched!Min(S) = Min(S)
<1>1. \A S : Batched!Max(S) = Max(S)
  BY DEF Max, Batched!Max
<1>2. \A S : Batched!Min(S) = Min(S)
  BY DEF Min, Batched!Min
<1> QED
  BY <1>1, <1>2

Integrations(names, toolNames) == [name : names, tools : SUBSET toolNames, shown : SUBSET toolNames]
\* Who executes what, as register keeps it.
Owned(r) ==
  /\ r.shown \subseteq DOMAIN r.owner
  /\ \A k \in DOMAIN r.integrations : \A t \in r.integrations[k].tools : t \in DOMAIN r.owner /\ r.owner[t] = k
Owners(toolNames) == UNION {[D -> Nat] : D \in SUBSET toolNames}
Registries(names, toolNames) ==
  {r \in [integrations : Seq(Integrations(names, toolNames)), owner : Owners(toolNames), shown : SUBSET toolNames] : Owned(r)}
NoneYet == [integrations |-> <<>>, owner |-> <<>>, shown |-> {}]

LEMMA NoneOwned == ASSUME NEW names, NEW toolNames PROVE NoneYet \in Registries(names, toolNames)
<1>1. <<>> \in [{} -> Nat]
  OBVIOUS
<1>2. <<>> \in Owners(toolNames)
  BY <1>1 DEF Owners
<1>3. NoneYet \in [integrations : Seq(Integrations(names, toolNames)), owner : Owners(toolNames), shown : SUBSET toolNames]
  BY <1>2 DEF NoneYet
<1>4. Owned(NoneYet)
  BY DEF Owned, NoneYet
<1> QED
  BY <1>3, <1>4 DEF Registries

LEMMA RegisterKeeps ==
  ASSUME NEW names, NEW toolNames, NEW r \in Registries(names, toolNames), NEW x \in Integrations(names, toolNames)
  PROVE  Batched!Register(r, x) \in Registries(names, toolNames)
<1> DEFINE n == Len(r.integrations) + 1
           D == DOMAIN r.owner \union x.tools
           more == [integrations |-> Append(r.integrations, x),
                    owner |-> [t \in D |-> IF t \in x.tools THEN n ELSE r.owner[t]],
                    shown |-> r.shown \union x.shown]
<1>1. /\ r.integrations \in Seq(Integrations(names, toolNames)) /\ r.owner \in Owners(toolNames)
      /\ r.shown \in SUBSET toolNames /\ Owned(r)
  BY DEF Registries
<1>2. x.tools \in SUBSET toolNames /\ x.shown \in SUBSET toolNames
  BY DEF Integrations
<1>3. \/ Batched!Register(r, x) = r
      \/ /\ Batched!Register(r, x) = more
         /\ x.tools \intersect DOMAIN r.owner = {} /\ x.shown \subseteq x.tools
  BY DEF Batched!Register
<1>4. ASSUME x.tools \intersect DOMAIN r.owner = {}, x.shown \subseteq x.tools
      PROVE  more \in Registries(names, toolNames)
  <2>1. PICK E \in SUBSET toolNames : r.owner \in [E -> Nat]
    BY <1>1 DEF Owners
  <2>2. D \in SUBSET toolNames /\ n \in Nat /\ DOMAIN r.owner = E
    BY <1>1, <1>2, <2>1
  <2>3. more.owner \in [D -> Nat]
    <3>1. \A t \in D : t \notin x.tools => r.owner[t] \in Nat
      BY <2>1, <2>2
    <3> HIDE DEF n
    <3> QED
      BY <2>2, <3>1
  <2>4. more.owner \in Owners(toolNames)
    BY <2>2, <2>3 DEF Owners
  <2>5. more.integrations \in Seq(Integrations(names, toolNames)) /\ more.shown \in SUBSET toolNames
    BY <1>1, <1>2
  <2>6. more \in [integrations : Seq(Integrations(names, toolNames)), owner : Owners(toolNames), shown : SUBSET toolNames]
    BY <2>4, <2>5
  <2>7. more.shown \subseteq DOMAIN more.owner
    BY <1>1, <1>4 DEF Owned
  <2>8. ASSUME NEW k \in DOMAIN more.integrations, NEW t \in more.integrations[k].tools
        PROVE  t \in DOMAIN more.owner /\ more.owner[t] = k
    <3>1. more.integrations = Append(r.integrations, x) /\ Len(r.integrations) \in Nat
      BY <1>1
    <3>2. CASE k = n
      <4>1. more.integrations[k] = x
        BY <1>1, <3>1, <3>2
      <4> QED
        BY <2>8, <3>2, <4>1
    <3>3. CASE k # n
      <4>1. k \in DOMAIN r.integrations /\ more.integrations[k] = r.integrations[k]
        BY <1>1, <3>1, <3>3
      <4>2. t \in DOMAIN r.owner /\ r.owner[t] = k
        BY <1>1, <2>8, <4>1 DEF Owned
      <4> QED
        BY <1>4, <4>2
    <3> QED
      BY <3>2, <3>3
  <2> HIDE DEF more
  <2> QED
    BY <2>6, <2>7, <2>8 DEF Registries, Owned
<1> QED
  BY <1>3, <1>4

RegistryFrom(xs, it, s) ==
  IF s = {} THEN NoneYet ELSE Batched!Register(it[s \ {Batched!Max(s)}], xs[Batched!Max(s)])

LEMMA RegistryIsFold ==
  ASSUME NEW xs
  PROVE  Batched!Registry(xs) = (CHOOSE it : it = [s \in SUBSET DOMAIN xs |-> RegistryFrom(xs, it, s)])[DOMAIN xs]
  BY DEF Batched!Registry, Batched!FoldLeft, Batched!MapThenFoldSet, RegistryFrom, NoneYet

\* Whatever integrations register in whatever order, a tool that is shown to the model is
\* executed by the one integration that has it (registry.rs 166-200).
THEOREM RegistryIsSound ==
  ASSUME NEW names, NEW toolNames, NEW xs \in Seq(Integrations(names, toolNames))
  PROVE  Batched!RegistrySound(xs)
<1> DEFINE n == Len(xs)
           V == Registries(names, toolNames)
           go == [i \in 1 .. n |-> [r \in V |-> Batched!Register(r, xs[i])]]
           it == CHOOSE it : it = [s \in SUBSET (1 .. n) |-> RegistryFrom(xs, it, s)]
<1>1. n \in Nat /\ DOMAIN xs = 1 .. n /\ \A i \in 1 .. n : xs[i] \in Integrations(names, toolNames)
  OBVIOUS
<1>2. NoneYet \in V
  BY NoneOwned
<1>3. go \in [1 .. n -> [V -> V]]
  BY <1>1, RegisterKeeps
<1>4. \A i \in 1 .. n, r \in V : go[i][r] = Batched!Register(r, xs[i])
  OBVIOUS
<1> HIDE DEF go, V, n
<1>5. PICK some \in [SUBSET (1 .. n) -> V] : \A s \in SUBSET (1 .. n) : Folds(some, NoneYet, go, s)
  BY <1>1, <1>2, <1>3, FoldIsThere
<1>6. ASSUME NEW f, NEW s \in SUBSET (1 .. n), s # {}, f[s \ {Max(s)}] \in V
      PROVE  RegistryFrom(xs, f, s) = go[Max(s)][f[s \ {Max(s)}]]
  <2>1. Max(s) \in 1 .. n /\ Batched!Max(s) = Max(s)
    BY <1>1, <1>6, GreatestOf, BatchedLibrary
  <2> QED
    BY <1>4, <1>6, <2>1 DEF RegistryFrom
<1>7. some = [s \in SUBSET (1 .. n) |-> RegistryFrom(xs, some, s)]
  <2>1. ASSUME NEW s \in SUBSET (1 .. n) PROVE some[s] = RegistryFrom(xs, some, s)
    <3>1. CASE s = {}
      BY <1>5, <3>1 DEF Folds, RegistryFrom
    <3>2. CASE s # {}
      <4>1. some[s \ {Max(s)}] \in V
        BY <1>5
      <4> QED
        BY <1>5, <1>6, <3>2, <4>1 DEF Folds
    <3> QED
      BY <3>1, <3>2
  <2> QED
    BY <2>1
<1>8. it = [s \in SUBSET (1 .. n) |-> RegistryFrom(xs, it, s)]
  BY <1>7
<1>9. Batched!Registry(xs) = it[1 .. n]
  BY <1>1, RegistryIsFold
<1> HIDE DEF it
<1>10. it[{}] = NoneYet
  BY <1>8 DEF RegistryFrom
<1>11. ASSUME NEW s \in SUBSET (1 .. n), s # {}, it[s \ {Max(s)}] \in V PROVE Folds(it, NoneYet, go, s)
  BY <1>6, <1>8, <1>11 DEF Folds
<1>12. Going(it, NoneYet, go, n, V)
  BY <1>10, <1>11 DEF Going
<1>13. \E c \in [0 .. n -> V] : c[0] = NoneYet /\ c[n] = it[1 .. n] /\ \A i \in 1 .. n : c[i] = go[i][c[i - 1]]
  BY <1>1, <1>2, <1>3, <1>12, FoldGoes DEF Gone
<1>14. it[1 .. n] \in V
  BY <1>1, <1>13
<1> QED
  BY <1>9, <1>14 DEF V, Registries, Owned, Batched!RegistrySound

LEMMA OfTwo ==
  ASSUME NEW a \in Nat, NEW b \in Nat
  PROVE  /\ Max({a, b}) \in Nat /\ Max({a, b}) >= a /\ Max({a, b}) >= b /\ Max({a, b}) \in {a, b}
         /\ Min({a, b}) \in Nat /\ Min({a, b}) <= a /\ Min({a, b}) <= b /\ Min({a, b}) \in {a, b}
<1>1. \E x \in {a, b} : \A y \in {a, b} : x >= y
  OBVIOUS
<1>2. Max({a, b}) \in {a, b} /\ \A y \in {a, b} : Max({a, b}) >= y
  BY <1>1 DEF Max
<1>3. \E x \in {a, b} : \A y \in {a, b} : x <= y
  OBVIOUS
<1>4. Min({a, b}) \in {a, b} /\ \A y \in {a, b} : Min({a, b}) <= y
  BY <1>3 DEF Min
<1> QED
  BY <1>2, <1>4

SumFrom(cut, it, s) ==
  IF s = {} THEN 0 ELSE it[s \ {Batched!Max(s)}] + cut[Batched!Max(s)]
SumOf(cut) == (CHOOSE it : it = [s \in SUBSET DOMAIN cut |-> SumFrom(cut, it, s)])[DOMAIN cut]

LEMMA FitsIsSum ==
  ASSUME NEW sizes, NEW limit, NEW smallest
  PROVE  Batched!BatchFits(sizes, limit, smallest) <=>
           (sizes # <<>> =>
              /\ SumOf(Batched!Compacted(sizes, limit, smallest)) <= Max({limit, smallest * Len(sizes)})
              /\ \A n \in DOMAIN Batched!Compacted(sizes, limit, smallest) :
                   Batched!Compacted(sizes, limit, smallest)[n] < sizes[n] =>
                     Batched!Compacted(sizes, limit, smallest)[n] >= smallest)
<1>1. Batched!Max({limit, smallest * Len(sizes)}) = Max({limit, smallest * Len(sizes)})
  BY BatchedLibrary
<1> QED
  BY <1>1 DEF Batched!BatchFits, Batched!FoldLeft, Batched!MapThenFoldSet, SumOf, SumFrom

LEMMA SumBounded ==
  ASSUME NEW n \in Nat, NEW share \in Nat, NEW cut \in [1 .. n -> 0 .. share]
  PROVE  SumOf(cut) \in Nat /\ SumOf(cut) <= share * n
<1> DEFINE go == [i \in 1 .. n |-> [r \in Nat |-> r + cut[i]]]
           it == CHOOSE it : it = [s \in SUBSET (1 .. n) |-> SumFrom(cut, it, s)]
<1>1. DOMAIN cut = 1 .. n /\ \A i \in 1 .. n : cut[i] \in Nat /\ cut[i] <= share
  OBVIOUS
<1>2. 0 \in Nat
  OBVIOUS
<1>3. go \in [1 .. n -> [Nat -> Nat]]
  BY <1>1
<1>4. \A i \in 1 .. n, r \in Nat : go[i][r] = r + cut[i]
  OBVIOUS
<1> HIDE DEF go
<1>5. PICK some \in [SUBSET (1 .. n) -> Nat] : \A s \in SUBSET (1 .. n) : Folds(some, 0, go, s)
  BY <1>2, <1>3, FoldIsThere
<1>6. ASSUME NEW f, NEW s \in SUBSET (1 .. n), s # {}, f[s \ {Max(s)}] \in Nat
      PROVE  SumFrom(cut, f, s) = go[Max(s)][f[s \ {Max(s)}]]
  <2>1. Max(s) \in 1 .. n /\ Batched!Max(s) = Max(s)
    BY <1>6, GreatestOf, BatchedLibrary
  <2> QED
    BY <1>4, <1>6, <2>1 DEF SumFrom
<1>7. some = [s \in SUBSET (1 .. n) |-> SumFrom(cut, some, s)]
  <2>1. ASSUME NEW s \in SUBSET (1 .. n) PROVE some[s] = SumFrom(cut, some, s)
    <3>1. CASE s = {}
      BY <1>5, <3>1 DEF Folds, SumFrom
    <3>2. CASE s # {}
      <4>1. some[s \ {Max(s)}] \in Nat
        BY <1>5
      <4> QED
        BY <1>5, <1>6, <3>2, <4>1 DEF Folds
    <3> QED
      BY <3>1, <3>2
  <2> QED
    BY <2>1
<1>8. it = [s \in SUBSET (1 .. n) |-> SumFrom(cut, it, s)]
  BY <1>7
<1>9. SumOf(cut) = it[1 .. n]
  BY <1>1 DEF SumOf
<1> HIDE DEF it
<1>10. it[{}] = 0
  BY <1>8 DEF SumFrom
<1>11. ASSUME NEW s \in SUBSET (1 .. n), s # {}, it[s \ {Max(s)}] \in Nat PROVE Folds(it, 0, go, s)
  BY <1>6, <1>8, <1>11 DEF Folds
<1>12. Going(it, 0, go, n, Nat)
  BY <1>10, <1>11 DEF Going
<1>13. Gone(it, 0, go, n, Nat)
  BY <1>2, <1>3, <1>12, FoldGoes
<1>14. PICK c \in [0 .. n -> Nat] : c[0] = 0 /\ c[n] = it[1 .. n] /\ \A i \in 1 .. n : c[i] = go[i][c[i - 1]]
  BY <1>13 DEF Gone
<1> DEFINE P == {i \in 0 .. n : c[i] <= share * i}
<1>15. 0 \in P
  BY <1>14
<1>16. ASSUME NEW i \in 1 .. n, i - 1 \in P PROVE i \in P
  <2>1. i - 1 \in 0 .. n /\ c[i - 1] \in Nat /\ c[i - 1] <= share * (i - 1) /\ cut[i] \in Nat /\ cut[i] <= share
    BY <1>1, <1>14, <1>16
  <2>2. c[i] = c[i - 1] + cut[i]
    BY <1>4, <1>14, <2>1
  <2>3. share * i = share * (i - 1) + share
    OBVIOUS
  <2>4. share * i \in Nat /\ share * (i - 1) \in Nat
    OBVIOUS
  <2> QED
    BY <2>1, <2>2, <2>3, <2>4
<1> HIDE DEF P
<1>17. \A i \in 0 .. n : i \in P
  BY <1>15, <1>16, Induction
<1>18. n \in P
  BY <1>17
<1> QED
  BY <1>9, <1>14, <1>18 DEF P

\* The results of a batch together keep the limit, or each of them is at the smallest share, and
\* none is cut below it (compact_tool_batch), whatever there is of them.
THEOREM BatchIsCut ==
  ASSUME NEW sizes \in Seq(Nat), NEW limit \in Nat, NEW smallest \in Nat
  PROVE  Batched!BatchFits(sizes, limit, smallest)
<1> SUFFICES ASSUME sizes # <<>>
             PROVE  /\ SumOf(Batched!Compacted(sizes, limit, smallest)) <= Max({limit, smallest * Len(sizes)})
                    /\ \A n \in DOMAIN Batched!Compacted(sizes, limit, smallest) :
                         Batched!Compacted(sizes, limit, smallest)[n] < sizes[n] =>
                           Batched!Compacted(sizes, limit, smallest)[n] >= smallest
  BY FitsIsSum
<1> DEFINE n == Len(sizes)
           even == limit \div n
           share == Max({even, smallest})
           cut == Batched!Compacted(sizes, limit, smallest)
<1>1. n \in Nat /\ n > 0 /\ DOMAIN sizes = 1 .. n /\ \A i \in 1 .. n : sizes[i] \in Nat
  OBVIOUS
<1>2. even \in Nat /\ even * n <= limit
  BY <1>1, SMTT(30)
<1>3. share \in Nat /\ share >= smallest /\ share \in {even, smallest}
  BY <1>2, OfTwo
<1>4. cut = [i \in 1 .. n |-> Min({sizes[i], share})]
  BY <1>1, BatchedLibrary DEF Batched!Compacted
<1> HIDE DEF cut, share, even, n
<1>5. \A i \in 1 .. n : cut[i] \in 0 .. share /\ cut[i] \in {sizes[i], share}
  <2> TAKE i \in 1 .. n
  <2>1. cut[i] = Min({sizes[i], share})
    BY <1>4
  <2>2. sizes[i] \in Nat /\ share \in Nat
    BY <1>1, <1>3
  <2>3. cut[i] \in Nat /\ cut[i] <= share /\ cut[i] \in {sizes[i], share}
    BY <2>1, <2>2, OfTwo
  <2> QED
    BY <2>2, <2>3
<1>6. cut \in [1 .. n -> 0 .. share]
  BY <1>4, <1>5
<1>7. SumOf(cut) \in Nat /\ SumOf(cut) <= share * n
  BY <1>1, <1>3, <1>6, SumBounded
<1>8. smallest * n \in Nat
  BY <1>1
<1>9. Max({limit, smallest * n}) \in Nat /\ Max({limit, smallest * n}) >= limit /\ Max({limit, smallest * n}) >= smallest * n
  BY <1>8, OfTwo
<1>10. SumOf(cut) <= Max({limit, smallest * n})
  <2>1. share * n <= limit \/ share * n = smallest * n
    BY <1>2, <1>3
  <2>2. share * n \in Nat
    BY <1>1, <1>3
  <2> QED
    BY <1>7, <1>8, <1>9, <2>1, <2>2
<1>11. \A i \in DOMAIN cut : cut[i] < sizes[i] => cut[i] >= smallest
  BY <1>1, <1>3, <1>4, <1>5
<1> QED
  BY <1>10, <1>11 DEF cut, n

-------------------------------------------------------------------------------
(* Pages, and the time of a code *)

LEMMA LearntLibrary == \A S : Learnt!Max(S) = Max(S)
  BY DEF Max, Learnt!Max

LEMMA LearntCardinality == \A S : Learnt!Cardinality(S) = Cardinality(S)
  BY DEF Cardinality, Learnt!Cardinality

LEMMA CardinalityKept == \A S : IsFiniteSet(S) => \A T \in SUBSET S :
                           IsFiniteSet(T) /\ Cardinality(T) \in Nat /\ Cardinality(S) \in Nat /\ Cardinality(T) <= Cardinality(S)
<1> TAKE S
<1> HAVE IsFiniteSet(S)
<1> TAKE T \in SUBSET S
<1>1. IsFiniteSet(T) /\ Cardinality(T) <= Cardinality(S)
  BY FS_Subset
<1> QED
  BY <1>1, FS_CardinalityType

After(E, after) == {e \in E : e > after}
PageOf(E, after, p) ==
  \/ p.cursor = 0 /\ p.edges = After(E, after)
  \/ p.cursor \in Nat /\ p.cursor > after /\ p.edges = {e \in E : e > after /\ e <= p.cursor}

LEMMA PageIs ==
  ASSUME NEW E \in SUBSET Nat, IsFiniteSet(E), NEW after \in Nat, NEW limit \in Nat \ {0}
  PROVE  PageOf(E, after, Learnt!Page(E, after, limit))
<1> DEFINE later == After(E, after)
           Before(e) == {x \in later : x < e}
           page == {e \in later : Cardinality(Before(e)) < limit}
           p == Learnt!Page(E, after, limit)
<1>1. p = [edges |-> page, cursor |-> IF page = later THEN 0 ELSE Max(page)]
  BY LearntLibrary, LearntCardinality DEF Learnt!Page, After
<1>2. later \in SUBSET E /\ later \in SUBSET Nat /\ \A e \in later : e > after
  BY DEF After
<1>3. \A e \in later : IsFiniteSet(Before(e)) /\ Cardinality(Before(e)) \in Nat
  BY <1>2, CardinalityKept
<1>4. ASSUME NEW e \in later, NEW x \in later, x < e PROVE Cardinality(Before(x)) <= Cardinality(Before(e))
  <2>1. \A y \in Before(x) : y \in Before(e)
    <3> TAKE y \in Before(x)
    <3>1. y \in later /\ y < x /\ y \in Nat /\ x \in Nat /\ e \in Nat
      BY <1>2
    <3> QED
      BY <1>4, <3>1
  <2>2. Before(x) \in SUBSET Before(e)
    BY <2>1
  <2> HIDE DEF Before
  <2> QED
    BY <1>3, <2>2, CardinalityKept
<1>5. ASSUME NEW e \in page, NEW x \in later, x < e PROVE x \in page
  <2>1. e \in later /\ Cardinality(Before(e)) < limit
    OBVIOUS
  <2>2. Cardinality(Before(x)) <= Cardinality(Before(e)) /\ Cardinality(Before(x)) \in Nat /\ Cardinality(Before(e)) \in Nat
    BY <1>3, <1>4, <1>5, <2>1
  <2>3. Cardinality(Before(x)) < limit
    BY <2>1, <2>2
  <2> HIDE DEF Before, later
  <2> QED
    BY <2>3
<1>6. CASE page = later
  <2> HIDE DEF page, later
  <2> QED
    BY <1>1, <1>6 DEF PageOf, later
<1>7. CASE page # later
  <2>1. page \in SUBSET later
    OBVIOUS
  <2>2. PICK e \in later : e \notin page
    BY <1>7, <2>1
  <2>3. page # {}
    <3>1. PICK m \in later : \A k \in later : m <= k
      BY <1>2, <2>2, Least
    <3>2. Before(m) = {}
      BY <1>2, <3>1
    <3>3. Cardinality(Before(m)) = 0
      BY <3>2, FS_EmptySet
    <3>4. Cardinality(Before(m)) < limit
      BY <3>3
    <3> HIDE DEF Before, later
    <3> QED
      BY <3>4
  <2> HIDE DEF page, later
  <2>4. e \in Nat /\ \A x \in page : x \in 0 .. e
    <3>1. e \in Nat
      BY <1>2
    <3> SUFFICES ASSUME NEW x \in page PROVE x \in 0 .. e
      BY <3>1
    <3>2. x \in Nat /\ ~ (e < x)
      BY <1>2, <1>5, <2>1, <2>2
    <3> QED
      BY <3>1, <3>2
  <2>5. page \in SUBSET (0 .. e)
    BY <2>4
  <2>6. Max(page) \in page /\ \A k \in page : k <= Max(page)
    BY <2>3, <2>4, <2>5, Greatest
  <2>7. p.cursor = Max(page) /\ p.edges = page
    BY <1>1, <1>7
  <2>8. \A x \in later : x <= Max(page) => x \in page
    <3> TAKE x \in later
    <3>1. x \in Nat /\ Max(page) \in Nat
      BY <1>2, <2>1, <2>6
    <3> QED
      BY <1>5, <2>6, <3>1
  <2>9. page = {x \in E : x > after /\ x <= Max(page)}
    BY <2>1, <2>6, <2>8 DEF later, After
  <2>10. Max(page) \in Nat /\ Max(page) > after
    BY <1>2, <2>1, <2>6
  <2> HIDE DEF p
  <2>11. PageOf(E, after, p)
    BY <2>7, <2>9, <2>10 DEF PageOf
  <2> QED
    BY <2>11 DEF p
<1> QED
  BY <1>6, <1>7

\* Paging shows every edge that stays exactly once, whatever is added meanwhile and however many
\* there are on a page (graph_neighborhood_page).
THEOREM PagesAreWhole ==
  ASSUME NEW edges \in SUBSET (Nat \ {0}), IsFiniteSet(edges), NEW added \in SUBSET (Nat \ {0}), IsFiniteSet(added),
         NEW limit \in Nat \ {0}
  PROVE  Learnt!PagesWhole(edges, added, limit)
<1> DEFINE all == edges \union added
           none == [edges |-> {}, cursor |-> 0]
           first == Learnt!Page(edges, 0, limit)
           second == IF first.cursor = 0 THEN none ELSE Learnt!Page(all, first.cursor, limit)
           third == IF second.cursor = 0 THEN none ELSE Learnt!Page(all, second.cursor, limit)
<1>1. edges \in SUBSET Nat /\ all \in SUBSET Nat /\ IsFiniteSet(all) /\ edges \subseteq all /\ \A e \in all : e > 0
  <2>1. IsFiniteSet(all)
    BY FS_Union
  <2> QED
    BY <2>1
<1>2. PageOf(edges, 0, first)
  BY <1>1, PageIs
<1>3. second = IF first.cursor = 0 THEN none ELSE Learnt!Page(all, first.cursor, limit)
  OBVIOUS
<1>4. third = IF second.cursor = 0 THEN none ELSE Learnt!Page(all, second.cursor, limit)
  OBVIOUS
<1> HIDE DEF first, second, third, all
<1> DEFINE Shows == /\ first.edges \intersect second.edges = {} /\ second.edges \intersect third.edges = {}
                    /\ third.cursor = 0 => edges \subseteq first.edges \union second.edges \union third.edges
<1> SUFFICES Shows
  BY DEF Learnt!PagesWhole, first, second, third, all
<1>5. After(edges, 0) = edges
  BY <1>1 DEF After
<1>6. CASE first.cursor = 0
  <2>1. first.edges = edges
    BY <1>2, <1>5, <1>6 DEF PageOf
  <2>2. second = none /\ third = none
    BY <1>3, <1>4, <1>6
  <2> QED
    BY <2>1, <2>2
<1>7. CASE first.cursor # 0
  <2>1. first.cursor \in Nat /\ first.edges = {e \in edges : e > 0 /\ e <= first.cursor}
    BY <1>2, <1>7 DEF PageOf
  <2>2. second = Learnt!Page(all, first.cursor, limit)
    BY <1>3, <1>7
  <2>3. PageOf(all, first.cursor, second)
    BY <1>1, <2>1, <2>2, PageIs
  <2>4. \A e \in second.edges : e \in all /\ e > first.cursor
    BY <2>3 DEF PageOf, After
  <2>5. first.edges \intersect second.edges = {}
    <3> SUFFICES ASSUME NEW e \in first.edges, e \in second.edges PROVE FALSE
      OBVIOUS
    <3>1. e \in Nat /\ e <= first.cursor /\ e > first.cursor
      BY <1>1, <2>1, <2>4
    <3> QED
      BY <2>1, <3>1
  <2>6. CASE second.cursor = 0
    <3>1. second.edges = After(all, first.cursor) /\ third = none
      BY <1>4, <2>1, <2>3, <2>6 DEF PageOf
    <3>2. \A e \in edges : e \in first.edges \union second.edges
      <4> TAKE e \in edges
      <4>1. e \in Nat /\ e > 0 /\ e \in all
        BY <1>1
      <4> QED
        BY <2>1, <3>1, <4>1 DEF After
    <3> QED
      BY <2>5, <3>1, <3>2
  <2>7. CASE second.cursor # 0
    <3>1. /\ second.cursor \in Nat /\ second.cursor > first.cursor
          /\ second.edges = {e \in all : e > first.cursor /\ e <= second.cursor}
      BY <2>3, <2>7 DEF PageOf
    <3>2. PageOf(all, second.cursor, third)
      BY <1>1, <1>4, <2>7, <3>1, PageIs
    <3>3. \A e \in third.edges : e \in all /\ e > second.cursor
      BY <3>2 DEF PageOf, After
    <3>4. second.edges \intersect third.edges = {}
      <4> SUFFICES ASSUME NEW e \in second.edges, e \in third.edges PROVE FALSE
        OBVIOUS
      <4>1. e \in Nat /\ e <= second.cursor /\ e > second.cursor
        BY <1>1, <3>1, <3>3
      <4> QED
        BY <3>1, <4>1
    <3>5. ASSUME third.cursor = 0 PROVE edges \subseteq first.edges \union second.edges \union third.edges
      <4>1. third.edges = After(all, second.cursor)
        BY <3>1, <3>2, <3>5 DEF PageOf
      <4> SUFFICES ASSUME NEW e \in edges PROVE e \in first.edges \union second.edges \union third.edges
        OBVIOUS
      <4>2. e \in Nat /\ e > 0 /\ e \in all
        BY <1>1
      <4> QED
        BY <2>1, <3>1, <4>1, <4>2 DEF After
    <3>6. third.cursor = 0 => edges \subseteq first.edges \union second.edges \union third.edges
      BY <3>5
    <3> QED
      BY <2>5, <3>4, <3>6
  <2> QED
    BY <2>6, <2>7
<1> QED
  BY <1>6, <1>7
LEMMA Divides ==
  ASSUME NEW p \in Nat \ {0}, NEW q \in Nat, NEW r \in Nat, r < p
  PROVE  (p * q + r) \div p = q
<1> DEFINE a == p * q + r
           d == a \div p
<1>1. a \in Nat /\ d \in Int /\ p * d <= a /\ a < p * d + p
  BY SMTT(30)
<1>2. CASE d < q
  <2>1. p * d + p <= p * q
    BY <1>1, <1>2, SMTT(30)
  <2> QED
    BY <1>1, <2>1
<1>3. CASE d > q
  <2>1. p * q + p <= p * d
    BY <1>1, <1>3, SMTT(30)
  <2> QED
    BY <1>1, <2>1
<1> QED
  BY <1>1, <1>2, <1>3

\* The code changes when the answer says, and not before (memory_generate_totp).
THEOREM CodeIsTrue ==
  ASSUME NEW time \in Nat, NEW period \in Nat \ {0}
  PROVE  Learnt!CodeHolds(time, period)
<1> DEFINE q == time \div period
           r == time % period
           until == time + Learnt!ValidFor(time, period)
<1>1. q \in Nat /\ r \in Nat /\ r < period /\ time = period * q + r
  BY SMTT(30)
<1> HIDE DEF q, r
<1>2. until = period * (q + 1) + 0
  <2>1. until = IF r = 0 THEN time + period ELSE time + (period - r)
    BY DEF Learnt!ValidFor, r
  <2> DEFINE x == period * q
  <2>2. period * (q + 1) = x + period /\ x \in Nat /\ time = x + r
    BY <1>1, SMTT(30)
  <2> HIDE DEF x, until
  <2>3. until = x + period
    BY <1>1, <2>1, <2>2
  <2> QED
    BY <2>2, <2>3
<1>3. until - 1 = period * q + (period - 1)
  BY <1>1, <1>2, SMTT(30)
<1> HIDE DEF until
<1>4. until \div period = q + 1
  BY <1>1, <1>2, Divides
<1>5. (until - 1) \div period = q
  BY <1>1, <1>3, Divides
<1>6. time \div period = q
  BY DEF q
<1>7. q + 1 # q
  BY <1>1
<1> QED
  BY <1>4, <1>5, <1>6, <1>7 DEF Learnt!CodeHolds, Learnt!Code, until

-------------------------------------------------------------------------------
(* Flat sequences *)

FlatFrom(s, f, i) == IF i = 1 THEN s[i] ELSE f[i - 1] \o s[i]

LEMMA FlatIs ==
  ASSUME NEW s, Len(s) # 0
  PROVE  Llm!FlattenSeq(s) = (CHOOSE f : f = [i \in 1 .. Len(s) |-> FlatFrom(s, f, i)])[Len(s)]
  BY DEF Llm!FlattenSeq, FlatFrom

\* Flattening goes through the sequence and appends.
Walks(s, f) == f[0] = <<>> /\ \A i \in 1 .. Len(s) : f[i] = f[i - 1] \o s[i]

LEMMA FlatWalks ==
  ASSUME NEW S, NEW s \in Seq(Seq(S))
  PROVE  \E f \in [0 .. Len(s) -> Seq(S)] : Walks(s, f) /\ Llm!FlattenSeq(s) = f[Len(s)]
<1> DEFINE n == Len(s)
<1>1. n \in Nat /\ DOMAIN s = 1 .. n /\ \A i \in 1 .. n : s[i] \in Seq(S)
  OBVIOUS
<1>2. <<>> \in Seq(S)
  OBVIOUS
<1>3. CASE n = 0
  <2> DEFINE f == [i \in 0 .. 0 |-> <<>>]
  <2>1. f \in [0 .. n -> Seq(S)] /\ f[0] = <<>>
    BY <1>2, <1>3
  <2>2. Llm!FlattenSeq(s) = <<>>
    BY <1>3 DEF Llm!FlattenSeq
  <2> HIDE DEF f
  <2>3. Walks(s, f) /\ Llm!FlattenSeq(s) = f[Len(s)]
    BY <1>3, <2>1, <2>2 DEF Walks
  <2> QED
    BY <2>1, <2>3
<1>4. CASE n # 0
  <2> DEFINE go == [i \in 1 .. n |-> [t \in Seq(S) |-> t \o s[i]]]
             g == CHOOSE g : g = [i \in 1 .. n |-> FlatFrom(s, g, i)]
             Good(k) == \E h \in [1 .. k -> Seq(S)] : \A i \in 1 .. k : h[i] = FlatFrom(s, h, i)
             P == {k \in 0 .. n : Good(k)}
  <2>1. 0 \in P
    <3> DEFINE h == [i \in 1 .. 0 |-> <<>>]
    <3>1. h \in [1 .. 0 -> Seq(S)] /\ \A i \in 1 .. 0 : h[i] = FlatFrom(s, h, i)
      OBVIOUS
    <3>2. Good(0)
      BY <3>1
    <3> HIDE DEF Good
    <3> QED
      BY <1>1, <3>2
  <2>2. ASSUME NEW k \in 1 .. n, k - 1 \in P PROVE k \in P
    <3>1. PICK h \in [1 .. k - 1 -> Seq(S)] : \A i \in 1 .. k - 1 : h[i] = FlatFrom(s, h, i)
      BY <2>2
    <3> DEFINE m == [i \in 1 .. k |-> IF i = k THEN FlatFrom(s, h, k) ELSE h[i]]
    <3>2. FlatFrom(s, h, k) \in Seq(S)
      <4>1. CASE k = 1
        BY <1>1, <4>1 DEF FlatFrom
      <4>2. CASE k # 1
        <5>1. h[k - 1] \in Seq(S) /\ s[k] \in Seq(S)
          BY <1>1, <4>2
        <5> QED
          BY <4>2, <5>1, ConcatProperties DEF FlatFrom
      <4> QED
        BY <4>1, <4>2
    <3>3. m \in [1 .. k -> Seq(S)]
      BY <3>2
    <3>4. ASSUME NEW i \in 1 .. k PROVE m[i] = FlatFrom(s, m, i)
      <4>1. CASE i = k
        BY <4>1 DEF FlatFrom
      <4>2. CASE i # k
        <5>1. i \in 1 .. k - 1 /\ m[i] = h[i] /\ (i # 1 => m[i - 1] = h[i - 1])
          BY <4>2
        <5> HIDE DEF m
        <5> QED
          BY <3>1, <5>1 DEF FlatFrom
      <4> QED
        BY <4>1, <4>2
    <3> HIDE DEF m
    <3>5. Good(k)
      BY <3>3, <3>4
    <3> HIDE DEF Good
    <3> QED
      BY <3>5
  <2> HIDE DEF P
  <2>3. \A k \in 0 .. n : k \in P
    BY <1>1, <2>1, <2>2, Induction
  <2>b. n \in P
    BY <1>1, <2>3
  <2>4. PICK h \in [1 .. n -> Seq(S)] : \A i \in 1 .. n : h[i] = FlatFrom(s, h, i)
    BY <2>b DEF P
  <2>5. h = [i \in 1 .. n |-> FlatFrom(s, h, i)]
    BY <2>4
  <2>6. g = [i \in 1 .. n |-> FlatFrom(s, g, i)]
    BY <2>5
  <2>7. Llm!FlattenSeq(s) = g[n]
    BY <1>4, FlatIs
  <2> HIDE DEF g
  <2> DEFINE f == [i \in 0 .. n |-> IF i = 0 THEN <<>> ELSE g[i]]
             Q == {i \in 0 .. n : f[i] \in Seq(S)}
  <2>8. f[0] = <<>> /\ f[n] = g[n]
    BY <1>1, <1>4
  <2>9. ASSUME NEW i \in 1 .. n, f[i - 1] \in Seq(S) PROVE f[i] = f[i - 1] \o s[i] /\ f[i] \in Seq(S)
    <3>1. f[i] = FlatFrom(s, g, i) /\ s[i] \in Seq(S)
      <4>1. f[i] = g[i] /\ s[i] \in Seq(S)
        BY <1>1
      <4>2. g[i] = FlatFrom(s, g, i)
        BY <2>6
      <4> QED
        BY <4>1, <4>2
    <3>2. i = 1 => f[i - 1] = <<>>
      OBVIOUS
    <3>3. i # 1 => f[i - 1] = g[i - 1]
      OBVIOUS
    <3> HIDE DEF f
    <3>4. f[i] = f[i - 1] \o s[i]
      BY <3>1, <3>2, <3>3, ConcatEmptySeq DEF FlatFrom
    <3> QED
      BY <2>9, <3>1, <3>4, ConcatProperties
  <2>10. f = [i \in 0 .. n |-> f[i]]
    OBVIOUS
  <2> HIDE DEF f
  <2>11. 0 \in Q
    <3>1. 0 \in 0 .. n
      BY <1>1
    <3>2. f[0] \in Seq(S)
      BY <1>2, <2>8
    <3> QED
      BY <3>1, <3>2
  <2>12. ASSUME NEW i \in 1 .. n, i - 1 \in Q PROVE i \in Q
    <3>1. i \in 0 .. n
      OBVIOUS
    <3>2. f[i - 1] \in Seq(S)
      BY <2>12
    <3>3. f[i] \in Seq(S)
      BY <2>9, <3>2
    <3> QED
      BY <3>1, <3>3
  <2> HIDE DEF Q
  <2>13. \A i \in 0 .. n : i \in Q
    BY <1>1, <2>11, <2>12, Induction
  <2>14. \A i \in 0 .. n : f[i] \in Seq(S)
    BY <2>13 DEF Q
  <2>15. f \in [0 .. n -> Seq(S)]
    BY <2>10, <2>14
  <2>16. \A i \in 1 .. n : f[i] = f[i - 1] \o s[i]
    <3> TAKE i \in 1 .. n
    <3>1. i - 1 \in 0 .. n
      OBVIOUS
    <3> QED
      BY <2>9, <2>14, <3>1
  <2>17. Walks(s, f) /\ Llm!FlattenSeq(s) = f[Len(s)]
    BY <2>7, <2>8, <2>16 DEF Walks
  <2> QED
    BY <2>15, <2>17
<1> QED
  BY <1>3, <1>4

LEMMA FlatGrows ==
  ASSUME NEW S, NEW s \in Seq(Seq(S)), NEW x \in Seq(S)
  PROVE  Llm!FlattenSeq(s) \in Seq(S) /\ Llm!FlattenSeq(Append(s, x)) = Llm!FlattenSeq(s) \o x
<1> DEFINE n == Len(s)
           t == Append(s, x)
<1>1. n \in Nat /\ t \in Seq(Seq(S)) /\ Len(t) = n + 1 /\ t[n + 1] = x /\ \A i \in 1 .. n : t[i] = s[i]
  OBVIOUS
<1> HIDE DEF t
<1>2. PICK f \in [0 .. n -> Seq(S)] : Walks(s, f) /\ Llm!FlattenSeq(s) = f[n]
  BY FlatWalks
<1>3. PICK g \in [0 .. n + 1 -> Seq(S)] : Walks(t, g) /\ Llm!FlattenSeq(t) = g[n + 1]
  BY <1>1, FlatWalks
<1> HIDE DEF n
<1> DEFINE P == {i \in 0 .. n : f[i] = g[i]}
<1>4. Len(s) = n
  BY DEF n
<1>5. 0 \in P
  BY <1>1, <1>2, <1>3 DEF Walks
<1>6. ASSUME NEW i \in 1 .. n, i - 1 \in P PROVE i \in P
  <2>1. f[i] = f[i - 1] \o s[i]
    BY <1>2, <1>4 DEF Walks
  <2>2. g[i] = g[i - 1] \o t[i] /\ t[i] = s[i]
    <3>1. i \in 1 .. Len(t)
      BY <1>1
    <3> QED
      BY <1>1, <1>3, <3>1 DEF Walks
  <2>3. f[i - 1] = g[i - 1]
    BY <1>6
  <2>4. f[i] = g[i]
    BY <2>1, <2>2, <2>3
  <2>5. i \in 0 .. n
    OBVIOUS
  <2> QED
    BY <2>4, <2>5
<1> HIDE DEF P
<1>7. \A i \in 0 .. n : i \in P
  BY <1>1, <1>5, <1>6, Induction
<1>8. f[n] = g[n] /\ f[n] \in Seq(S)
  BY <1>1, <1>7 DEF P
<1>9. g[n + 1] = g[n] \o x
  <2>1. n + 1 \in 1 .. Len(t) /\ (n + 1) - 1 = n
    BY <1>1
  <2> QED
    BY <1>1, <1>3, <2>1 DEF Walks
<1> QED
  BY <1>2, <1>3, <1>8, <1>9 DEF t

-------------------------------------------------------------------------------
(* The lines of a stream *)

LEMMA LlmLibrary == \A S : Llm!Max(S) = Max(S) /\ Llm!Min(S) = Min(S) /\ Llm!Cardinality(S) = Cardinality(S)
<1>1. \A S : Llm!Max(S) = Max(S)
  BY DEF Max, Llm!Max
<1>2. \A S : Llm!Min(S) = Min(S)
  BY DEF Min, Llm!Min
<1>3. \A S : Llm!Cardinality(S) = Cardinality(S)
  BY DEF Cardinality, Llm!Cardinality
<1> QED
  BY <1>1, <1>2, <1>3

Unbroken(t) == \A i \in 1 .. Len(t) : t[i] # "nl"
\* What has been looked at, and is not yet a line, has no end of a line in it.
Scanned(b) ==
  /\ b.start <= b.scanned /\ b.scanned <= Len(b.bytes)
  /\ \A i \in b.start + 1 .. b.scanned : b.bytes[i] # "nl"
  /\ \A i \in 1 .. Len(b.lines) : Unbroken(b.lines[i])
Buffers(S) ==
  {b \in [bytes : Seq(S), start : Nat, scanned : Nat, lines : Seq(Seq(S)), more : BOOLEAN] : Scanned(b)}
\* The text of a buffer is its lines, with their ends, and what is not yet a line.
Closed(lines) == [i \in DOMAIN lines |-> Append(lines[i], "nl")]
Unread(b) == SubSeq(b.bytes, b.start + 1, Len(b.bytes))
TextHeld(b) == Llm!FlattenSeq(Closed(b.lines)) \o Unread(b)
Searched(b) == b.scanned = Len(b.bytes)

LEMMA FunctionIsSeq ==
  ASSUME NEW T, NEW n \in Nat, NEW f \in [1 .. n -> T]
  PROVE  f \in Seq(T) /\ Len(f) = n
<1>1. f \in Seq(T)
  BY SeqDef
<1>2. Len(f) \in Nat /\ 1 .. Len(f) = 1 .. n
  BY <1>1, LenProperties
<1> QED
  BY <1>1, <1>2

LEMMA ClosedIs ==
  ASSUME NEW S, "nl" \in S, NEW lines \in Seq(Seq(S)), NEW line \in Seq(S)
  PROVE  /\ Closed(lines) \in Seq(Seq(S)) /\ Append(line, "nl") \in Seq(S)
         /\ Closed(Append(lines, line)) = Append(Closed(lines), Append(line, "nl"))
<1>1. \A l \in Seq(S) : Append(l, "nl") \in Seq(S)
  BY AppendProperties
<1>2. \A ls \in Seq(Seq(S)) : Closed(ls) \in Seq(Seq(S)) /\ Len(Closed(ls)) = Len(ls)
                              /\ \A i \in 1 .. Len(ls) : Closed(ls)[i] = Append(ls[i], "nl")
  <2> TAKE ls \in Seq(Seq(S))
  <2>1. DOMAIN ls = 1 .. Len(ls) /\ Len(ls) \in Nat /\ \A i \in 1 .. Len(ls) : ls[i] \in Seq(S)
    OBVIOUS
  <2>2. \A i \in 1 .. Len(ls) : Append(ls[i], "nl") \in Seq(S)
    BY <1>1, <2>1
  <2>3. Closed(ls) = [i \in 1 .. Len(ls) |-> Append(ls[i], "nl")]
    BY <2>1 DEF Closed
  <2>4. Closed(ls) \in [1 .. Len(ls) -> Seq(S)]
    BY <2>2, <2>3
  <2>5. Closed(ls) \in Seq(Seq(S)) /\ Len(Closed(ls)) = Len(ls)
    BY <2>1, <2>4, FunctionIsSeq
  <2> QED
    BY <2>3, <2>5
<1> DEFINE more == Append(lines, line)
           a == Append(Closed(lines), Append(line, "nl"))
<1>3. more \in Seq(Seq(S)) /\ Len(more) = Len(lines) + 1 /\ more[Len(lines) + 1] = line
      /\ \A i \in 1 .. Len(lines) : more[i] = lines[i]
  OBVIOUS
<1>4. Closed(lines) \in Seq(Seq(S)) /\ Append(line, "nl") \in Seq(S) /\ Len(Closed(lines)) = Len(lines) /\ Len(lines) \in Nat
  BY <1>1, <1>2
<1>5. a \in Seq(Seq(S)) /\ Len(a) = Len(lines) + 1 /\ a[Len(lines) + 1] = Append(line, "nl")
      /\ \A i \in 1 .. Len(lines) : a[i] = Closed(lines)[i]
  BY <1>4
<1> HIDE DEF more, a
<1>6. Closed(more) \in Seq(Seq(S)) /\ Len(Closed(more)) = Len(lines) + 1
      /\ \A i \in 1 .. Len(lines) + 1 : Closed(more)[i] = Append(more[i], "nl")
  BY <1>2, <1>3
<1>7. \A i \in 1 .. Len(lines) + 1 : Closed(more)[i] = a[i]
  <2> TAKE i \in 1 .. Len(lines) + 1
  <2>1. CASE i = Len(lines) + 1
    BY <1>3, <1>5, <1>6, <2>1
  <2>2. CASE i # Len(lines) + 1
    <3>1. i \in 1 .. Len(lines)
      BY <1>4, <2>2
    <3>2. Closed(lines)[i] = Append(lines[i], "nl")
      BY <1>2, <3>1
    <3> QED
      BY <1>3, <1>5, <1>6, <3>1, <3>2
  <2> QED
    BY <2>1, <2>2
<1>8. Closed(more) = a
  BY <1>5, <1>6, <1>7, SeqEqual
<1> QED
  BY <1>4, <1>8 DEF more, a

\* One step of looking for a line.
Searches(b, c) == c.bytes = b.bytes /\ TextHeld(c) = TextHeld(b) /\ (c.more => c.start > b.start) /\ (~c.more => Searched(c))

LEMMA NextLineSearches ==
  ASSUME NEW S, "nl" \in S, NEW b \in Buffers(S), b.more
  PROVE  Llm!NextLine(b) \in Buffers(S) /\ Searches(b, Llm!NextLine(b))
<1> DEFINE n == Len(b.bytes)
           breaks == {i \in b.scanned + 1 .. n : b.bytes[i] = "nl"}
           c == Llm!NextLine(b)
<1>1. /\ b \in [bytes : Seq(S), start : Nat, scanned : Nat, lines : Seq(Seq(S)), more : BOOLEAN]
      /\ b.bytes \in Seq(S) /\ b.start \in Nat /\ b.scanned \in Nat /\ b.lines \in Seq(Seq(S)) /\ b.more \in BOOLEAN
      /\ n \in Nat /\ Scanned(b)
  BY DEF Buffers
<1>2. b.start <= b.scanned /\ b.scanned <= n /\ \A i \in b.start + 1 .. b.scanned : b.bytes[i] # "nl"
  BY <1>1 DEF Scanned
<1>3. CASE breaks = {}
  <2>1. c = [b EXCEPT !.scanned = n, !.more = FALSE]
    BY <1>3 DEF Llm!NextLine
  <2>2. c \in [bytes : Seq(S), start : Nat, scanned : Nat, lines : Seq(Seq(S)), more : BOOLEAN]
    BY <1>1, <2>1
  <2>3. c.bytes = b.bytes /\ c.start = b.start /\ c.scanned = n /\ c.lines = b.lines /\ c.more = FALSE
    BY <1>1, <2>1
  <2>4. \A i \in b.start + 1 .. n : b.bytes[i] # "nl"
    <3> TAKE i \in b.start + 1 .. n
    <3>1. CASE i <= b.scanned
      BY <1>1, <1>2, <3>1
    <3>2. CASE i > b.scanned
      <4>1. i \in b.scanned + 1 .. n
        BY <1>1, <3>2
      <4> QED
        BY <1>3, <4>1
    <3> QED
      BY <1>1, <3>1, <3>2
  <2> HIDE DEF c
  <2>5. Scanned(c)
    BY <1>1, <1>2, <2>3, <2>4 DEF Scanned
  <2>6. c \in Buffers(S)
    BY <2>2, <2>5 DEF Buffers
  <2>7. TextHeld(c) = TextHeld(b)
    BY <2>3 DEF TextHeld, Unread
  <2>8. Searches(b, c)
    BY <2>3, <2>7 DEF Searches, Searched
  <2> QED
    BY <2>6, <2>8 DEF c
<1>4. CASE breaks # {}
  <2> DEFINE m == Min(breaks)
             line == SubSeq(b.bytes, b.start + 1, m - 1)
  <2>1. breaks \in SUBSET Nat
    BY <1>1
  <2>2. \E x \in breaks : \A y \in breaks : x <= y
    BY <1>4, <2>1, Least
  <2>3. m \in breaks /\ \A y \in breaks : m <= y
    BY <2>2 DEF Min
  <2>4. m \in Nat /\ m > b.scanned /\ m <= n /\ b.bytes[m] = "nl"
    BY <1>1, <2>3
  <2>5. \A i \in b.start + 1 .. m - 1 : b.bytes[i] # "nl"
    <3> TAKE i \in b.start + 1 .. m - 1
    <3>1. CASE i <= b.scanned
      BY <1>1, <1>2, <2>4, <3>1
    <3>2. CASE i > b.scanned
      <4>1. i \in b.scanned + 1 .. n /\ ~ (m <= i)
        BY <1>1, <2>4, <3>2
      <4> QED
        BY <2>3, <4>1
    <3> QED
      BY <1>1, <2>4, <3>1, <3>2
  <2>6. c = [b EXCEPT !.lines = Append(@, line), !.start = m, !.scanned = m]
    BY <1>4, LlmLibrary DEF Llm!NextLine
  <2> HIDE DEF m, breaks
  <2>7. \A i \in b.start + 1 .. m - 1 : b.bytes[i] \in S
    BY <1>1, <2>4, ElementOfSeq
  <2>8. /\ line \in Seq(S) /\ Len(line) = m - 1 - b.start
        /\ \A i \in 1 .. m - 1 - b.start : line[i] = b.bytes[b.start + i]
    <3>1. b.start + 1 \in Int /\ m - 1 \in Int /\ b.start + 1 <= m - 1 + 1
      BY <1>1, <1>2, <2>4
    <3>2. /\ line \in Seq(S)
          /\ Len(line) = IF b.start + 1 <= m - 1 THEN (m - 1) - (b.start + 1) + 1 ELSE 0
          /\ \A i \in 1 .. (m - 1) - (b.start + 1) + 1 : line[i] = b.bytes[(b.start + 1) + i - 1]
      BY <2>7, <3>1, SubSeqProperties
    <3>3. \A i \in 1 .. m - 1 - b.start : i \in 1 .. (m - 1) - (b.start + 1) + 1 /\ (b.start + 1) + i - 1 = b.start + i
      BY <1>1, <2>4
    <3>4. Len(line) = m - 1 - b.start
      BY <1>1, <2>4, <3>1, <3>2
    <3> HIDE DEF line
    <3> QED
      BY <3>2, <3>3, <3>4
  <2>9. Unbroken(line)
    <3> SUFFICES ASSUME NEW i \in 1 .. Len(line) PROVE line[i] # "nl"
      BY DEF Unbroken
    <3>1. i \in 1 .. m - 1 - b.start
      BY <2>8
    <3>2. b.start + i \in b.start + 1 .. m - 1
      BY <1>1, <2>4, <3>1
    <3> HIDE DEF line
    <3> QED
      BY <2>5, <2>8, <3>1, <3>2
  <2> HIDE DEF line
  <2>10. c \in [bytes : Seq(S), start : Nat, scanned : Nat, lines : Seq(Seq(S)), more : BOOLEAN]
    <3> DEFINE longer == Append(b.lines, line)
    <3>1. longer \in Seq(Seq(S))
      BY <1>1, <2>8, AppendProperties
    <3> HIDE DEF longer
    <3>2. c = [b EXCEPT !.lines = longer, !.start = m, !.scanned = m]
      BY <2>6 DEF longer
    <3> QED
      BY <1>1, <2>4, <3>1, <3>2
  <2>11. c.bytes = b.bytes /\ c.start = m /\ c.scanned = m /\ c.lines = Append(b.lines, line) /\ c.more = b.more
    BY <1>1, <2>6
  <2> HIDE DEF c
  <2>12. \A i \in 1 .. Len(c.lines) : Unbroken(c.lines[i])
    <3> TAKE i \in 1 .. Len(c.lines)
    <3>1. Len(c.lines) = Len(b.lines) + 1 /\ Len(b.lines) \in Nat
      BY <1>1, <2>8, <2>11
    <3>2. CASE i = Len(b.lines) + 1
      BY <1>1, <2>8, <2>9, <2>11, <3>2
    <3>3. CASE i # Len(b.lines) + 1
      <4>1. i \in 1 .. Len(b.lines) /\ c.lines[i] = b.lines[i]
        BY <1>1, <2>8, <2>11, <3>1, <3>3
      <4> QED
        BY <1>1, <4>1 DEF Scanned
    <3> QED
      BY <3>2, <3>3
  <2>13. Scanned(c)
    BY <1>1, <2>4, <2>11, <2>12 DEF Scanned
  <2>14. c \in Buffers(S)
    BY <2>10, <2>13 DEF Buffers
  <2> DEFINE flat == Llm!FlattenSeq(Closed(b.lines))
             ended == Append(line, "nl")
             rest == SubSeq(b.bytes, m + 1, n)
  <2>15. Closed(b.lines) \in Seq(Seq(S)) /\ ended \in Seq(S) /\ Closed(c.lines) = Append(Closed(b.lines), ended)
    BY <1>1, <2>8, <2>11, ClosedIs
  <2>16. flat \in Seq(S) /\ Llm!FlattenSeq(Closed(c.lines)) = flat \o ended
    BY <2>15, FlatGrows
  <2>17. ended = SubSeq(b.bytes, b.start + 1, m)
    <3> DEFINE sub == SubSeq(b.bytes, b.start + 1, m)
    <3>1. \A i \in b.start + 1 .. m : b.bytes[i] \in S
      BY <1>1, <2>4, ElementOfSeq
    <3>2. b.start + 1 \in Int /\ m \in Int /\ b.start + 1 <= m
      BY <1>1, <1>2, <2>4
    <3>3. sub \in Seq(S) /\ Len(sub) = m - (b.start + 1) + 1
          /\ \A i \in 1 .. m - (b.start + 1) + 1 : sub[i] = b.bytes[(b.start + 1) + i - 1]
      BY <3>1, <3>2, SubSeqProperties
    <3>4. Len(ended) = Len(line) + 1 /\ ended[Len(line) + 1] = "nl" /\ \A i \in 1 .. Len(line) : ended[i] = line[i]
      BY <2>8, AppendProperties
    <3> HIDE DEF sub, ended
    <3>5. Len(sub) = Len(ended) /\ Len(sub) = m - b.start /\ Len(line) = m - 1 - b.start
      BY <1>1, <2>4, <2>8, <3>3, <3>4
    <3>6. ASSUME NEW i \in 1 .. Len(ended) PROVE ended[i] = sub[i]
      <4>1. sub[i] = b.bytes[b.start + i]
        <5>1. i \in 1 .. m - (b.start + 1) + 1 /\ (b.start + 1) + i - 1 = b.start + i
          BY <1>1, <2>4, <3>5
        <5> QED
          BY <3>3, <5>1
      <4>2. CASE i = m - b.start
        <5>1. b.start + i = m /\ i = Len(line) + 1
          BY <1>1, <2>4, <3>5, <4>2
        <5> QED
          BY <2>4, <3>4, <4>1, <5>1
      <4>3. CASE i # m - b.start
        <5>1. i \in 1 .. Len(line) /\ i \in 1 .. m - 1 - b.start
          BY <1>1, <2>4, <3>5, <4>3
        <5> QED
          BY <2>8, <3>4, <4>1, <5>1
      <4> QED
        BY <4>2, <4>3
    <3>7. ended = sub
      BY <2>15, <3>3, <3>5, <3>6, SeqEqual
    <3> QED
      BY <3>7 DEF sub
  <2>18. ended \o rest = Unread(b)
    <3>1. b.start + 1 \in 1 .. Len(b.bytes) + 1 /\ m \in (b.start + 1) - 1 .. Len(b.bytes) /\ n \in m .. Len(b.bytes)
      BY <1>1, <1>2, <2>4
    <3> QED
      BY <1>1, <2>17, <3>1, ConcatAdjacentSubSeq DEF Unread
  <2>19. rest \in Seq(S)
    <3>1. \A i \in m + 1 .. n : b.bytes[i] \in S
      BY <1>1, <2>4, ElementOfSeq
    <3>2. m + 1 \in Int /\ n \in Int
      BY <1>1, <2>4
    <3> QED
      BY <3>1, <3>2, SubSeqProperties
  <2>20. Unread(c) = rest
    BY <2>11 DEF Unread
  <2> HIDE DEF flat, ended, rest
  <2>21. TextHeld(c) = TextHeld(b)
    <3>1. flat \in Seq(S) /\ ended \in Seq(S) /\ rest \in Seq(S)
      BY <2>15, <2>16, <2>19
    <3>2. (flat \o ended) \o rest = flat \o (ended \o rest)
      BY <3>1, ConcatAssociative
    <3> QED
      BY <2>16, <2>18, <2>20, <3>2 DEF TextHeld, flat
  <2>22. m > b.start
    BY <1>1, <1>2, <2>4
  <2>23. Searches(b, c)
    BY <2>11, <2>21, <2>22 DEF Searches
  <2> QED
    BY <2>14, <2>23 DEF c
<1> QED
  BY <1>3, <1>4

LEMMA UnreadIs ==
  ASSUME NEW S, NEW b \in Buffers(S)
  PROVE  /\ Unread(b) \in Seq(S) /\ Len(Unread(b)) = Len(b.bytes) - b.start
         /\ \A i \in 1 .. Len(b.bytes) - b.start : Unread(b)[i] = b.bytes[b.start + i]
<1> DEFINE n == Len(b.bytes)
           bytes == b.bytes
           first == b.start + 1
<1>1. bytes \in Seq(S) /\ b.start \in Nat /\ n \in Nat /\ b.start <= n
  BY DEF Buffers, Scanned
<1>2. first \in Int /\ n \in Int
  BY <1>1
<1>3. \A i \in first .. n : bytes[i] \in S
  BY <1>1, ElementOfSeq
<1>4. Unread(b) = SubSeq(bytes, first, n)
  BY DEF Unread
<1>5. first = b.start + 1
  OBVIOUS
<1> HIDE DEF first, n, bytes
<1>6. /\ SubSeq(bytes, first, n) \in Seq(S)
      /\ Len(SubSeq(bytes, first, n)) = IF first <= n THEN n - first + 1 ELSE 0
      /\ \A i \in 1 .. n - first + 1 : SubSeq(bytes, first, n)[i] = bytes[first + i - 1]
  BY <1>2, <1>3, SubSeqProperties
<1>7. Len(Unread(b)) = n - b.start
  BY <1>1, <1>4, <1>5, <1>6
<1>8. \A i \in 1 .. n - b.start : i \in 1 .. n - first + 1 /\ first + i - 1 = b.start + i
  BY <1>1, <1>5
<1> QED
  BY <1>4, <1>6, <1>7, <1>8 DEF n, bytes

LEMMA HeldIs ==
  ASSUME NEW S, "nl" \in S, NEW b \in Buffers(S)
  PROVE  Llm!FlattenSeq(Closed(b.lines)) \in Seq(S) /\ TextHeld(b) \in Seq(S)
<1>1. b.lines \in Seq(Seq(S)) /\ <<>> \in Seq(S)
  BY DEF Buffers
<1>2. Closed(b.lines) \in Seq(Seq(S))
  BY <1>1, ClosedIs
<1>3. Llm!FlattenSeq(Closed(b.lines)) \in Seq(S) /\ Unread(b) \in Seq(S)
  BY <1>1, <1>2, FlatGrows, UnreadIs
<1> QED
  BY <1>3, ConcatProperties DEF TextHeld

LEMMA PushAdds ==
  ASSUME NEW S, "nl" \in S, NEW b \in Buffers(S), NEW x \in Seq(S)
  PROVE  Llm!Push(b, x) \in Buffers(S) /\ TextHeld(Llm!Push(b, x)) = TextHeld(b) \o x
<1> DEFINE rest == Unread(b)
           longer == rest \o x
           c == Llm!Push(b, x)
<1>1. /\ b \in [bytes : Seq(S), start : Nat, scanned : Nat, lines : Seq(Seq(S)), more : BOOLEAN]
      /\ b.start \in Nat /\ b.scanned \in Nat /\ Len(b.bytes) \in Nat /\ Scanned(b)
      /\ b.start <= b.scanned /\ b.scanned <= Len(b.bytes)
  BY DEF Buffers, Scanned
<1>2. rest \in Seq(S) /\ Len(rest) = Len(b.bytes) - b.start
      /\ \A i \in 1 .. Len(b.bytes) - b.start : rest[i] = b.bytes[b.start + i]
  BY UnreadIs
<1>3. c = [b EXCEPT !.bytes = longer, !.start = 0, !.scanned = b.scanned - b.start]
  BY DEF Llm!Push, Unread
<1> HIDE DEF rest
<1>4. longer \in Seq(S) /\ Len(longer) = Len(rest) + Len(x) /\ \A i \in 1 .. Len(rest) : longer[i] = rest[i]
  <2>1. /\ longer \in Seq(S) /\ Len(longer) = Len(rest) + Len(x)
        /\ \A i \in 1 .. Len(rest) + Len(x) : longer[i] = IF i <= Len(rest) THEN rest[i] ELSE x[i - Len(rest)]
    BY <1>2, ConcatProperties
  <2>2. Len(x) \in Nat /\ Len(rest) \in Nat
    BY <1>2
  <2> HIDE DEF longer
  <2> QED
    BY <2>1, <2>2
<1> HIDE DEF longer, c
<1>5. b.scanned - b.start \in Nat /\ b.scanned - b.start <= Len(rest) /\ Len(x) \in Nat
  BY <1>1, <1>2
<1>6. c \in [bytes : Seq(S), start : Nat, scanned : Nat, lines : Seq(Seq(S)), more : BOOLEAN]
  BY <1>1, <1>3, <1>4, <1>5
<1>7. c.bytes = longer /\ c.start = 0 /\ c.scanned = b.scanned - b.start /\ c.lines = b.lines
  BY <1>1, <1>3
<1>8. \A i \in 0 + 1 .. b.scanned - b.start : longer[i] # "nl"
  <2> TAKE i \in 0 + 1 .. b.scanned - b.start
  <2>1. i \in 1 .. Len(rest) /\ i \in 1 .. Len(b.bytes) - b.start /\ b.start + i \in b.start + 1 .. b.scanned
    BY <1>1, <1>2
  <2>2. longer[i] = b.bytes[b.start + i]
    BY <1>2, <1>4, <2>1
  <2> QED
    BY <1>1, <2>1, <2>2 DEF Scanned
<1>9. Scanned(c)
  <2>1. c.start <= c.scanned /\ c.scanned <= Len(c.bytes)
    BY <1>1, <1>4, <1>5, <1>7
  <2> QED
    BY <1>1, <1>7, <1>8, <2>1 DEF Scanned
<1>10. c \in Buffers(S)
  BY <1>6, <1>9 DEF Buffers
<1>11. Unread(c) = longer
  <2>1. SubSeq(longer, 1, Len(longer)) = longer
    BY <1>4, SubSeqFull
  <2> QED
    BY <1>7, <2>1 DEF Unread
<1>12. TextHeld(c) = TextHeld(b) \o x
  <2> DEFINE flat == Llm!FlattenSeq(Closed(b.lines))
  <2>1. flat \in Seq(S)
    BY HeldIs
  <2> HIDE DEF flat
  <2>2. flat \in Seq(S) /\ rest \in Seq(S) /\ x \in Seq(S)
    BY <1>2, <2>1
  <2>3. (flat \o rest) \o x = flat \o longer
    BY <2>2, ConcatAssociative DEF longer
  <2> QED
    BY <1>7, <1>11, <2>3 DEF TextHeld, flat, rest
<1> QED
  BY <1>10, <1>12 DEF c

\* Looking for lines until there is none.
Tries(b) == [i \in 1 .. Len(b.bytes) + 1 |-> i]
Searching(b) == [b EXCEPT !.more = TRUE]
DrainFrom(b, it, s) ==
  IF s = {} THEN Searching(b)
  ELSE IF it[s \ {Llm!Max(s)}].more THEN Llm!NextLine(it[s \ {Llm!Max(s)}]) ELSE it[s \ {Llm!Max(s)}]
Drained(b) == (CHOOSE it : it = [s \in SUBSET DOMAIN Tries(b) |-> DrainFrom(b, it, s)])[DOMAIN Tries(b)]

NoLines == [bytes |-> <<>>, start |-> 0, scanned |-> 0, lines |-> <<>>, more |-> TRUE]
LinesFrom(chunks, it, s) ==
  IF s = {} THEN NoLines ELSE Drained(Llm!Push(it[s \ {Llm!Max(s)}], chunks[Llm!Max(s)]))

LEMMA LinesAreFold ==
  ASSUME NEW chunks
  PROVE  Llm!LinesOf(chunks) =
           (CHOOSE it : it = [s \in SUBSET DOMAIN chunks |-> LinesFrom(chunks, it, s)])[DOMAIN chunks].lines
  BY DEF Llm!LinesOf, Llm!FoldLeft, Llm!MapThenFoldSet, LinesFrom, Drained, DrainFrom, Searching, Tries, NoLines

LEMMA DrainFinds ==
  ASSUME NEW S, "nl" \in S, NEW b \in Buffers(S)
  PROVE  Drained(b) \in Buffers(S) /\ TextHeld(Drained(b)) = TextHeld(b) /\ Searched(Drained(b))
<1> DEFINE n == Len(b.bytes) + 1
           V == Buffers(S)
           zero == Searching(b)
           Then(r) == IF r.more THEN Llm!NextLine(r) ELSE r
           go == [i \in 1 .. n |-> [r \in V |-> Then(r)]]
           it == CHOOSE it : it = [s \in SUBSET (1 .. n) |-> DrainFrom(b, it, s)]
<1>1. n \in Nat /\ DOMAIN Tries(b) = 1 .. n /\ Len(b.bytes) \in Nat
  BY DEF Buffers, Tries
<1>2. zero \in V /\ zero.bytes = b.bytes /\ TextHeld(zero) = TextHeld(b) /\ zero.more
  <2>1. b \in [bytes : Seq(S), start : Nat, scanned : Nat, lines : Seq(Seq(S)), more : BOOLEAN] /\ Scanned(b)
    BY DEF Buffers
  <2>2. zero \in [bytes : Seq(S), start : Nat, scanned : Nat, lines : Seq(Seq(S)), more : BOOLEAN]
    BY <2>1 DEF Searching
  <2>3. zero.bytes = b.bytes /\ zero.start = b.start /\ zero.scanned = b.scanned /\ zero.lines = b.lines /\ zero.more
    BY <2>1 DEF Searching
  <2> HIDE DEF zero
  <2>4. Scanned(zero)
    BY <2>1, <2>3 DEF Scanned
  <2> QED
    BY <2>2, <2>3, <2>4 DEF Buffers, TextHeld, Unread
<1>3. \A r \in V : Then(r) \in V
  BY NextLineSearches
<1> HIDE DEF Then, V, zero, n
<1>4. go \in [1 .. n -> [V -> V]]
  BY <1>3
<1>5. \A i \in 1 .. n, r \in V : go[i][r] = Then(r)
  OBVIOUS
<1> HIDE DEF go
<1>6. PICK some \in [SUBSET (1 .. n) -> V] : \A s \in SUBSET (1 .. n) : Folds(some, zero, go, s)
  BY <1>1, <1>2, <1>4, FoldIsThere
<1>7. ASSUME NEW f, NEW s \in SUBSET (1 .. n), s # {}, f[s \ {Max(s)}] \in V
      PROVE  DrainFrom(b, f, s) = go[Max(s)][f[s \ {Max(s)}]]
  <2>1. Max(s) \in 1 .. n /\ Llm!Max(s) = Max(s)
    BY <1>1, <1>7, GreatestOf, LlmLibrary
  <2> QED
    BY <1>5, <1>7, <2>1 DEF DrainFrom, Then
<1>8. some = [s \in SUBSET (1 .. n) |-> DrainFrom(b, some, s)]
  <2>1. ASSUME NEW s \in SUBSET (1 .. n) PROVE some[s] = DrainFrom(b, some, s)
    <3>1. CASE s = {}
      BY <1>6, <3>1 DEF Folds, DrainFrom, zero
    <3>2. CASE s # {}
      <4>1. some[s \ {Max(s)}] \in V
        BY <1>6
      <4> QED
        BY <1>6, <1>7, <3>2, <4>1 DEF Folds
    <3> QED
      BY <3>1, <3>2
  <2> QED
    BY <2>1
<1>9. it = [s \in SUBSET (1 .. n) |-> DrainFrom(b, it, s)]
  BY <1>8
<1>10. Drained(b) = it[1 .. n]
  BY <1>1 DEF Drained
<1> HIDE DEF it
<1>11. it[{}] = zero
  BY <1>9 DEF DrainFrom, zero
<1>12. ASSUME NEW s \in SUBSET (1 .. n), s # {}, it[s \ {Max(s)}] \in V PROVE Folds(it, zero, go, s)
  BY <1>7, <1>9, <1>12 DEF Folds
<1>13. Going(it, zero, go, n, V)
  BY <1>11, <1>12 DEF Going
<1>14. Gone(it, zero, go, n, V)
  BY <1>1, <1>2, <1>4, <1>13, FoldGoes
<1>15. PICK c \in [0 .. n -> V] : c[0] = zero /\ c[n] = it[1 .. n] /\ \A i \in 1 .. n : c[i] = go[i][c[i - 1]]
  BY <1>14 DEF Gone
<1> DEFINE AsFar(i) == /\ c[i].bytes = b.bytes /\ TextHeld(c[i]) = TextHeld(b)
                       /\ c[i].more => c[i].start >= i
                       /\ ~c[i].more => Searched(c[i])
           P == {i \in 0 .. n : AsFar(i)}
<1>16. \A i \in 0 .. n : c[i] \in V /\ c[i].start \in Nat /\ c[i].start <= Len(c[i].bytes) /\ Len(c[i].bytes) \in Nat
  <2>1. \A r \in V : r.start \in Nat /\ r.start <= Len(r.bytes) /\ Len(r.bytes) \in Nat
    <3> TAKE r \in V
    <3>1. r.bytes \in Seq(S) /\ r.start \in Nat /\ r.scanned \in Nat /\ Scanned(r)
      BY DEF V, Buffers
    <3>2. r.start <= r.scanned /\ r.scanned <= Len(r.bytes) /\ Len(r.bytes) \in Nat
      BY <3>1 DEF Scanned
    <3> QED
      BY <3>1, <3>2
  <2>2. \A i \in 0 .. n : c[i] \in V
    OBVIOUS
  <2> QED
    BY <2>1, <2>2
<1>17. 0 \in P
  <2>1. c[0].start >= 0 /\ 0 \in 0 .. n
    BY <1>1, <1>16
  <2> QED
    BY <1>2, <1>15, <2>1
<1>18. ASSUME NEW i \in 1 .. n, i - 1 \in P PROVE i \in P
  <2>1. i - 1 \in 0 .. n /\ i \in 0 .. n /\ AsFar(i - 1)
    BY <1>18
  <2>2. c[i] = Then(c[i - 1])
    BY <1>5, <1>15, <1>16, <2>1
  <2>3. CASE c[i - 1].more
    <3>1. c[i] = Llm!NextLine(c[i - 1])
      BY <2>2, <2>3 DEF Then
    <3>2. Searches(c[i - 1], c[i])
      BY <1>16, <2>1, <2>3, <3>1, NextLineSearches DEF V
    <3>3. c[i].more => c[i].start >= i
      <4>1. c[i - 1].start \in Nat /\ c[i].start \in Nat /\ c[i - 1].start >= i - 1
        BY <1>16, <2>1, <2>3
      <4>2. c[i].more => c[i].start > c[i - 1].start
        BY <3>2 DEF Searches
      <4> QED
        BY <4>1, <4>2
    <3>4. AsFar(i)
      BY <2>1, <3>2, <3>3 DEF Searches
    <3> HIDE DEF AsFar
    <3> QED
      BY <2>1, <3>4
  <2>4. CASE ~c[i - 1].more
    <3>1. c[i] = c[i - 1]
      BY <2>2, <2>4 DEF Then
    <3>2. AsFar(i)
      BY <2>1, <2>4, <3>1
    <3> HIDE DEF AsFar
    <3> QED
      BY <2>1, <3>2
  <2> QED
    BY <2>3, <2>4
<1> HIDE DEF P
<1>19. \A i \in 0 .. n : i \in P
  BY <1>1, <1>17, <1>18, Induction
<1>20. n \in 0 .. n /\ AsFar(n)
  BY <1>1, <1>19 DEF P
<1>21. ~c[n].more
  <2>1. c[n].start <= Len(b.bytes) /\ c[n].start \in Nat /\ (c[n].more => c[n].start >= n)
    BY <1>16, <1>20
  <2>2. n = Len(b.bytes) + 1
    BY DEF n
  <2> QED
    BY <1>1, <2>1, <2>2
<1>22. Drained(b) = c[n] /\ c[n] \in V
  BY <1>10, <1>15, <1>16, <1>20
<1> QED
  BY <1>20, <1>21, <1>22 DEF V

LEMMA LinesFollow ==
  ASSUME NEW S, "nl" \in S, NEW chunks \in Seq(Seq(S))
  PROVE  \E b \in Buffers(S) : Llm!LinesOf(chunks) = b.lines /\ Searched(b) /\ TextHeld(b) = Llm!FlattenSeq(chunks)
<1> DEFINE n == Len(chunks)
           V == Buffers(S)
           Then(i, r) == Drained(Llm!Push(r, chunks[i]))
           go == [i \in 1 .. n |-> [r \in V |-> Then(i, r)]]
           it == CHOOSE it : it = [s \in SUBSET (1 .. n) |-> LinesFrom(chunks, it, s)]
<1>1. n \in Nat /\ DOMAIN chunks = 1 .. n /\ \A i \in 1 .. n : chunks[i] \in Seq(S)
  OBVIOUS
<1>2. NoLines \in V /\ Searched(NoLines) /\ TextHeld(NoLines) = <<>>
  <2>1. NoLines \in [bytes : Seq(S), start : Nat, scanned : Nat, lines : Seq(Seq(S)), more : BOOLEAN]
    BY DEF NoLines
  <2>2. NoLines.bytes = <<>> /\ NoLines.start = 0 /\ NoLines.scanned = 0 /\ NoLines.lines = <<>>
    BY DEF NoLines
  <2>3. NoLines \in V /\ Searched(NoLines)
    BY <2>1, <2>2 DEF Buffers, Scanned, Searched
  <2>4. Closed(<<>>) = <<>>
    BY DEF Closed
  <2>5. Llm!FlattenSeq(<<>>) = <<>>
    BY DEF Llm!FlattenSeq
  <2>6. Unread(NoLines) = <<>>
    BY <2>2, SubSeqEmpty DEF Unread
  <2>7. <<>> \o <<>> = <<>>
    OBVIOUS
  <2> QED
    BY <2>2, <2>3, <2>4, <2>5, <2>6, <2>7 DEF TextHeld
<1>3. \A i \in 1 .. n, r \in V :
        Then(i, r) \in V /\ Searched(Then(i, r)) /\ TextHeld(Then(i, r)) = TextHeld(r) \o chunks[i]
  BY <1>1, PushAdds, DrainFinds
<1> HIDE DEF Then, V, n
<1>4. go \in [1 .. n -> [V -> V]]
  BY <1>3
<1>5. \A i \in 1 .. n, r \in V : go[i][r] = Then(i, r)
  OBVIOUS
<1> HIDE DEF go
<1>6. PICK some \in [SUBSET (1 .. n) -> V] : \A s \in SUBSET (1 .. n) : Folds(some, NoLines, go, s)
  BY <1>1, <1>2, <1>4, FoldIsThere
<1>7. ASSUME NEW f, NEW s \in SUBSET (1 .. n), s # {}, f[s \ {Max(s)}] \in V
      PROVE  LinesFrom(chunks, f, s) = go[Max(s)][f[s \ {Max(s)}]]
  <2>1. Max(s) \in 1 .. n /\ Llm!Max(s) = Max(s)
    BY <1>1, <1>7, GreatestOf, LlmLibrary
  <2> QED
    BY <1>5, <1>7, <2>1 DEF LinesFrom, Then
<1>8. some = [s \in SUBSET (1 .. n) |-> LinesFrom(chunks, some, s)]
  <2>1. ASSUME NEW s \in SUBSET (1 .. n) PROVE some[s] = LinesFrom(chunks, some, s)
    <3>1. CASE s = {}
      BY <1>6, <3>1 DEF Folds, LinesFrom
    <3>2. CASE s # {}
      <4>1. some[s \ {Max(s)}] \in V
        BY <1>6
      <4> QED
        BY <1>6, <1>7, <3>2, <4>1 DEF Folds
    <3> QED
      BY <3>1, <3>2
  <2> QED
    BY <2>1
<1>9. it = [s \in SUBSET (1 .. n) |-> LinesFrom(chunks, it, s)]
  BY <1>8
<1>10. Llm!LinesOf(chunks) = it[1 .. n].lines
  BY <1>1, LinesAreFold
<1> HIDE DEF it
<1>11. it[{}] = NoLines
  BY <1>9 DEF LinesFrom
<1>12. ASSUME NEW s \in SUBSET (1 .. n), s # {}, it[s \ {Max(s)}] \in V PROVE Folds(it, NoLines, go, s)
  BY <1>7, <1>9, <1>12 DEF Folds
<1>13. Going(it, NoLines, go, n, V)
  BY <1>11, <1>12 DEF Going
<1>14. Gone(it, NoLines, go, n, V)
  BY <1>1, <1>2, <1>4, <1>13, FoldGoes
<1>15. PICK c \in [0 .. n -> V] : c[0] = NoLines /\ c[n] = it[1 .. n] /\ \A i \in 1 .. n : c[i] = go[i][c[i - 1]]
  BY <1>14 DEF Gone
<1>16. PICK f \in [0 .. n -> Seq(S)] : Walks(chunks, f) /\ Llm!FlattenSeq(chunks) = f[n]
  BY FlatWalks DEF n
<1>17. f[0] = <<>> /\ \A i \in 1 .. n : f[i] = f[i - 1] \o chunks[i]
  BY <1>16 DEF Walks, n
<1> DEFINE AsFar(i) == Searched(c[i]) /\ TextHeld(c[i]) = f[i]
           P == {i \in 0 .. n : AsFar(i)}
<1>18. 0 \in P
  <2>1. 0 \in 0 .. n
    BY <1>1
  <2>2. AsFar(0)
    BY <1>2, <1>15, <1>17
  <2> HIDE DEF AsFar
  <2> QED
    BY <2>1, <2>2
<1>19. ASSUME NEW i \in 1 .. n, i - 1 \in P PROVE i \in P
  <2>1. i - 1 \in 0 .. n /\ i \in 0 .. n /\ AsFar(i - 1)
    BY <1>19
  <2>2. c[i - 1] \in V
    BY <2>1
  <2>3. c[i] = Then(i, c[i - 1])
    BY <1>5, <1>15, <2>2
  <2>4. Searched(c[i]) /\ TextHeld(c[i]) = TextHeld(c[i - 1]) \o chunks[i]
    BY <1>3, <2>2, <2>3
  <2>5. AsFar(i)
    BY <1>17, <2>1, <2>4
  <2> HIDE DEF AsFar
  <2> QED
    BY <2>1, <2>5
<1> HIDE DEF P
<1>20. \A i \in 0 .. n : i \in P
  BY <1>1, <1>18, <1>19, Induction
<1>21. AsFar(n) /\ c[n] \in V
  BY <1>1, <1>20 DEF P
<1> QED
  BY <1>10, <1>15, <1>16, <1>21 DEF V

BreaksOf(t) == {i \in DOMAIN t : t[i] = "nl"}

\* A text that consists of lines has as many ends as lines, and ends with one.
LEMMA EndsCounted ==
  ASSUME NEW S, "nl" \in S, NEW lines \in Seq(Seq(S)), \A i \in 1 .. Len(lines) : Unbroken(lines[i])
  PROVE  LET t == Llm!FlattenSeq(Closed(lines))
         IN  /\ t \in Seq(S) /\ IsFiniteSet(BreaksOf(t)) /\ Cardinality(BreaksOf(t)) = Len(lines)
             /\ t = <<>> \/ (Len(t) > 0 /\ t[Len(t)] = "nl")
<1> DEFINE n == Len(lines)
           closed == Closed(lines)
<1>1. n \in Nat /\ \A i \in 1 .. n : lines[i] \in Seq(S)
  OBVIOUS
<1>2. closed \in Seq(Seq(S)) /\ Len(closed) = n /\ \A i \in 1 .. n : closed[i] = Append(lines[i], "nl")
  <2>1. <<>> \in Seq(S)
    OBVIOUS
  <2>2. closed \in Seq(Seq(S))
    BY <2>1, ClosedIs
  <2>3. DOMAIN closed = 1 .. n /\ \A i \in 1 .. n : closed[i] = Append(lines[i], "nl")
    BY <1>1 DEF Closed
  <2>4. Len(closed) \in Nat /\ DOMAIN closed = 1 .. Len(closed)
    BY <2>2, LenProperties
  <2>5. Len(closed) = n
    BY <1>1, <2>3, <2>4
  <2> QED
    BY <2>2, <2>3, <2>5
<1> HIDE DEF closed, n
<1>3. PICK f \in [0 .. n -> Seq(S)] : Walks(closed, f) /\ Llm!FlattenSeq(closed) = f[n]
  BY <1>2, FlatWalks
<1>4. f[0] = <<>> /\ \A i \in 1 .. n : f[i] = f[i - 1] \o closed[i]
  BY <1>2, <1>3 DEF Walks
<1> DEFINE AsFar(i) == /\ IsFiniteSet(BreaksOf(f[i])) /\ Cardinality(BreaksOf(f[i])) = i
                       /\ f[i] = <<>> \/ (Len(f[i]) > 0 /\ f[i][Len(f[i])] = "nl")
           P == {i \in 0 .. n : AsFar(i)}
<1>5. 0 \in P
  <2>1. BreaksOf(f[0]) = {}
    BY <1>4 DEF BreaksOf
  <2>2. 0 \in 0 .. n
    BY <1>1
  <2>3. AsFar(0)
    BY <1>4, <2>1, FS_EmptySet
  <2> HIDE DEF AsFar
  <2> QED
    BY <2>2, <2>3
<1>6. ASSUME NEW i \in 1 .. n, i - 1 \in P PROVE i \in P
  <2> DEFINE a == f[i - 1]
             l == lines[i]
             z == Append(l, "nl")
             p == Len(a)
             q == Len(l)
             m == p + q + 1
  <2>1. i - 1 \in 0 .. n /\ i \in 0 .. n /\ AsFar(i - 1)
    BY <1>6
  <2>2. a \in Seq(S) /\ l \in Seq(S) /\ Unbroken(l) /\ p \in Nat /\ q \in Nat
    <3>1. a \in Seq(S)
      BY <2>1
    <3>2. l \in Seq(S) /\ Unbroken(l)
      BY <1>1 DEF n
    <3> HIDE DEF a, l
    <3> QED
      BY <3>1, <3>2
  <2>3. z \in Seq(S) /\ Len(z) = q + 1 /\ z[q + 1] = "nl" /\ \A j \in 1 .. q : z[j] = l[j]
    BY <2>2, AppendProperties
  <2>4. f[i] = a \o z
    BY <1>2, <1>4
  <2> DEFINE t == f[i]
  <2> HIDE DEF a, z, l, t
  <2>5. /\ t \in Seq(S) /\ Len(t) = m
        /\ \A j \in 1 .. m : t[j] = IF j <= p THEN a[j] ELSE z[j - p]
    <3>1. /\ t \in Seq(S) /\ Len(t) = Len(a) + Len(z)
          /\ \A j \in 1 .. Len(a) + Len(z) : t[j] = IF j <= Len(a) THEN a[j] ELSE z[j - Len(a)]
      BY <2>2, <2>3, <2>4, ConcatProperties DEF t
    <3>2. Len(a) + Len(z) = m
      BY <2>2, <2>3
    <3> QED
      BY <3>1, <3>2
  <2>7. DOMAIN a = 1 .. p /\ DOMAIN t = 1 .. m
    BY <2>2, <2>5, LenProperties
  <2>b. \A j \in 1 .. q : l[j] # "nl"
    BY <2>2 DEF Unbroken
  <2> HIDE DEF p, q
  <2>6. m \in Nat /\ m > 0 /\ t[m] = "nl"
    <3>1. m \in 1 .. m /\ m - p = q + 1 /\ ~(m <= p)
      BY <2>2
    <3> HIDE DEF m
    <3> QED
      BY <2>3, <2>5, <3>1
  <2>8. BreaksOf(t) = BreaksOf(a) \union {m}
    <3>1. ASSUME NEW j \in BreaksOf(t), j # m PROVE j \in BreaksOf(a)
      <4>1. j \in 1 .. m /\ t[j] = "nl"
        BY <2>7, <3>1 DEF BreaksOf
      <4>2. j <= p
        <5> SUFFICES ASSUME ~(j <= p) PROVE FALSE
          OBVIOUS
        <5>1. j - p \in 1 .. q
          BY <2>2, <3>1, <4>1
        <5>2. t[j] = z[j - p]
          BY <2>5, <4>1
        <5> QED
          BY <2>3, <2>b, <4>1, <5>1, <5>2
      <4>3. j \in 1 .. p /\ a[j] = "nl"
        BY <2>2, <2>5, <4>1, <4>2
      <4> QED
        BY <2>7, <4>3 DEF BreaksOf
    <3>2. ASSUME NEW j \in BreaksOf(a) PROVE j \in BreaksOf(t)
      <4>1. j \in 1 .. p /\ a[j] = "nl"
        BY <2>7 DEF BreaksOf
      <4>2. j \in 1 .. m /\ j <= p
        BY <2>2, <4>1
      <4>3. t[j] = "nl"
        BY <2>5, <4>1, <4>2
      <4> QED
        BY <2>7, <4>2, <4>3 DEF BreaksOf
    <3>3. m \in BreaksOf(t)
      BY <2>6, <2>7 DEF BreaksOf
    <3> HIDE DEF m
    <3> QED
      BY <3>1, <3>2, <3>3
  <2>9. m \notin BreaksOf(a)
    BY <2>2, <2>7 DEF BreaksOf
  <2>10. IsFiniteSet(BreaksOf(a)) /\ Cardinality(BreaksOf(a)) = i - 1
    BY <2>1 DEF a
  <2> HIDE DEF m
  <2>11. IsFiniteSet(BreaksOf(t)) /\ Cardinality(BreaksOf(t)) = i
    <3>1. IsFiniteSet(BreaksOf(a) \union {m}) /\ Cardinality(BreaksOf(a) \union {m}) = Cardinality(BreaksOf(a)) + 1
      BY <2>9, <2>10, FS_AddElement
    <3> QED
      BY <2>8, <2>10, <3>1
  <2>12. AsFar(i)
    BY <2>5, <2>6, <2>11 DEF t, m
  <2> HIDE DEF AsFar
  <2> QED
    BY <2>1, <2>12
<1> HIDE DEF P
<1>7. \A i \in 0 .. n : i \in P
  BY <1>1, <1>5, <1>6, Induction
<1>8. AsFar(n) /\ f[n] \in Seq(S)
  BY <1>1, <1>7 DEF P
<1> QED
  BY <1>3, <1>8 DEF closed, n

\* However the network cuts a stream, its lines are those of the whole text (StreamLineBuffer):
\* as many as it has ends of lines, none of them broken, and together the text up to the last end.
THEOREM LinesAreWhole ==
  ASSUME NEW S, "nl" \in S, NEW chunks \in Seq(Seq(S))
  PROVE  Llm!LinesWhole(chunks)
<1> DEFINE text == Llm!Whole(chunks)
           lines == Llm!LinesOf(chunks)
           ends == {i \in DOMAIN text : text[i] = "nl"}
           ended == Llm!FlattenSeq(Closed(lines))
           last == Llm!Max(ends \union {0})
<1>1. PICK b \in Buffers(S) : lines = b.lines /\ Searched(b) /\ TextHeld(b) = text
  BY LinesFollow DEF Llm!Whole
<1>2. b.lines \in Seq(Seq(S)) /\ b.start \in Nat /\ Len(b.bytes) \in Nat /\ b.start <= Len(b.bytes) /\ Scanned(b)
  BY DEF Buffers, Scanned
<1> DEFINE rest == Unread(b)
<1>3. /\ rest \in Seq(S) /\ Len(rest) = Len(b.bytes) - b.start
      /\ \A i \in 1 .. Len(b.bytes) - b.start : rest[i] = b.bytes[b.start + i]
  BY UnreadIs
<1>4. lines \in Seq(Seq(S)) /\ \A i \in 1 .. Len(lines) : Unbroken(lines[i])
  BY <1>1, <1>2 DEF Scanned
<1>5. text = ended \o rest
  BY <1>1 DEF TextHeld
<1> HIDE DEF rest, text, lines
<1>6. /\ ended \in Seq(S) /\ IsFiniteSet(BreaksOf(ended)) /\ Cardinality(BreaksOf(ended)) = Len(lines)
      /\ ended = <<>> \/ (Len(ended) > 0 /\ ended[Len(ended)] = "nl")
  BY <1>4, EndsCounted
<1> HIDE DEF ended
<1>7. Unbroken(rest)
  <2> SUFFICES ASSUME NEW i \in 1 .. Len(rest) PROVE rest[i] # "nl"
    BY DEF Unbroken
  <2>1. i \in 1 .. Len(b.bytes) - b.start /\ b.start + i \in b.start + 1 .. b.scanned
    BY <1>1, <1>2, <1>3 DEF Searched
  <2> QED
    BY <1>2, <1>3, <2>1 DEF Scanned
<1>8. Len(ended) \in Nat /\ Len(rest) \in Nat
  BY <1>3, <1>6
<1>9. /\ text \in Seq(S) /\ Len(text) = Len(ended) + Len(rest) /\ DOMAIN text = 1 .. Len(text)
      /\ \A i \in 1 .. Len(ended) + Len(rest) : text[i] = IF i <= Len(ended) THEN ended[i] ELSE rest[i - Len(ended)]
  <2>1. /\ text \in Seq(S) /\ Len(text) = Len(ended) + Len(rest)
        /\ \A i \in 1 .. Len(ended) + Len(rest) : text[i] = IF i <= Len(ended) THEN ended[i] ELSE rest[i - Len(ended)]
    <3>1. ended \in Seq(S) /\ rest \in Seq(S)
      BY <1>3, <1>6
    <3>2. /\ ended \o rest \in Seq(S) /\ Len(ended \o rest) = Len(ended) + Len(rest)
          /\ \A i \in 1 .. Len(ended) + Len(rest) :
               (ended \o rest)[i] = IF i <= Len(ended) THEN ended[i] ELSE rest[i - Len(ended)]
      BY <3>1, ConcatProperties
    <3> QED
      BY <1>5, <3>2
  <2>2. DOMAIN text = 1 .. Len(text)
    BY <2>1, LenProperties
  <2> QED
    BY <2>1, <2>2
<1>10. ends = BreaksOf(ended)
  <2>1. DOMAIN ended = 1 .. Len(ended)
    BY <1>6
  <2>2. ASSUME NEW i \in ends PROVE i \in BreaksOf(ended)
    <3>1. i \in 1 .. Len(ended) + Len(rest) /\ text[i] = "nl"
      BY <1>9
    <3>2. i <= Len(ended)
      <4> SUFFICES ASSUME ~(i <= Len(ended)) PROVE FALSE
        OBVIOUS
      <4>1. i - Len(ended) \in 1 .. Len(rest)
        BY <1>8, <3>1
      <4> QED
        BY <1>7, <1>9, <3>1, <4>1 DEF Unbroken
    <3>3. i \in 1 .. Len(ended) /\ ended[i] = "nl"
      BY <1>8, <1>9, <3>1, <3>2
    <3> QED
      BY <2>1, <3>3 DEF BreaksOf
  <2>3. ASSUME NEW i \in BreaksOf(ended) PROVE i \in ends
    <3>1. i \in 1 .. Len(ended) /\ ended[i] = "nl"
      BY <2>1 DEF BreaksOf
    <3>2. i \in 1 .. Len(ended) + Len(rest) /\ i <= Len(ended)
      BY <1>8, <3>1
    <3> QED
      BY <1>9, <3>1, <3>2
  <2> HIDE DEF ends
  <2> QED
    BY <2>2, <2>3
<1> HIDE DEF ends
<1>11. last = Len(ended)
  <2>1. \A i \in ends : i \in Nat /\ i <= Len(ended)
    BY <1>6, <1>8, <1>10 DEF BreaksOf
  <2>2. Len(ended) \in ends \union {0}
    <3>1. CASE ended = <<>>
      BY <3>1
    <3>2. CASE Len(ended) > 0 /\ ended[Len(ended)] = "nl"
      <4>1. Len(ended) \in DOMAIN ended
        BY <1>6, <1>8, <3>2
      <4> QED
        BY <1>10, <3>2, <4>1 DEF BreaksOf
    <3> QED
      BY <1>6, <3>1, <3>2
  <2>3. ends \union {0} \in SUBSET (0 .. Len(ended)) /\ ends \union {0} # {}
    BY <1>8, <2>1
  <2>4. Max(ends \union {0}) \in ends \union {0} /\ \A k \in ends \union {0} : k <= Max(ends \union {0})
    BY <1>8, <2>3, Greatest
  <2> DEFINE top == Max(ends \union {0})
  <2> HIDE DEF top
  <2>5. top \in ends \union {0} /\ Len(ended) <= top
    BY <2>2, <2>4 DEF top
  <2>6. top \in Nat /\ top <= Len(ended)
    BY <1>8, <2>1, <2>5
  <2>7. top = Len(ended)
    BY <1>8, <2>5, <2>6
  <2> QED
    BY <2>7, LlmLibrary DEF last, top
<1> HIDE DEF last
<1>12. ended = SubSeq(text, 1, last)
  <2>1. SubSeq(text, 1, Len(ended)) \in Seq(S) /\ Len(SubSeq(text, 1, Len(ended))) = Len(ended)
        /\ \A i \in 1 .. Len(ended) : SubSeq(text, 1, Len(ended))[i] = text[i]
    BY <1>8, <1>9
  <2>2. \A i \in 1 .. Len(ended) : SubSeq(text, 1, Len(ended))[i] = ended[i]
    BY <1>8, <1>9, <2>1
  <2> QED
    BY <1>6, <1>11, <2>1, <2>2, SeqEqual
<1>13. Len(lines) = Llm!Cardinality(ends)
  BY <1>6, <1>10, LlmLibrary
<1>14. \A i \in DOMAIN lines : \A k \in DOMAIN lines[i] : lines[i][k] # "nl"
  <2> TAKE i \in DOMAIN lines
  <2>1. i \in 1 .. Len(lines) /\ lines[i] \in Seq(S)
    BY <1>4
  <2>2. DOMAIN lines[i] = 1 .. Len(lines[i]) /\ Unbroken(lines[i])
    BY <1>4, <2>1
  <2> QED
    BY <2>2 DEF Unbroken
<1>15. Llm!FlattenSeq([i \in DOMAIN lines |-> Append(lines[i], "nl")]) = ended
  BY DEF ended, Closed
<1> QED
  BY <1>12, <1>13, <1>14, <1>15 DEF Llm!LinesWhole, last, ends, text, lines

-------------------------------------------------------------------------------
(* The parts of a turn together *)

\* What a turn is made of and leaves behind has its types and can be relied on, each part for any
\* values of its constants (TurnParts.tla).
THEOREM PartsAreKept == PartsAssumption /\ PartsSpec => [](PartsTyped /\ PartsKept)
<1>1. PartsAssumption /\ PartsSpec => []Chat!TypeOK /\ []Chat!ChatKept
  BY ChatTyped, MessageIsKept DEF PartsAssumption, PartsSpec
<1>2. PartsAssumption /\ PartsSpec => [](Summed!TypeOK /\ Summed!SummaryHolds)
  BY SummaryIsSound DEF PartsAssumption, PartsSpec
<1>3. PartsAssumption /\ PartsSpec => [](Llm!TypeOK /\ Llm!AnswerIsOne)
  BY AnswersAreWhole DEF PartsAssumption, PartsSpec
<1>4. PartsAssumption /\ PartsSpec => [](Batched!TypeOK /\ Batched!EffectsOnce)
  BY EffectsHappenOnce DEF PartsAssumption, PartsSpec
<1>5. PartsAssumption /\ PartsSpec => [](Planning!TypeOK /\ Planning!PlanKept)
  BY PlansAreKept DEF PartsAssumption, PartsSpec
<1>6. PartsAssumption /\ PartsSpec => [](Learnt!TypeOK /\ Learnt!KnowledgeKept)
  BY KnowledgeIsKept DEF PartsSpec
<1>7. PartsAssumption /\ PartsSpec => [](Schema!TypeOK /\ Schema!SchemaKept)
  BY SchemaIsKept DEF PartsAssumption, PartsSpec
<1>8. /\ Chat!TypeOK /\ Chat!ChatKept
      /\ Summed!TypeOK /\ Summed!SummaryHolds /\ Llm!TypeOK /\ Llm!AnswerIsOne
      /\ Batched!TypeOK /\ Batched!EffectsOnce /\ Planning!TypeOK /\ Planning!PlanKept
      /\ Learnt!TypeOK /\ Learnt!KnowledgeKept /\ Schema!TypeOK /\ Schema!SchemaKept
      => PartsTyped /\ PartsKept
  BY DEF PartsTyped, PartsKept
<1> QED
  BY <1>1, <1>2, <1>3, <1>4, <1>5, <1>6, <1>7, <1>8, PTL
===============================================================================
