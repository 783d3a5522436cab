------------------------ MODULE WorkContinuationsProofs ------------------------
(***************************************************************************)
(* Proofs about durable work, for any number of goals, runs, controls and  *)
(* crashes.  A first invariant carries what a checkpoint promises: one     *)
(* claimant, no use in vain, no row left running.  A second one, on top of *)
(* it, carries what a goal is promised: an interrupted goal can be         *)
(* continued, and until a crash nothing queued is out of everyone's reach. *)
(***************************************************************************)
EXTENDS WorkContinuations, TLAPS

\* The task has not written its row yet.
Early == {"idle", "knocking", "waiting", "claiming", "starting"}

\* What a run saves comes in this order: the row, then the checkpoint.
Unsaved ==
  \A r \in Runs :
    /\ task[r].pc \in Early \/ task[r].out = "refused" => run[r].status = "none"
    /\ task[r].pc \in Early \union LoopPcs \/ task[r].out = "refused" => ck[r].status = "none"

\* A task has an outcome when it returns.
OutOpen ==
  \A r \in Runs :
    /\ task[r].pc \in Early \union LoopPcs \union {"deferring"} => task[r].out = "none"
    /\ task[r].pc \in {"completing", "reporting"} => task[r].out # "refused"

DeferredSaved ==
  \A r \in Runs : task[r].pc = "deferring" \/ task[r].out = "deferred" => ck[r].status # "none"

\* Whatever is continued, or about to be, has been saved.
FromSaved ==
  /\ \A r \in Runs : task[r].from # NoRun => ck[task[r].from].status # "none"
  /\ \A c \in listed : ck[c].status # "none"

CompletingFrom == \A r \in Runs : task[r].pc = "completing" => task[r].from # NoRun

\* A run has planned a goal until it is linked, and only a turn plans another than its own.
Planning ==
  \A r \in Runs :
    /\ task[r].pc = "linking" => task[r].plan \in Goals /\ (task[r].kind = "turn" \/ task[r].goal = task[r].plan)
    /\ task[r].plan # NoGoal => task[r].pc = "linking"

\* An action is proposed before a request decides it.
ActionsOwned ==
  \A a \in Actions : /\ act[a].status # "none" => act[a].run \in Runs
                     /\ request[a] # "none" => act[a].status # "none"

\* What a request that is at work has done so far to its action.
Requested(a) ==
  \/ request[a] = "none" /\ act[a].status \in {"none", "pending", "settled"}
  \/ request[a] \in {"claimed", "started"} /\ act[a].status = "executing"
  \/ /\ request[a] \in {"executed", "finishing", "closing", "reopening", "over", "early", "crossed"}
     /\ act[a].status = "settled"
  \/ request[a] \in {"abandoned", "lost"} /\ act[a].status \in {"executing", "settled", "uncertain"}

\* A run that has proposed an action has a row and has left the loop.
ActionsOrdered ==
  \A a \in Actions :
    /\ Requested(a)
    /\ act[a].status # "none" => run[act[a].run].status # "none"
    /\ act[a].status # "none" => task[act[a].run].pc \notin Early \union {"loop", "linking"}
    /\ ~Up => request[a] \notin AtWork

\* A server that starts has no tasks, and until the first recovery step rows of the last one.
DownQuiet == ~Up => \A r \in Runs : ~Alive(r)
OverNotRunning ==
  \A r \in Runs :
    stage # "mark" /\ task[r].pc \in {"failing", "done"} => run[r].status # "running" \/ LeftRunning(r)

ConsumedBy == \A c \in Runs : ck[c].status = "consumed" => ck[c].by \in Runs

Typed == TypeOK /\ CompletingFrom /\ Planning /\ ActionsOwned
Saved == Unsaved /\ OutOpen /\ DeferredSaved /\ FromSaved /\ DownQuiet
Rows == Saved /\ ActionsOrdered
IInv == Typed /\ Rows /\ OverNotRunning /\ ClaimExclusive /\ ConsumedBy /\ ConsumedIsCarriedOn

-------------------------------------------------------------------------------
(* Typing *)

RunRows == [status : RunStatuses, goal : Goals \union {NoGoal}, cancel : BOOLEAN]
Checkpoints == [status : {"none", "available", "claimed", "consumed"}, by : Runs \union {NoRun}]
TaskStates == [pc : Pcs, kind : Kinds, goal : Goals \union {NoGoal}, from : Runs \union {NoRun},
               open : BOOLEAN, plan : Goals \union {NoGoal}, out : Outcomes]
ActionRows == [status : {"none", "pending", "executing", "settled", "uncertain"},
               run : Runs \union {NoRun}]

\* The rows that are written are runs, so the newest ones are.
LEMMA TouchTyped ==
  ASSUME newest \in [Goals -> SUBSET Runs], NEW S \in SUBSET Runs, Touch(S)
  PROVE  newest' \in [Goals -> SUBSET Runs]
BY DEF Touch

\* A row changes its status.
LEMMA UpdateTyped ==
  ASSUME TypeOK, NEW r \in Runs, NEW status \in RunStatuses, UpdateRun(r, status)
  PROVE  run' \in [Runs -> RunRows] /\ newest' \in [Goals -> SUBSET Runs]
<1>1. run' \in [Runs -> RunRows]
  BY SMTT(30) DEF UpdateRun, TypeOK, RunRows
<1>2. {r} \in SUBSET Runs /\ Touch({r}) /\ newest \in [Goals -> SUBSET Runs]
  BY DEF UpdateRun, TypeOK
<1> QED
  BY <1>1, <1>2, TouchTyped

\* A task is well typed when it is over.
LEMMA EndedTyped == \A t \in TaskStates : Ended(t) \in TaskStates
<1> SUFFICES ASSUME NEW t \in TaskStates PROVE Ended(t) \in TaskStates
  OBVIOUS
<1>1. NoTask \in TaskStates
  BY WorkAssumption DEF NoTask, TaskStates, Pcs, LoopPcs, Kinds, Outcomes
<1>2. t.out \in Outcomes
  BY DEF TaskStates
<1> QED
  BY <1>1, <1>2 DEF Ended, TaskStates, Pcs

\* What is left of a task that is over.
LEMMA EndedIs ==
  \A t : /\ Ended(t).pc = "done" /\ Ended(t).out = t.out /\ Ended(t).from = NoRun
        /\ Ended(t).plan = NoGoal
BY DEF Ended, NoTask

\* Waiting for the conversation changes the task and the lease.
LEMMA ClaimTyped ==
  ASSUME TypeOK, NEW r \in Runs, NEW t \in TaskStates, ClaimForeground(r, t)
  PROVE  /\ task' \in [Runs -> TaskStates]
         /\ owner' \in Runs \union {NoRun} /\ preempted' \subseteq Runs /\ flag' \in BOOLEAN
<1>1. [t EXCEPT !.pc = "claiming"] \in TaskStates /\ [t EXCEPT !.pc = "waiting"] \in TaskStates
  BY DEF TaskStates, Pcs
<1>2. task \in [Runs -> TaskStates]
  BY DEF TypeOK, TaskStates
<1>3. task' = [task EXCEPT ![r] = [t EXCEPT !.pc = "claiming"]]
      \/ task' = [task EXCEPT ![r] = [t EXCEPT !.pc = "waiting"]]
  BY DEF ClaimForeground
<1>4. task' \in [Runs -> TaskStates]
  BY <1>1, <1>2, <1>3
<1>5. owner' \in Runs \union {NoRun} /\ preempted' \subseteq Runs /\ flag' \in BOOLEAN
  BY DEF ClaimForeground, TypeOK
<1> QED
  BY <1>4, <1>5

-------------------------------------------------------------------------------
(* What the loop of a run and the requests of the user write *)

LoopStep(r) ==
  \/ (\E g \in Goals, s \in PlanStatuses : PlanGoal(r, g, s))
  \/ LinkGoal(r) \/ LoseLink(r)
  \/ (\E a \in Actions : Propose(r, a)) \/ ExecuteOthers(r)

\* A run in its loop keeps what it works for and from, unless it links a goal,
\* and writes its own row alone.
LoopMove(r) ==
  /\ task[r].pc \in LoopPcs /\ task'[r].pc \in LoopPcs
  /\ task[r].pc \in {"asking", "executing"} => task'[r].pc \in {"asking", "executing"}
  /\ \A x \in Runs \ {r} : task'[x] = task[x] /\ run'[x] = run[x]
  /\ task'[r].kind = task[r].kind /\ task'[r].from = task[r].from /\ task'[r].out = task[r].out
  /\ run'[r].cancel = run[r].cancel
  /\ run'[r].status \in {run[r].status, "running", "waiting_for_approval"}
  /\ UNCHANGED <<run, newest>> \/ Touch({r})
  /\ \/ task'[r].goal = task[r].goal /\ run'[r].goal = run[r].goal
     \/ LinkGoal(r) /\ Touch({r}) /\ task'[r].goal = run'[r].goal /\ task'[r].goal = task[r].plan
LoopKeeps ==
  /\ Up /\ UNCHANGED <<ck, request, owner, preempted, flag, owed, listed, stage, crashes, controls>>
  /\ \A a \in Actions : act[a].status # "none" => act'[a] = act[a]

LEMMA LoopMoves ==
  ASSUME TypeOK, Planning, NEW r \in Runs, LoopStep(r)
  PROVE  TypeOK' /\ LoopMove(r) /\ LoopKeeps
<1> USE DEF LoopMove, LoopKeeps, sideVars, leaseVars, serverVars
<1>t. /\ task \in [Runs -> TaskStates] /\ run \in [Runs -> RunRows] /\ act \in [Actions -> ActionRows]
      /\ newest \in [Goals -> SUBSET Runs]
  BY DEF TypeOK, TaskStates, RunRows, ActionRows
<1>p. LoopPcs \subseteq Pcs /\ LoopPcs = {"loop", "linking", "asking", "executing"}
  BY DEF LoopPcs, Pcs
<1>1. ASSUME NEW g \in Goals, NEW s \in PlanStatuses, PlanGoal(r, g, s)
      PROVE  TypeOK' /\ LoopMove(r) /\ LoopKeeps
  <2>1. goal' \in [Goals -> GoalStatuses \union {"absent"}]
    BY <1>1, WorkAssumption DEF PlanGoal, TypeOK, GoalStatuses
  <2>a. task' = [task EXCEPT ![r] = [task[r] EXCEPT !.pc = "linking", !.plan = g]]
    BY <1>t, <1>1 DEF PlanGoal
  <2>b. [task[r] EXCEPT !.pc = "linking", !.plan = g] \in TaskStates
    BY ZenonT(60), <1>t, <1>p DEF TaskStates
  <2>2. /\ task' \in [Runs -> TaskStates] /\ task'[r] = [task[r] EXCEPT !.pc = "linking", !.plan = g]
        /\ \A x \in Runs \ {r} : task'[x] = task[x]
    BY <1>t, <2>a, <2>b
  <2>3. TypeOK'
    BY <1>1, <2>1, <2>2 DEF PlanGoal, TypeOK, TaskStates
  <2>4. LoopMove(r)
    BY <1>t, <1>1, <2>2 DEF PlanGoal, TaskStates, RunRows, LoopPcs
  <2> QED
    BY <1>1, <2>3, <2>4 DEF PlanGoal
<1>2. CASE LinkGoal(r)
  <2>a. PICK b \in BOOLEAN : task' = [task EXCEPT ![r].pc = "loop", ![r].goal = task[r].plan,
                                                  ![r].plan = NoGoal, ![r].open = b]
    BY <1>2 DEF LinkGoal
  <2> DEFINE t == [task[r] EXCEPT !.pc = "loop", !.goal = task[r].plan, !.plan = NoGoal, !.open = b]
  <2>1. task' = [task EXCEPT ![r] = t]
    BY <1>t, <2>a
  <2>b. /\ t \in TaskStates /\ t.pc = "loop" /\ t.goal = task[r].plan
        /\ t.kind = task[r].kind /\ t.from = task[r].from /\ t.out = task[r].out
    BY <1>t, <1>p DEF TaskStates
  <2> HIDE DEF t
  <2>2. /\ task' \in [Runs -> TaskStates] /\ task'[r].pc = "loop" /\ task'[r].goal = task[r].plan
        /\ task'[r].kind = task[r].kind /\ task'[r].from = task[r].from /\ task'[r].out = task[r].out
        /\ \A x \in Runs \ {r} : task'[x] = task[x]
    BY <1>t, <2>1, <2>b
  <2>3. /\ run' \in [Runs -> RunRows] /\ \A x \in Runs \ {r} : run'[x] = run[x]
        /\ run'[r] = [run[r] EXCEPT !.goal = task[r].plan]
    BY <1>t, <1>2 DEF LinkGoal, RunRows, TaskStates
  <2>4. newest' \in [Goals -> SUBSET Runs] /\ Touch({r})
    BY <1>t, <1>2, TouchTyped DEF LinkGoal
  <2>5. TypeOK'
    BY <1>2, <2>2, <2>3, <2>4 DEF LinkGoal, TypeOK, TaskStates, RunRows
  <2>6. LoopMove(r)
    BY <1>t, <1>2, <2>2, <2>3, <2>4 DEF LinkGoal, RunRows, LoopPcs
  <2> QED
    BY <1>2, <2>5, <2>6 DEF LinkGoal
<1>3. CASE LoseLink(r)
  <2>a. task' = [task EXCEPT ![r] = [task[r] EXCEPT !.pc = "loop", !.plan = NoGoal]]
    BY <1>t, <1>3 DEF LoseLink
  <2>b. [task[r] EXCEPT !.pc = "loop", !.plan = NoGoal] \in TaskStates
    BY <1>t, <1>p DEF TaskStates
  <2>1. /\ task' \in [Runs -> TaskStates] /\ task'[r] = [task[r] EXCEPT !.pc = "loop", !.plan = NoGoal]
        /\ \A x \in Runs \ {r} : task'[x] = task[x]
    BY <1>t, <2>a, <2>b
  <2>2. left' \subseteq Goals
    BY <1>3 DEF LoseLink, Planning, TypeOK
  <2>3. TypeOK'
    BY <1>3, <2>1, <2>2 DEF LoseLink, TypeOK, TaskStates
  <2>4. LoopMove(r)
    BY <1>t, <1>3, <2>1 DEF LoseLink, TaskStates, RunRows, LoopPcs
  <2> QED
    BY <1>3, <2>3, <2>4 DEF LoseLink
<1>4. ASSUME NEW a \in Actions, Propose(r, a) PROVE TypeOK' /\ LoopMove(r) /\ LoopKeeps
  <2>1. /\ task' \in [Runs -> TaskStates] /\ task'[r] = [task[r] EXCEPT !.pc = "asking"]
        /\ \A x \in Runs \ {r} : task'[x] = task[x]
    BY <1>t, <1>4 DEF Propose, TaskStates, Pcs, LoopPcs
  <2>2. run' \in [Runs -> RunRows] /\ newest' \in [Goals -> SUBSET Runs]
    BY <1>4, UpdateTyped DEF Propose, RunStatuses, Live
  <2>3. act' \in [Actions -> ActionRows]
    BY <1>t, <1>4 DEF Propose, ActionRows
  <2>4. TypeOK'
    BY <1>4, <2>1, <2>2, <2>3 DEF Propose, TypeOK, TaskStates, RunRows, ActionRows
  <2>5. LoopMove(r)
    BY <1>t, <1>4, <2>1 DEF Propose, UpdateRun, TaskStates, RunRows, LoopPcs
  <2>6. \A x \in Actions : act[x].status # "none" => act'[x] = act[x]
    BY <1>t, <1>4 DEF Propose
  <2> QED
    BY <1>4, <2>4, <2>5, <2>6 DEF Propose
<1>5. CASE ExecuteOthers(r)
  <2>1. /\ task' \in [Runs -> TaskStates] /\ task'[r] = [task[r] EXCEPT !.pc = "executing"]
        /\ \A x \in Runs \ {r} : task'[x] = task[x]
    BY <1>t, <1>5 DEF ExecuteOthers, TaskStates, Pcs, LoopPcs
  <2>2. run' \in [Runs -> RunRows] /\ newest' \in [Goals -> SUBSET Runs]
    BY <1>5, <1>t, UpdateTyped DEF ExecuteOthers, RunStatuses, Live
  <2>3. TypeOK'
    BY <1>5, <2>1, <2>2 DEF ExecuteOthers, TypeOK, TaskStates, RunRows
  <2>4. LoopMove(r)
    BY <1>t, <1>5, <2>1 DEF ExecuteOthers, UpdateRun, TaskStates, RunRows, LoopPcs
  <2> QED
    BY <1>5, <2>3, <2>4 DEF ExecuteOthers
<1> QED
  BY <1>1, <1>2, <1>3, <1>4, <1>5 DEF LoopStep

\* A resume starts a task of its own, or leaves the goal to its schedule.
ResumeMove(g, r) ==
  /\ task[r] = NoTask /\ \A x \in Runs \ {r} : task'[x] = task[x]
  /\ \/ task' = task /\ g \in left'
     \/ LET c == task'[r].from
        IN /\ task'[r].pc = "knocking" /\ task'[r].kind = "resume" /\ task'[r].goal = g
           /\ task'[r].out = "none" /\ task'[r].plan = NoGoal /\ left' = left
           /\ c # NoRun => c \in Runs /\ ck[c].status = "available" /\ run[c].goal = g

LEMMA ResumeMoves ==
  ASSUME TypeOK, NEW g \in Goals, NEW r \in Runs, Resume(g, r)
  PROVE  task' \in [Runs -> TaskStates] /\ ResumeMove(g, r)
<1>t. task \in [Runs -> TaskStates] /\ NoTask \in TaskStates
  BY WorkAssumption DEF TypeOK, TaskStates, NoTask, Pcs, Kinds, Outcomes
<1>1. CASE task' = task /\ left' = left \union {g}
  BY <1>t, <1>1 DEF Resume, ResumeMove
<1>2. ASSUME NEW c \in Runs \union {NoRun}, c # NoRun => c \in RunsOf(g) /\ ck[c].status = "available",
             task' = [task EXCEPT ![r] = [NoTask EXCEPT !.pc = "knocking", !.kind = "resume",
                                                        !.goal = g, !.from = c]],
             left' = left
      PROVE  task' \in [Runs -> TaskStates] /\ ResumeMove(g, r)
  <2> DEFINE t == [NoTask EXCEPT !.pc = "knocking", !.kind = "resume", !.goal = g, !.from = c]
  <2>1. t.pc = "knocking" /\ t.kind = "resume" /\ t.goal = g /\ t.from = c /\ t.out = "none" /\ t.plan = NoGoal
    BY DEF NoTask
  <2>2. "knocking" \in Pcs /\ "resume" \in Kinds
    BY DEF Pcs, Kinds
  <2>3. t \in TaskStates
    BY <1>t, <2>2 DEF TaskStates
  <2>4. task' = [task EXCEPT ![r] = t]
    BY <1>2
  <2> HIDE DEF t
  <2>5. task' \in [Runs -> TaskStates] /\ task'[r] = t /\ \A x \in Runs \ {r} : task'[x] = task[x]
    BY <1>t, <2>3, <2>4
  <2> QED
    BY <1>2, <2>1, <2>5 DEF Resume, ResumeMove, RunsOf
<1> QED
  BY <1>1, <1>2 DEF Resume, RunsOf

\* An event that a request or the watchdog publishes changes the status of one row.
EventStep == (\E a \in Actions : DecisionStep(a)) \/ (\E r \in Runs : Watchdog(r))
EventMove ==
  /\ Up /\ UNCHANGED <<goal, ck, left, task, owner, preempted, flag, listed, stage, crashes>>
  /\ \/ UNCHANGED <<run, newest>>
     \/ \E r \in Runs, s \in {"running", "completed", "waiting_for_approval", "failed"} : UpdateRun(r, s)
  /\ \A a \in Actions : act'[a].run = act[a].run

LEMMA EventMoves == ASSUME TypeOK, ActionsOwned, EventStep PROVE TypeOK' /\ EventMove
<1> USE DEF EventMove, sideVars, leaseVars, serverVars
<1>t. act \in [Actions -> ActionRows] /\ request \in [Actions -> Requests] /\ run \in [Runs -> RunRows]
  BY DEF TypeOK, ActionRows, RunRows
\* A row that is written, or none.
<1>w. ASSUME \/ UNCHANGED <<run, newest>>
             \/ \E r \in Runs, s \in {"running", "completed", "waiting_for_approval", "failed"} : UpdateRun(r, s)
      PROVE  run' \in [Runs -> RunRows] /\ newest' \in [Goals -> SUBSET Runs]
  BY <1>t, <1>w, UpdateTyped DEF TypeOK, RunStatuses, Live
<1>1. ASSUME NEW a \in Actions, DecisionStep(a) PROVE TypeOK' /\ EventMove
  <2>r. request[a] # "none" => act[a].run \in Runs
    BY DEF ActionsOwned
  <2>1. /\ Up /\ UNCHANGED <<goal, ck, left, task, owner, preempted, flag, owed, listed, stage, crashes>>
        /\ request' \in [Actions -> Requests]
    BY <1>t, <1>1 DEF DecisionStep, ClaimAction, ToolStarted, ResolveAction, ToolFinished, ResolveQuietly,
                      ReadBatch, ActionResolved, AbandonAction, Decider, Requests, AtWork
  <2>2. controls' \in 0..MaxControls
    BY <1>1, WorkAssumption DEF DecisionStep, ClaimAction, ToolStarted, ResolveAction, ToolFinished, ResolveQuietly,
                      ReadBatch, ActionResolved, AbandonAction, Control, TypeOK
  <2>3. act' \in [Actions -> ActionRows] /\ \A b \in Actions : act'[b].run = act[b].run
    <3>1. \/ act' = act \/ act' = [act EXCEPT ![a].status = "settled"]
          \/ act' = [act EXCEPT ![a].status = "executing"]
      BY <1>1 DEF DecisionStep, ClaimAction, ToolStarted, ResolveAction, ToolFinished, ResolveQuietly,
                  ReadBatch, ActionResolved, AbandonAction, SettleAction
    <3> QED
      BY <1>t, <3>1 DEF ActionRows
  <2>4. \/ UNCHANGED <<run, newest>>
        \/ /\ request[a] # "none"
           /\ \E s \in {"running", "completed", "waiting_for_approval"} : UpdateRun(act[a].run, s)
    BY <1>1 DEF DecisionStep, ClaimAction, ToolStarted, ResolveAction, ToolFinished, ResolveQuietly,
                ReadBatch, ActionResolved, AbandonAction, Decider
  <2>5. \/ UNCHANGED <<run, newest>>
        \/ \E r \in Runs, s \in {"running", "completed", "waiting_for_approval", "failed"} : UpdateRun(r, s)
    BY <2>r, <2>4
  <2>6. run' \in [Runs -> RunRows] /\ newest' \in [Goals -> SUBSET Runs]
    BY <1>w, <2>5
  <2> QED
    BY <2>1, <2>2, <2>3, <2>5, <2>6 DEF TypeOK, RunRows, ActionRows
<1>2. ASSUME NEW r \in Runs, Watchdog(r) PROVE TypeOK' /\ EventMove
  <2>1. run' \in [Runs -> RunRows] /\ newest' \in [Goals -> SUBSET Runs]
    BY <1>w, <1>2 DEF Watchdog
  <2>2. TypeOK'
    BY <1>2, <2>1 DEF Watchdog, TypeOK, RunRows
  <2> QED
    BY <1>2, <2>2 DEF Watchdog
<1> QED
  BY <1>1, <1>2 DEF EventStep

LEMMA TypeStep == Typed /\ [Next]_vars => TypeOK' /\ CompletingFrom'
<1> DEFINE Goal == TypeOK' /\ CompletingFrom'
<1> SUFFICES ASSUME Typed, [Next]_vars PROVE Goal
  OBVIOUS
<1> USE DEF Typed, CompletingFrom, dbVars, sideVars, leaseVars, serverVars
<1>t. /\ task \in [Runs -> TaskStates] /\ run \in [Runs -> RunRows] /\ ck \in [Runs -> Checkpoints]
      /\ NoTask \in TaskStates /\ act \in [Actions -> ActionRows]
  BY WorkAssumption DEF TypeOK, TaskStates, RunRows, Checkpoints, ActionRows, NoTask, Pcs, LoopPcs, Kinds, Outcomes
<1>1. CASE \E r \in Runs : TaskStep(r)
  <2> PICK r \in Runs : TaskStep(r)
    BY <1>1
  <2>1. CASE StartTurn(r) \/ Knock(r)
    <3>1. PICK t \in TaskStates : ClaimForeground(r, t)
      BY <1>t, <2>1 DEF StartTurn, Knock
    <3>2. /\ task' \in [Runs -> TaskStates]
          /\ owner' \in Runs \union {NoRun} /\ preempted' \subseteq Runs /\ flag' \in BOOLEAN
      BY <3>1, ClaimTyped
    <3>3. UNCHANGED <<dbVars, serverVars>>
      BY <2>1 DEF StartTurn, Knock
    <3>4. \A x \in Runs : task'[x].pc = "completing" => x # r /\ task'[x] = task[x]
      BY <1>t, <3>1 DEF ClaimForeground, TaskStates
    <3> QED
      BY <3>2, <3>3, <3>4 DEF TypeOK, TaskStates
  <2>2. CASE GiveUpKnocking(r) \/ FailResume(r)
    <3>1. Ended(task[r]) \in TaskStates /\ Ended(task[r]).pc = "done"
      BY <1>t, EndedTyped DEF Ended, NoTask
    <3>2. task' = [task EXCEPT ![r] = Ended(task[r])]
      BY <2>2 DEF GiveUpKnocking, FailResume
    <3>3. task' \in [Runs -> TaskStates] /\ \A x \in Runs : x # r => task'[x] = task[x]
      BY <1>t, <3>1, <3>2
    <3>4. task'[r].pc = "done"
      BY <1>t, <3>1, <3>2
    <3>5. goal' \in [Goals -> GoalStatuses \union {"absent"}]
      BY <2>2 DEF GiveUpKnocking, FailResume, TypeOK, GoalStatuses
    <3> QED
      BY <2>2, <3>3, <3>4, <3>5 DEF GiveUpKnocking, FailResume, TypeOK, TaskStates
  <2>3. CASE Acquire(r)
    <3>1. task' = [task EXCEPT ![r].pc = "claiming"] /\ "claiming" \in Pcs
      BY <2>3 DEF Acquire, Step, Pcs
    <3>2. task' \in [Runs -> TaskStates] /\ \A x \in Runs : task'[x].pc = "completing" => task'[x] = task[x]
      BY <1>t, <3>1 DEF TaskStates
    <3> QED
      BY <2>3, <3>2 DEF Acquire, TypeOK, TaskStates
  <2>4. CASE ClaimCheckpoint(r)
    <3>1. task' \in [Runs -> TaskStates] /\ \A x \in Runs : task'[x].pc = "completing" => task'[x] = task[x]
      BY <1>t, <2>4 DEF ClaimCheckpoint, Step, Return, TaskStates, Pcs, LoopPcs, Outcomes
    <3>2. ck' \in [Runs -> Checkpoints]
      BY <1>t, <2>4 DEF ClaimCheckpoint, Checkpoints
    <3> QED
      BY <2>4, <3>1, <3>2 DEF ClaimCheckpoint, TypeOK, TaskStates, Checkpoints
  <2>5. CASE RunStarted(r)
    <3>1. run' \in [Runs -> RunRows]
      BY <1>t, <2>5 DEF RunStarted, RunRows, TaskStates, RunStatuses, Live
    <3>2. newest' \in [Goals -> SUBSET Runs]
      BY <2>5, TouchTyped DEF RunStarted, TypeOK
    <3>3. task' \in [Runs -> TaskStates] /\ \A x \in Runs : task'[x].pc = "completing" => task'[x] = task[x]
      <4>1. PICK b \in BOOLEAN : task' = [task EXCEPT ![r].pc = "loop", ![r].open = b]
        BY <2>5 DEF RunStarted
      <4> QED
        BY ZenonT(60), <1>t, <4>1 DEF TaskStates, Pcs, LoopPcs
    <3> QED
      BY <2>5, <3>1, <3>2, <3>3 DEF RunStarted, TypeOK, TaskStates, RunRows
  <2>6. CASE ObserveCancel(r) \/ WaitForApproval(r) \/ QueueContinuation(r)
    <3>1. PICK status \in RunStatuses : UpdateRun(r, status)
      BY <2>6 DEF ObserveCancel, WaitForApproval, QueueContinuation, RunStatuses, Live
    <3>2. run' \in [Runs -> RunRows] /\ newest' \in [Goals -> SUBSET Runs]
      BY <3>1, UpdateTyped
    <3>3. task' \in [Runs -> TaskStates] /\ \A x \in Runs : task'[x].pc = "completing" => task'[x] = task[x]
      BY <1>t, <2>6 DEF ObserveCancel, WaitForApproval, QueueContinuation, Return, TaskStates, Pcs, LoopPcs, Outcomes
    <3> QED
      BY <2>6, <3>2, <3>3 DEF ObserveCancel, WaitForApproval, QueueContinuation, TypeOK, TaskStates, RunRows
  <2>7. CASE Final(r) \/ Fail(r)
    <3>1. task' \in [Runs -> TaskStates] /\ \A x \in Runs : task'[x].pc = "completing" => task'[x] = task[x]
      BY <1>t, <2>7 DEF Final, Fail, Return, TaskStates, Pcs, LoopPcs, Outcomes
    <3>2. left' \subseteq Goals
      BY <2>7 DEF Final, Fail, TypeOK
    <3> QED
      BY <2>7, <3>1, <3>2 DEF Final, Fail, TypeOK, TaskStates
  <2>8. CASE LoopStep(r)
    BY <1>t, <2>8, LoopMoves DEF LoopMove, LoopPcs
  <2>9. CASE SaveCheckpoint(r)
    <3>1. PICK g \in Goals :
            /\ goal' = goal \/ goal' = [goal EXCEPT ![g] = "active"]
            /\ run' = [run EXCEPT ![r].goal = g]
            /\ task' = [task EXCEPT ![r].pc = "deferring", ![r].goal = g]
      BY <2>9 DEF SaveCheckpoint
    <3>2. goal' \in [Goals -> GoalStatuses \union {"absent"}]
      BY <3>1 DEF TypeOK, GoalStatuses
    <3>3. run' \in [Runs -> RunRows]
      BY <1>t, <3>1 DEF RunRows
    <3>4. newest' \in [Goals -> SUBSET Runs]
      BY <2>9, TouchTyped DEF SaveCheckpoint, TypeOK
    <3>5. task' \in [Runs -> TaskStates] /\ \A x \in Runs : task'[x].pc = "completing" => task'[x] = task[x]
      BY <1>t, <3>1 DEF TaskStates, Pcs, LoopPcs
    <3>6. ck' \in [Runs -> Checkpoints]
      BY <1>t, <2>9 DEF SaveCheckpoint, Checkpoints
    <3> QED
      BY <2>9, <3>2, <3>3, <3>4, <3>5, <3>6 DEF SaveCheckpoint, TypeOK, TaskStates, RunRows, Checkpoints
  <2>10. CASE Release(r)
    <3>1. run' \in [Runs -> RunRows] /\ newest' \in [Goals -> SUBSET Runs]
      <4>1. CASE flag /\ task[r].from # NoRun /\ task[r].out # "refused"
        <5>1. task[r].from \in Runs /\ "cancelled" \in RunStatuses
          BY <1>t, <4>1 DEF TaskStates, RunStatuses
        <5> QED
          BY <2>10, <4>1, <5>1, UpdateTyped DEF Release
      <4> QED
        BY <1>t, <2>10, <4>1 DEF Release, TypeOK
    <3>2. task' \in [Runs -> TaskStates] /\ \A x \in Runs : task'[x].pc = "completing" => task'[x] = task[x]
      BY <1>t, <2>10 DEF Release, Step, TaskStates, Pcs, LoopPcs
    <3> QED
      BY <2>10, <3>1, <3>2 DEF Release, TypeOK, TaskStates, RunRows
  <2>11. CASE Settle(r)
    <3>1. Ended(task[r]) \in TaskStates /\ Ended(task[r]).pc = "done"
      BY <1>t, EndedTyped DEF Ended, NoTask
    <3>2. task' \in [Runs -> TaskStates]
      BY SMTT(30), <1>t, <2>11, <3>1 DEF Settle, Step, TaskStates, Pcs, LoopPcs
    <3>3. \A x \in Runs : task'[x].pc = "completing" => task'[x].from # NoRun
      BY <1>t, <2>11, <3>1 DEF Settle, Step, TaskStates
    <3>4. ck' \in [Runs -> Checkpoints]
      BY <1>t, <2>11 DEF Settle, Checkpoints
    <3> QED
      BY <2>11, <3>2, <3>3, <3>4 DEF Settle, TypeOK, TaskStates, Checkpoints
  <2>12. CASE CompleteOrigin(r)
    <3>1. task[r].from \in Runs /\ "completed" \in RunStatuses /\ UpdateRun(task[r].from, "completed")
      BY <1>t, <2>12 DEF CompleteOrigin, Step, TaskStates, RunStatuses
    <3>2. run' \in [Runs -> RunRows] /\ newest' \in [Goals -> SUBSET Runs]
      BY <3>1, UpdateTyped
    <3>3. task' \in [Runs -> TaskStates] /\ \A x \in Runs : task'[x].pc = "completing" => task'[x] = task[x]
      BY <1>t, <2>12 DEF CompleteOrigin, Step, TaskStates, Pcs, LoopPcs
    <3> QED
      BY <2>12, <3>2, <3>3 DEF CompleteOrigin, TypeOK, TaskStates, RunRows
  <2>13. CASE Report(r)
    <3>1. Ended(task[r]) \in TaskStates /\ Ended(task[r]).pc = "done"
      BY <1>t, EndedTyped DEF Ended, NoTask
    <3>2. task' \in [Runs -> TaskStates] /\ \A x \in Runs : task'[x].pc = "completing" => task'[x] = task[x]
      BY <1>t, <2>13, <3>1 DEF Report, TaskStates, Pcs, LoopPcs
    <3>3. (\E status \in RunStatuses : UpdateRun(r, status)) \/ UNCHANGED <<run, newest>>
      BY <2>13 DEF Report, RunStatuses
    <3>4. run' \in [Runs -> RunRows] /\ newest' \in [Goals -> SUBSET Runs]
      BY <1>t, <3>3, UpdateTyped DEF TypeOK
    <3> QED
      BY <2>13, <3>2, <3>4 DEF Report, TypeOK, TaskStates, RunRows
  <2> QED
    BY <2>1, <2>2, <2>3, <2>4, <2>5, <2>6, <2>7, <2>8, <2>9, <2>10, <2>11, <2>12, <2>13 DEF TaskStep, LoopStep
<1>2. CASE ListCheckpoints
  BY <1>2 DEF ListCheckpoints, TypeOK
<1>3. ASSUME NEW c \in Runs, NEW r \in Runs, Dispatch(c, r) PROVE Goal
  <2>1. run[c].goal \in Goals \union {NoGoal}
    BY <1>t DEF RunRows
  <2>2. task' \in [Runs -> TaskStates] /\ \A x \in Runs : task'[x].pc = "completing" => task'[x] = task[x]
    <3> DEFINE t == [pc |-> "claiming", kind |-> "continuation",
                     goal |-> run[c].goal, from |-> c, open |-> FALSE, plan |-> NoGoal, out |-> "none"]
    <3>1. t \in TaskStates /\ t.pc = "claiming"
      BY <2>1 DEF TaskStates, Pcs, LoopPcs, Kinds, Outcomes
    <3>2. task' = [task EXCEPT ![r] = t] \/ task' = task
      BY <1>3 DEF Dispatch
    <3> HIDE DEF t
    <3> QED
      BY <1>t, <3>1, <3>2
  <2> QED
    BY <1>3, <2>2 DEF Dispatch, TypeOK, TaskStates
<1>4. CASE UserStep
  <2>1. ASSUME NEW g \in Goals, Pause(g) \/ CancelGoal(g) PROVE Goal
    <3>a. StopRunsOf(g)
      BY <2>1 DEF Pause, CancelGoal, SetGoal
    <3>b. run' \in [Runs -> RunRows]
      BY <1>t, <3>a DEF StopRunsOf, RunRows
    <3>1. run' \in [Runs -> RunRows] /\ \E S \in SUBSET Runs : Touch(S)
      BY <3>a, <3>b DEF StopRunsOf, RunsOf
    <3>2. newest' \in [Goals -> SUBSET Runs]
      BY <3>1, TouchTyped DEF TypeOK
    <3>3. goal' \in [Goals -> GoalStatuses \union {"absent"}]
      BY <2>1 DEF Pause, CancelGoal, SetGoal, TypeOK, GoalStatuses
    <3>4. owed' \in Nat /\ controls' \in 0..MaxControls
      BY <2>1, WorkAssumption DEF Pause, CancelGoal, SetGoal, Control, TypeOK
    <3>5. act' \in [Actions -> ActionRows]
      BY <1>t, <2>1 DEF Pause, CancelGoal, RejectActionsOf, ActionRows
    <3> QED
      BY <2>1, <3>1, <3>2, <3>3, <3>4, <3>5 DEF Pause, CancelGoal, TypeOK, RunRows, ActionRows
  <2>2. ASSUME NEW g \in Goals, NEW r \in Runs, Resume(g, r) PROVE Goal
    <3>1. task' \in [Runs -> TaskStates] /\ \A x \in Runs : task'[x].pc = "completing" => task'[x] = task[x]
      BY <2>2, ResumeMoves DEF ResumeMove
    <3>2. goal' \in [Goals -> GoalStatuses \union {"absent"}]
      BY <2>2 DEF Resume, TypeOK, GoalStatuses
    <3>3. Control /\ left' \in {left, left \union {g}}
      BY <2>2 DEF Resume
    <3>4. controls' \in 0..MaxControls
      BY <3>3, WorkAssumption DEF Control, TypeOK
    <3>5. left' \subseteq Goals
      BY <3>3 DEF TypeOK
    <3> QED
      BY <2>2, <3>1, <3>2, <3>4, <3>5 DEF Resume, TypeOK, TaskStates
  <2>3. ASSUME NEW r \in Runs, CancelRun(r) PROVE Goal
    <3>1. run' \in [Runs -> RunRows]
      BY <1>t, <2>3 DEF CancelRun, RunRows, RunStatuses
    <3>2. newest' \in [Goals -> SUBSET Runs]
      BY <2>3, TouchTyped DEF CancelRun, TypeOK
    <3>3. owed' \in Nat /\ controls' \in 0..MaxControls
      BY <2>3, WorkAssumption DEF CancelRun, Control, TypeOK
    <3>4. act' \in [Actions -> ActionRows]
      BY <1>t, <2>3 DEF CancelRun, RejectActionsOf, ActionRows
    <3> QED
      BY <2>3, <3>1, <3>2, <3>3, <3>4 DEF CancelRun, TypeOK, RunRows, ActionRows
  <2>4. CASE StopChat
    BY <2>4, WorkAssumption DEF StopChat, Control, TypeOK
  <2> QED
    BY <1>4, <2>1, <2>2, <2>3, <2>4 DEF UserStep
<1>5. CASE RequestCancel
  BY <1>5, WorkAssumption DEF RequestCancel, TypeOK
<1>6. CASE Crash
  <2>1. task' \in [Runs -> TaskStates] /\ \A x \in Runs : task'[x].pc = "completing" => task'[x] = task[x]
    <3>1. \A x \in Runs : Ended(task[x]) \in TaskStates /\ Ended(task[x]).pc = "done"
      BY <1>t, EndedTyped DEF Ended, NoTask
    <3> QED
      BY <1>t, <1>6, <3>1 DEF Crash
  <2>2. crashes' \in 0..MaxCrashes
    BY <1>6, WorkAssumption DEF Crash, TypeOK
  <2>3. request' \in [Actions -> Requests]
    BY <1>6 DEF Crash, TypeOK, Requests
  <2> QED
    BY <1>6, <2>1, <2>2, <2>3 DEF Crash, TypeOK, TaskStates
<1>7. CASE Startup
  <2>1. CASE MarkInterrupted
    <3>1. run' \in [Runs -> RunRows] /\ \E S \in SUBSET Runs : Touch(S)
      BY <1>t, <2>1 DEF MarkInterrupted, RunRows, RunStatuses
    <3>2. newest' \in [Goals -> SUBSET Runs]
      BY <3>1, TouchTyped DEF TypeOK
    <3> QED
      BY <2>1, <3>1, <3>2 DEF MarkInterrupted, TypeOK, RunRows
  <2>2. CASE CreateCheckpoints
    <3>1. ck' \in [Runs -> Checkpoints]
      BY <1>t, <2>2 DEF CreateCheckpoints, Checkpoints
    <3> QED
      BY <2>2, <3>1 DEF CreateCheckpoints, TypeOK, Checkpoints
  <2>3. CASE RecoverAutomatic
    <3>1. run' \in [Runs -> RunRows] /\ \E S \in SUBSET Runs : Touch(S)
      BY <1>t, <2>3 DEF RecoverAutomatic, RunRows, RunStatuses, Live
    <3>2. newest' \in [Goals -> SUBSET Runs]
      BY <3>1, TouchTyped DEF TypeOK
    <3>3. ck' \in [Runs -> Checkpoints]
      BY <1>t, <2>3 DEF RecoverAutomatic, Checkpoints
    <3> QED
      BY <2>3, <3>1, <3>2, <3>3 DEF RecoverAutomatic, TypeOK, RunRows, Checkpoints
  <2>4. CASE MarkUncertain
    <3>1. act' \in [Actions -> ActionRows]
      BY <1>t, <2>4 DEF MarkUncertain, ActionRows
    <3> QED
      BY <2>4, <3>1 DEF MarkUncertain, TypeOK, ActionRows
  <2> QED
    BY <1>7, <2>1, <2>2, <2>3, <2>4 DEF Startup
<1>8. CASE UNCHANGED vars
  BY <1>8 DEF vars, TypeOK
<1>9. CASE EventStep
  <2>1. TypeOK' /\ task' = task
    BY <1>9, EventMoves DEF EventMove
  <2> QED
    BY <2>1
<1> QED
  BY <1>1, <1>2, <1>3, <1>4, <1>5, <1>6, <1>7, <1>8, <1>9 DEF Next, EventStep

\* What a step does to an action: it is proposed, rejected with the work that it
\* belongs to, decided by a request, or found as a crash has left it.
Proposed(a) ==
  /\ act[a].status = "none" /\ request'[a] = request[a]
  /\ \E r \in Runs : Propose(r, a) /\ act'[a] = [status |-> "pending", run |-> r]
Rejected(a) ==
  /\ act[a].status = "pending" /\ request'[a] = request[a]
  /\ act'[a].status = "settled" /\ act'[a].run = act[a].run
  /\ act[a].run \in Runs => \/ run'[act[a].run].cancel
                            \/ run[act[a].run].status \notin Live /\ run'[act[a].run] = run[act[a].run]
Decided(a) ==
  /\ act'[a].run = act[a].run
  /\ \/ /\ request[a] = "none" /\ act[a].status = "pending"
        /\ request'[a] = "claimed" /\ act'[a].status = "executing"
     \/ /\ request[a] = "claimed" /\ act'[a].status = act[a].status
        /\ request'[a] = "started"
     \/ /\ request[a] \in {"claimed", "started"} /\ act'[a].status = "settled"
        /\ request'[a] \in {"executed", "finishing"}
     \/ /\ request[a] \in {"executed", "finishing", "closing", "reopening"} /\ act'[a].status = act[a].status
        /\ request'[a] \in {"finishing", "closing", "reopening", "over", "early", "crossed"}
     \/ /\ request[a] \in AtWork /\ act'[a].status = act[a].status
        /\ request'[a] = "abandoned"
Lost(a) ==
  /\ Crash /\ act' = act
  /\ request'[a] = IF request[a] \in AtWork THEN "lost" ELSE request[a]
Doubted(a) ==
  /\ ~Up /\ request'[a] = request[a] /\ act'[a].run = act[a].run
  /\ act'[a].status = IF act[a].status = "executing" THEN "uncertain" ELSE act[a].status

ActionsMove ==
  \A a \in Actions :
    \/ act'[a] = act[a] /\ request'[a] = request[a]
    \/ Proposed(a) \/ Rejected(a) \/ (DecisionStep(a) /\ Decided(a)) \/ Lost(a) \/ Doubted(a)

LEMMA ActionsMoveStep == TypeOK /\ [Next]_vars => ActionsMove
<1> SUFFICES ASSUME TypeOK, [Next]_vars PROVE ActionsMove
  OBVIOUS
<1> USE DEF ActionsMove, dbVars, sideVars, leaseVars, serverVars
<1>t. /\ act \in [Actions -> ActionRows] /\ request \in [Actions -> Requests] /\ run \in [Runs -> RunRows]
  BY DEF TypeOK, ActionRows, RunRows
<1>k. ASSUME act' = act, request' = request PROVE ActionsMove
  BY <1>k
<1>1. ASSUME NEW r \in Runs, TaskStep(r), ~\E a \in Actions : Propose(r, a) PROVE ActionsMove
  <2>1. act' = act /\ request' = request
    BY <1>1 DEF TaskStep, StartTurn, Knock, GiveUpKnocking, Acquire, ClaimCheckpoint, RunStarted,
           ObserveCancel, Final, WaitForApproval, Fail, PlanGoal, LinkGoal, LoseLink, ExecuteOthers,
           SaveCheckpoint, QueueContinuation, Release, Settle, CompleteOrigin, Report, FailResume
  <2> QED
    BY <1>k, <2>1
<1>2. ASSUME NEW r \in Runs, NEW a \in Actions, Propose(r, a) PROVE ActionsMove
  <2>1. \A b \in Actions \ {a} : act'[b] = act[b]
    BY <1>t, <1>2 DEF Propose
  <2>2. Proposed(a) /\ request' = request
    BY <1>t, <1>2 DEF Propose, Proposed
  <2> QED
    BY <2>1, <2>2
<1>3. CASE \/ ListCheckpoints \/ (\E c, r \in Runs : Dispatch(c, r)) \/ RequestCancel \/ StopChat
           \/ (\E g \in Goals : Pause(g) \/ \E r \in Runs : Resume(g, r)) \/ (\E r \in Runs : Watchdog(r))
           \/ MarkInterrupted \/ CreateCheckpoints \/ RecoverAutomatic \/ UNCHANGED vars
  <2>1. act' = act /\ request' = request
    BY <1>3 DEF ListCheckpoints, Dispatch, RequestCancel, StopChat, Pause, Resume, Watchdog,
                MarkInterrupted, CreateCheckpoints, RecoverAutomatic, vars
  <2> QED
    BY <1>k, <2>1
<1>4. ASSUME NEW g \in Goals, CancelGoal(g) PROVE ActionsMove
  <2>1. ASSUME NEW r \in Runs, r \in RunsOf(g) PROVE run'[r].cancel \/ (run[r].status \notin Live /\ run'[r] = run[r])
    BY <1>t, <1>4, <2>1 DEF CancelGoal, SetGoal, StopRunsOf, RunRows
  <2>2. ASSUME NEW a \in Actions PROVE (act'[a] = act[a] /\ request'[a] = request[a]) \/ Rejected(a)
    <3>1. request' = request
      BY <1>4 DEF CancelGoal
    <3>2. \/ act'[a] = act[a]
          \/ /\ act[a].status = "pending" /\ act[a].run \in RunsOf(g)
             /\ act'[a] = [act[a] EXCEPT !.status = "settled"]
      BY <1>t, <1>4 DEF CancelGoal, RejectActionsOf
    <3>3. act[a] \in ActionRows
      BY <1>t
    <3> QED
      BY <2>1, <3>1, <3>2, <3>3 DEF Rejected, ActionRows
  <2> QED
    BY <2>2
<1>5. ASSUME NEW r \in Runs, CancelRun(r) PROVE ActionsMove
  <2>1. run'[r].cancel
    BY <1>t, <1>5 DEF CancelRun, RunRows
  <2>2. ASSUME NEW a \in Actions PROVE (act'[a] = act[a] /\ request'[a] = request[a]) \/ Rejected(a)
    <3>1. request' = request
      BY <1>5 DEF CancelRun
    <3>2. \/ act'[a] = act[a]
          \/ /\ act[a].status = "pending" /\ act[a].run = r
             /\ act'[a] = [act[a] EXCEPT !.status = "settled"]
      BY <1>t, <1>5 DEF CancelRun, RejectActionsOf
    <3>3. act[a] \in ActionRows
      BY <1>t
    <3> QED
      BY <2>1, <3>1, <3>2, <3>3 DEF Rejected, ActionRows
  <2> QED
    BY <2>2
<1>6. ASSUME NEW a \in Actions, DecisionStep(a) PROVE ActionsMove
  <2>1. \A b \in Actions \ {a} : act'[b] = act[b] /\ request'[b] = request[b]
    BY <1>t, <1>6 DEF DecisionStep, ClaimAction, ToolStarted, ResolveAction, ToolFinished, ResolveQuietly,
           ReadBatch, ActionResolved, AbandonAction, Decider, SettleAction
  <2>2. Decided(a)
    <3>1. CASE ClaimAction(a)
      BY <1>t, <3>1 DEF ClaimAction, Decider, Decided, ActionRows
    <3>2. CASE ToolStarted(a)
      BY <1>t, <3>2 DEF ToolStarted, Decider, Decided
    <3>3. CASE ResolveAction(a) \/ ResolveQuietly(a)
      BY <1>t, <3>3 DEF ResolveAction, ResolveQuietly, SettleAction, Decider, Decided, ActionRows
    <3>4. CASE ToolFinished(a) \/ ReadBatch(a) \/ ActionResolved(a)
      BY <1>t, <3>4 DEF ToolFinished, ReadBatch, ActionResolved, Decider, Decided
    <3>5. CASE AbandonAction(a)
      BY <1>t, <3>5 DEF AbandonAction, Decider, Decided
    <3> QED
      BY <1>6, <3>1, <3>2, <3>3, <3>4, <3>5 DEF DecisionStep
  <2> QED
    BY <1>6, <2>1, <2>2
<1>7. CASE Crash
  BY <1>t, <1>7 DEF Crash, Lost
<1>8. CASE MarkUncertain
  BY <1>t, <1>8 DEF MarkUncertain, Doubted, Up, ActionRows
<1> QED
  BY <1>1, <1>2, <1>3, <1>4, <1>5, <1>6, <1>7, <1>8 DEF Next, UserStep, Startup

\* An action keeps the run that proposed it.
LEMMA ActionOwner ==
  ASSUME TypeOK, ActionsOwned, ActionsMove, NEW a \in Actions, act[a].status # "none"
  PROVE  act'[a].run = act[a].run /\ act'[a].status # "none"
<1>1. act[a] \in ActionRows /\ (act[a].status = "none" => request[a] = "none")
  BY DEF TypeOK, ActionRows, ActionsOwned
<1> QED
  BY <1>1 DEF ActionsMove, Proposed, Rejected, Decided, Lost, Doubted

LEMMA OwnedStep == Typed /\ [Next]_vars => ActionsOwned'
<1> SUFFICES ASSUME Typed, [Next]_vars, NEW a \in Actions
             PROVE  /\ act'[a].status # "none" => act'[a].run \in Runs
                    /\ request'[a] # "none" => act'[a].status # "none"
  BY DEF ActionsOwned
<1>1. TypeOK /\ ActionsOwned /\ ActionsMove
  BY ActionsMoveStep DEF Typed
<1>2. CASE act[a].status # "none"
  BY <1>1, <1>2, ActionOwner DEF ActionsOwned
<1>3. CASE act[a].status = "none"
  <2>1. request[a] = "none"
    BY <1>1, <1>3 DEF ActionsOwned
  <2>2. (act'[a].status = "none" /\ request'[a] = "none") \/ Proposed(a)
    BY <1>1, <1>3, <2>1 DEF ActionsMove, Rejected, Decided, AtWork, Lost, Doubted
  <2>3. ASSUME NEW r \in Runs, act'[a] = [status |-> "pending", run |-> r]
        PROVE  act'[a].status # "none" /\ act'[a].run \in Runs
    BY <2>3
  <2> QED
    BY <2>1, <2>2, <2>3 DEF Proposed
<1> QED
  BY <1>2, <1>3

\* A goal is planned in the loop, and what a run does next links it or gives it up.
LEMMA PlanningStep == Typed /\ [Next]_vars => Planning'
<1> DEFINE Good(x) == /\ task'[x].pc = "linking" => /\ task'[x].plan \in Goals
                                                    /\ task'[x].kind = "turn" \/ task'[x].goal = task'[x].plan
                      /\ task'[x].plan # NoGoal => task'[x].pc = "linking"
<1> SUFFICES ASSUME Typed, [Next]_vars, NEW x \in Runs PROVE Good(x)
  BY DEF Planning
<1> USE DEF dbVars, sideVars, leaseVars, serverVars
<1>t. /\ task \in [Runs -> TaskStates] /\ TypeOK /\ Planning /\ ActionsOwned
  BY DEF Typed, TypeOK, TaskStates
<1>p. /\ task[x].pc = "linking" => task[x].plan \in Goals /\ (task[x].kind = "turn" \/ task[x].goal = task[x].plan)
      /\ task[x].pc # "linking" => task[x].plan = NoGoal
  BY <1>t DEF Planning
<1>s. task'[x] = task[x] => Good(x)
  BY <1>p
\* A task that does not link keeps its empty plan.
<1>n. ASSUME task[x].pc # "linking", task'[x].pc # "linking", task'[x].plan \in {task[x].plan, NoGoal} PROVE Good(x)
  BY <1>n, <1>p
<1>1. CASE \E r \in Runs : TaskStep(r)
  <2> PICK r \in Runs : TaskStep(r)
    BY <1>1
  <2>1. CASE StartTurn(r) \/ Knock(r)
    <3>1. ClaimForeground(r, task[r]) /\ task[r].pc \in {"idle", "knocking"}
      BY <2>1 DEF StartTurn, Knock, NoTask
    <3>2. x = r => task'[x].pc \in {"waiting", "claiming"} /\ task'[x].plan = task[x].plan
      BY <1>t, <3>1 DEF ClaimForeground, TaskStates
    <3>3. x # r => task'[x] = task[x]
      BY <1>t, <3>1 DEF ClaimForeground
    <3> QED
      BY <1>s, <1>n, <3>1, <3>2, <3>3
  <2>2. CASE GiveUpKnocking(r) \/ FailResume(r) \/ Settle(r) \/ Report(r)
    <3>1. task[r].pc \in {"knocking", "failing", "settling", "reporting"}
      BY <2>2 DEF GiveUpKnocking, FailResume, Settle, Report, Step
    <3>2. x # r => task'[x] = task[x]
      BY <1>t, <2>2 DEF GiveUpKnocking, FailResume, Settle, Report, Step
    <3>3. task'[r].pc # "linking" /\ task'[r].plan \in {task[r].plan, NoGoal}
      <4>1. CASE task'[r] = Ended(task[r])
        BY <4>1, EndedIs
      <4> QED
        BY <1>t, <2>2, <4>1 DEF GiveUpKnocking, FailResume, Settle, Report, Step, TaskStates
    <3> QED
      BY <1>s, <1>n, <3>1, <3>2, <3>3
  <2>3. CASE Acquire(r) \/ ClaimCheckpoint(r) \/ Release(r) \/ CompleteOrigin(r) \/ QueueContinuation(r)
    <3>1. task[r].pc \in {"waiting", "claiming", "returned", "completing", "deferring"}
      BY <2>3 DEF Acquire, ClaimCheckpoint, Release, CompleteOrigin, QueueContinuation, Step
    <3>2. x # r => task'[x] = task[x]
      BY <1>t, <2>3 DEF Acquire, ClaimCheckpoint, Release, CompleteOrigin, QueueContinuation, Step, Return
    <3>3. task'[r].pc # "linking" /\ task'[r].plan \in {task[r].plan, NoGoal}
      BY <1>t, <2>3 DEF Acquire, ClaimCheckpoint, Release, CompleteOrigin, QueueContinuation, Step, Return, TaskStates
    <3> QED
      BY <1>s, <1>n, <3>1, <3>2, <3>3
  <2>4. CASE RunStarted(r)
    <3>1. PICK b \in BOOLEAN : task' = [task EXCEPT ![r].pc = "loop", ![r].open = b]
      BY <2>4 DEF RunStarted
    <3>2. task[r].pc = "starting"
      BY <2>4 DEF RunStarted
    <3> QED
      BY <1>s, <1>n, <1>t, <3>1, <3>2 DEF TaskStates
  <2>5. CASE ObserveCancel(r) \/ WaitForApproval(r) \/ Final(r) \/ Fail(r)
    <3>1. /\ x # r => task'[x] = task[x]
          /\ task'[r].pc = "returned" /\ task'[r].plan = NoGoal
      BY <1>t, <2>5 DEF ObserveCancel, WaitForApproval, Final, Fail, Return, TaskStates
    <3> QED
      BY <1>s, <3>1
  <2>6. CASE SaveCheckpoint(r)
    <3>1. task[r].pc = "loop" /\ \E g \in Goals : task' = [task EXCEPT ![r].pc = "deferring", ![r].goal = g]
      BY <2>6 DEF SaveCheckpoint
    <3> QED
      BY <1>s, <1>n, <1>t, <3>1 DEF TaskStates
  <2>7. ASSUME NEW g \in Goals, NEW s \in PlanStatuses, PlanGoal(r, g, s) PROVE Good(x)
    BY <1>s, <1>t, <2>7, WorkAssumption DEF PlanGoal, TaskStates
  <2>8. CASE LinkGoal(r)
    <3>1. PICK b \in BOOLEAN : task' = [task EXCEPT ![r].pc = "loop", ![r].goal = task[r].plan,
                                                    ![r].plan = NoGoal, ![r].open = b]
      BY <2>8 DEF LinkGoal
    <3> QED
      BY <1>s, <1>t, <3>1 DEF TaskStates
  <2>9. CASE LoseLink(r)
    BY <1>s, <1>t, <2>9 DEF LoseLink, TaskStates
  <2>10. CASE ExecuteOthers(r) \/ \E a \in Actions : Propose(r, a)
    <3>1. /\ task[r].pc # "linking"
          /\ task' = [task EXCEPT ![r].pc = "asking"] \/ task' = [task EXCEPT ![r].pc = "executing"]
      BY <2>10 DEF ExecuteOthers, Propose
    <3> QED
      BY <1>s, <1>n, <1>t, <3>1 DEF TaskStates
  <2> QED
    BY <2>1, <2>2, <2>3, <2>4, <2>5, <2>6, <2>7, <2>8, <2>9, <2>10 DEF TaskStep
<1>2. CASE \/ ListCheckpoints \/ RequestCancel \/ StopChat \/ (\E g \in Goals : Pause(g) \/ CancelGoal(g))
           \/ (\E r \in Runs : CancelRun(r)) \/ Startup \/ UNCHANGED vars
  BY <1>s, <1>2 DEF ListCheckpoints, RequestCancel, StopChat, Pause, CancelGoal, CancelRun, Startup,
                    MarkInterrupted, CreateCheckpoints, RecoverAutomatic, MarkUncertain, vars
<1>3. CASE EventStep
  BY <1>s, <1>t, <1>3, EventMoves DEF EventMove
<1>4. ASSUME NEW c \in Runs, NEW r \in Runs, Dispatch(c, r) PROVE Good(x)
  BY <1>s, <1>t, <1>4 DEF Dispatch
<1>5. ASSUME NEW g \in Goals, NEW r \in Runs, Resume(g, r) PROVE Good(x)
  <2>1. ResumeMove(g, r)
    BY <1>t, <1>5, ResumeMoves
  <2> QED
    BY <1>s, <2>1 DEF ResumeMove
<1>6. CASE Crash
  BY <1>s, <1>t, <1>6, EndedIs DEF Crash
<1> QED
  BY <1>1, <1>2, <1>3, <1>4, <1>5, <1>6 DEF Next, UserStep, EventStep

LEMMA TypedStep == Typed /\ [Next]_vars => Typed'
BY TypeStep, PlanningStep, OwnedStep DEF Typed

Running == Up /\ Up'

\* A step is one of a running server, a crash, or one of the recovery.
LEMMA Phases == [Next]_vars => Running \/ UNCHANGED vars \/ Crash \/ Startup
<1> SUFFICES ASSUME [Next]_vars PROVE Running \/ UNCHANGED vars \/ Crash \/ Startup
  OBVIOUS
<1> USE DEF Running, Up, dbVars, sideVars, leaseVars, serverVars
<1>1. ASSUME NEW r \in Runs, TaskStep(r) PROVE Running
  BY <1>1 DEF TaskStep, StartTurn, Knock, GiveUpKnocking, Acquire, ClaimCheckpoint, RunStarted, ObserveCancel,
         Final, WaitForApproval, Fail, PlanGoal, LinkGoal, LoseLink, Propose, ExecuteOthers, SaveCheckpoint, QueueContinuation, Release, Settle, Step,
         CompleteOrigin, Report, FailResume
<1>2. ListCheckpoints \/ RequestCancel \/ (\E c, r \in Runs : Dispatch(c, r)) => Running
  BY DEF ListCheckpoints, RequestCancel, Dispatch
<1>3. UserStep => Running
  BY DEF UserStep, Pause, CancelGoal, SetGoal, Resume, CancelRun, StopChat, Control
<1>4. EventStep => Running
  BY DEF EventStep, DecisionStep, ClaimAction, ToolStarted, ResolveAction, ToolFinished, ResolveQuietly,
         ReadBatch, ActionResolved, AbandonAction, Decider, Watchdog
<1> QED
  BY <1>1, <1>2, <1>3, <1>4 DEF Next, EventStep

-------------------------------------------------------------------------------
(* What is saved, and when *)

\* The recovery saves a checkpoint for runs that were interrupted, and for one
\* of every goal whose last work was and that has none.
LEMMA MadeForInterrupted ==
  ASSUME CreateCheckpoints, newest \in [Goals -> SUBSET Runs]
  PROVE  /\ \A r \in Runs : ck'[r] = ck[r] \/ (/\ ck'[r] = [status |-> "available", by |-> NoRun]
                                              /\ run[r].status = "interrupted"
                                              /\ run[r].goal \in Goals)
         /\ \A g \in Goals : goal[g] \in {"active", "paused"} /\ Stale(g) /\ ~Covered(g) =>
              \E r \in RunsOf(g) : ck'[r].status = "available"
<1>1. PICK S \in SUBSET Runs :
        /\ \A g \in Goals : \E N \in Latest(g) :
             LET cand == {r \in N : run[r].status = "interrupted" /\ Uncovered(g)}
             IN IF cand = {} THEN S \intersect RunsOf(g) = {}
                ELSE S \intersect RunsOf(g) \in {{r} : r \in cand}
        /\ S \subseteq UNION {RunsOf(g) : g \in Goals}
        /\ ck' = [r \in Runs |-> IF r \in S THEN [status |-> "available", by |-> NoRun] ELSE ck[r]]
  BY DEF CreateCheckpoints
<1>2. ASSUME NEW r \in S PROVE run[r].status = "interrupted" /\ run[r].goal \in Goals
  <2>1. PICK g \in Goals : r \in S \intersect RunsOf(g)
    BY <1>1
  <2>2. PICK N \in Latest(g) :
          LET cand == {x \in N : run[x].status = "interrupted" /\ Uncovered(g)}
          IN IF cand = {} THEN S \intersect RunsOf(g) = {}
             ELSE S \intersect RunsOf(g) \in {{x} : x \in cand}
    BY <1>1
  <2> DEFINE cand == {x \in N : run[x].status = "interrupted" /\ Uncovered(g)}
  <2>3. PICK x \in cand : S \intersect RunsOf(g) = {x}
    BY <2>1, <2>2
  <2> QED
    BY <2>1, <2>3 DEF RunsOf
<1>3. ASSUME NEW g \in Goals, goal[g] \in {"active", "paused"}, Stale(g), ~Covered(g)
      PROVE  \E r \in RunsOf(g) : ck'[r].status = "available"
  <2>1. PICK N \in Latest(g) :
          LET cand == {x \in N : run[x].status = "interrupted" /\ Uncovered(g)}
          IN IF cand = {} THEN S \intersect RunsOf(g) = {}
             ELSE S \intersect RunsOf(g) \in {{x} : x \in cand}
    BY <1>1
  <2> DEFINE cand == {x \in N : run[x].status = "interrupted" /\ Uncovered(g)}
  <2>2. Uncovered(g)
    BY <1>3 DEF Covered, Uncovered
  <2>3. PICK x \in newest[g] : run[x].goal = g /\ run[x].status = "interrupted" /\ x \in Runs
    BY <1>3 DEF Stale
  <2>4. x \in N
    BY <2>3 DEF Latest, RunsOf
  <2>5. S \intersect RunsOf(g) # {}
    BY <2>1, <2>2, <2>3, <2>4
  <2> QED
    BY <1>1, <2>5
<1> QED
  BY <1>1, <1>2, <1>3

\* No step breaks the order in which a run saves its work.
\* A row that is written stays, and a run that has left the loop does not return to it.
Planned == Early \union {"loop", "linking"}
Forward ==
  \A x \in Runs : /\ run[x].status # "none" => run'[x].status # "none"
                  /\ task[x].pc \notin Planned => task'[x].pc \notin Planned

\* The row that an event is written to exists.
LEMMA EventRows ==
  ASSUME Typed, ActionsOrdered, EventStep, NEW x \in Runs
  PROVE  \/ run'[x] = run[x]
         \/ /\ run[x].status # "none"
            /\ run'[x].status \in {"running", "completed", "waiting_for_approval", "failed"}
            /\ run'[x].goal = run[x].goal /\ run'[x].cancel = run[x].cancel
<1>t. run \in [Runs -> RunRows] /\ ActionsOwned
  BY DEF Typed, TypeOK, RunRows
<1>1. ASSUME NEW r \in Runs, NEW s \in {"running", "completed", "waiting_for_approval", "failed"},
             UpdateRun(r, s), run[r].status # "none"
      PROVE  \/ run'[x] = run[x]
             \/ /\ run[x].status # "none"
                /\ run'[x].status \in {"running", "completed", "waiting_for_approval", "failed"}
                /\ run'[x].goal = run[x].goal /\ run'[x].cancel = run[x].cancel
  BY <1>t, <1>1 DEF UpdateRun, RunRows
<1>2. ASSUME NEW a \in Actions, DecisionStep(a)
      PROVE  \/ run' = run
             \/ /\ act[a].run \in Runs /\ run[act[a].run].status # "none"
                /\ \E s \in {"running", "completed", "waiting_for_approval"} : UpdateRun(act[a].run, s)
  BY <1>t, <1>2 DEF DecisionStep, ClaimAction, ToolStarted, ResolveAction, ToolFinished, ResolveQuietly,
         ReadBatch, ActionResolved, AbandonAction, Decider, ActionsOwned, ActionsOrdered
<1>3. ASSUME NEW r \in Runs, Watchdog(r) PROVE run[r].status # "none" /\ UpdateRun(r, "failed")
  BY <1>3 DEF Watchdog
<1> QED
  BY <1>1, <1>2, <1>3 DEF EventStep

LEMMA SavedStep == Typed /\ Rows /\ [Next]_vars => Saved' /\ Forward
<1> DEFINE Goal == Saved' /\ Forward
<1> SUFFICES ASSUME Typed, Saved, ActionsOrdered, [Next]_vars PROVE Goal
  BY DEF Rows
<1> USE DEF Saved, Unsaved, OutOpen, DeferredSaved, FromSaved, DownQuiet, Forward, Planned, LoopPcs,
            Early, Alive, Up, dbVars, sideVars, leaseVars, serverVars
<1>t. /\ task \in [Runs -> TaskStates] /\ run \in [Runs -> RunRows] /\ ck \in [Runs -> Checkpoints]
      /\ listed \subseteq Runs /\ TypeOK /\ Planning /\ ActionsOwned /\ NoRun \notin Runs /\ newest \in [Goals -> SUBSET Runs]
  BY WorkAssumption DEF Typed, TypeOK, TaskStates, RunRows, Checkpoints
<1>1. CASE \E r \in Runs : TaskStep(r)
  <2> PICK r \in Runs : TaskStep(r)
    BY <1>1
  <2>1. CASE StartTurn(r) \/ Knock(r)
    <3>1. task[r].pc \in {"idle", "knocking"} /\ Up /\ UNCHANGED <<dbVars, serverVars>>
      BY <2>1 DEF StartTurn, Knock, NoTask
    <3>2. ClaimForeground(r, task[r])
      BY <2>1 DEF StartTurn, Knock
    <3>3. \A x \in Runs : x # r => task'[x] = task[x]
      BY <1>t, <3>2 DEF ClaimForeground
    <3>4. /\ task'[r].pc \in {"claiming", "waiting"}
          /\ task'[r].out = task[r].out /\ task'[r].from = task[r].from
      BY <1>t, <3>2 DEF ClaimForeground, TaskStates
    <3> QED
      BY <3>1, <3>3, <3>4
  <2>2. CASE GiveUpKnocking(r) \/ FailResume(r)
    <3>1. /\ task[r].pc \in {"knocking", "failing"} /\ Up
          /\ UNCHANGED <<run, ck, serverVars>> /\ task' = [task EXCEPT ![r] = Ended(task[r])]
      BY <2>2 DEF GiveUpKnocking, FailResume
    <3>2. \A x \in Runs : x # r => task'[x] = task[x]
      BY <1>t, <3>1
    <3>3. task'[r].pc = "done" /\ task'[r].out = task[r].out /\ task'[r].from = NoRun
      BY <1>t, <3>1, EndedIs
    <3> QED
      BY <3>1, <3>2, <3>3
  <2>3. CASE Acquire(r)
    BY <1>t, <2>3 DEF Acquire, Step, TaskStates, RunRows, Checkpoints
  <2>4. CASE ClaimCheckpoint(r)
    <3>1. /\ task[r].pc = "claiming" /\ Up /\ UNCHANGED <<run, serverVars>>
          /\ \A x \in Runs : x # r => task'[x] = task[x]
          /\ task'[r].from = task[r].from
          /\ \/ task'[r].pc = "starting" /\ task'[r].out = task[r].out
             \/ task'[r].pc = "returned" /\ task'[r].out = "refused"
      BY <1>t, <2>4 DEF ClaimCheckpoint, Step, Return, TaskStates
    <3>2. \A x \in Runs : ck'[x].status # "none" <=> ck[x].status # "none"
      BY <1>t, <2>4 DEF ClaimCheckpoint, Checkpoints
    <3>3. \A x \in Runs : task[x].from \in Runs \union {NoRun}
      BY <1>t DEF TaskStates
    <3> QED
      BY SMTT(30), <1>t, <3>1, <3>2, <3>3
  <2>5. CASE RunStarted(r)
    BY <1>t, <2>5 DEF RunStarted, TaskStates, RunRows, Checkpoints
  <2>6. CASE ObserveCancel(r)
    BY <1>t, <2>6 DEF ObserveCancel, UpdateRun, Return, TaskStates, RunRows, Checkpoints
  <2>7. CASE WaitForApproval(r)
    BY <1>t, <2>7 DEF WaitForApproval, UpdateRun, Return, TaskStates, RunRows, Checkpoints
  <2>8. CASE QueueContinuation(r)
    BY <1>t, <2>8 DEF QueueContinuation, UpdateRun, Return, TaskStates, RunRows, Checkpoints
  <2>9. CASE Final(r) \/ Fail(r)
    BY <1>t, <2>9 DEF Final, Fail, Return, TaskStates, RunRows, Checkpoints
  <2>10. CASE LoopStep(r)
    <3>1. LoopMove(r) /\ LoopKeeps
      BY <1>t, <2>10, LoopMoves
    <3> QED
      BY <1>t, <3>1 DEF LoopMove, LoopKeeps
  <2>11. CASE SaveCheckpoint(r)
    BY <1>t, <2>11 DEF SaveCheckpoint, TaskStates, RunRows, Checkpoints
  <2>12. CASE Release(r)
    <3>1. /\ task[r].pc = "returned" /\ Up /\ UNCHANGED <<ck, serverVars>>
          /\ \A x \in Runs : x # r => task'[x] = task[x]
          /\ task'[r].pc = "settling" /\ task'[r].out = task[r].out /\ task'[r].from = task[r].from
      BY <1>t, <2>12 DEF Release, Step, TaskStates
    <3>2. run' = run \/ (task[r].from # NoRun /\ run' = [run EXCEPT ![task[r].from].status = "cancelled"])
      BY <2>12 DEF Release, UpdateRun
    <3>3. \A x \in Runs : run'[x].status # run[x].status =>
            x = task[r].from /\ run'[x].status = "cancelled"
      BY <1>t, <3>2 DEF RunRows
    <3>4. \A x \in Runs : run'[x].status # run[x].status =>
            run'[x].status = "cancelled" /\ ck[x].status # "none"
      BY <1>t, <3>3
    <3>5. Unsaved'
      BY <3>1, <3>4
    <3>6. OutOpen' /\ DeferredSaved' /\ FromSaved'
      BY <3>1
    <3>7. DownQuiet' /\ Forward
      BY <1>t, <3>1, <3>4
    <3> QED
      BY <3>5, <3>6, <3>7
  <2>13. CASE Settle(r)
    <3>1. /\ task[r].pc = "settling" /\ Up /\ UNCHANGED <<run, serverVars>>
          /\ \A x \in Runs : x # r => task'[x] = task[x]
      BY <1>t, <2>13 DEF Settle, Step
    <3>2. /\ task'[r].pc \in {"completing", "reporting", "failing", "done"}
          /\ task'[r].out = task[r].out
          /\ task'[r].out = "refused" => task'[r].pc \in {"failing", "done"}
          /\ task'[r].from \in {task[r].from, NoRun}
      <4>1. CASE task'[r] = Ended(task[r])
        BY <4>1, EndedIs
      <4> QED
        BY <1>t, <2>13, <4>1 DEF Settle, Step, TaskStates, Succeeded
    <3>3. \A x \in Runs : ck'[x].status # "none" <=> ck[x].status # "none"
      BY <1>t, <2>13 DEF Settle, Checkpoints
    <3>4. \A x \in Runs : task[x].from \in Runs \union {NoRun}
      BY <1>t DEF TaskStates
    <3> QED
      BY <1>t, <3>1, <3>2, <3>3, <3>4
  <2>14. CASE CompleteOrigin(r)
    BY <1>t, <2>14 DEF CompleteOrigin, Step, UpdateRun, TaskStates, RunRows, Checkpoints
  <2>15. CASE Report(r)
    <3>1. /\ task[r].pc = "reporting" /\ Up /\ UNCHANGED <<ck, serverVars>>
          /\ \A x \in Runs : x # r => task'[x] = task[x]
      BY <1>t, <2>15 DEF Report
    <3>2. /\ task'[r].pc \in {"failing", "done"} /\ task'[r].out = task[r].out
          /\ task'[r].from \in {task[r].from, NoRun}
      <4>1. CASE task'[r] = Ended(task[r])
        BY <4>1, EndedIs
      <4> QED
        BY <1>t, <2>15, <4>1 DEF Report, TaskStates
    <3>3. \A x \in Runs : run'[x].status # run[x].status =>
            x = r /\ run'[x].status # "none" /\ task[r].out # "refused"
      <4>1. CASE UNCHANGED run
        BY <4>1
      <4>2. CASE \E s \in {"completed", "failed"} : UpdateRun(r, s)
        BY <1>t, <2>15, <4>2 DEF UpdateRun, RunRows, Report
      <4> QED
        BY <2>15, <4>1, <4>2 DEF Report
    <3> QED
      BY <1>t, <3>1, <3>2, <3>3
  <2> QED
    BY <2>1, <2>2, <2>3, <2>4, <2>5, <2>6, <2>7, <2>8, <2>9, <2>10, <2>11, <2>12, <2>13, <2>14, <2>15 DEF TaskStep, LoopStep
<1>2. CASE ListCheckpoints
  BY <1>t, <1>2 DEF ListCheckpoints, Dispatchable, TaskStates, RunRows, Checkpoints
<1>3. ASSUME NEW c \in Runs, NEW r \in Runs, Dispatch(c, r) PROVE Goal
  <2>1. /\ Up /\ UNCHANGED <<dbVars, stage>> /\ listed' \subseteq listed /\ c \in listed
        /\ \A x \in Runs : x # r => task'[x] = task[x]
    BY <1>t, <1>3 DEF Dispatch
  <2>2. \/ task'[r] = task[r]
        \/ /\ task[r].pc = "idle" /\ task'[r].pc = "claiming"
           /\ task'[r].out = "none" /\ task'[r].from = c
    BY <1>t, <1>3 DEF Dispatch, NoTask
  <2> QED
    BY <1>t, <2>1, <2>2
<1>4. CASE UserStep
  <2>1. ASSUME NEW g \in Goals, Pause(g) \/ CancelGoal(g) PROVE Goal
    BY <1>t, <2>1 DEF Pause, CancelGoal, SetGoal, StopRunsOf, RunsOf, TaskStates, RunRows, Checkpoints
  <2>2. ASSUME NEW g \in Goals, NEW r \in Runs, Resume(g, r) PROVE Goal
    <3>1. Up /\ UNCHANGED <<run, ck, listed, stage>> /\ ResumeMove(g, r)
      BY <1>t, <2>2, ResumeMoves DEF Resume, Control
    <3> QED
      BY <1>t, <3>1 DEF ResumeMove, NoTask
  <2>3. ASSUME NEW r \in Runs, CancelRun(r) PROVE Goal
    <3>1. UNCHANGED <<ck, task, listed, stage>>
      BY <2>3 DEF CancelRun
    <3>2. run[r].status # "none"
      BY <2>3 DEF CancelRun, Live
    <3>3. \A x \in Runs : run'[x].status # run[x].status => x = r /\ run'[x].status # "none"
      BY <1>t, <2>3 DEF CancelRun, RunRows
    <3> QED
      BY <1>t, <3>1, <3>2, <3>3
  <2>4. CASE StopChat
    BY <1>t, <2>4 DEF StopChat, TaskStates, RunRows, Checkpoints
  <2> QED
    BY <1>4, <2>1, <2>2, <2>3, <2>4 DEF UserStep
<1>5. CASE RequestCancel
  BY <1>t, <1>5 DEF RequestCancel, TaskStates, RunRows, Checkpoints
<1>6. CASE Crash
  BY <1>t, <1>6 DEF Crash, Ended, NoTask, TaskStates, RunRows, Checkpoints
<1>7. CASE Startup
  <2>1. CASE MarkInterrupted
    BY <1>t, <2>1 DEF MarkInterrupted, TaskStates, RunRows, Checkpoints
  <2>2. CASE CreateCheckpoints
    BY <1>t, <2>2, MadeForInterrupted DEF CreateCheckpoints, TaskStates, RunRows, Checkpoints
  <2>3. CASE RecoverAutomatic
    <3>1. UNCHANGED <<task, listed>> /\ ~Up
      BY <2>3 DEF RecoverAutomatic
    <3>2. \A x \in Runs : ck'[x].status # "none" <=> ck[x].status # "none"
      BY <1>t, <2>3 DEF RecoverAutomatic, Checkpoints
    <3>3. \A x \in Runs : run'[x].status # "none" <=> run[x].status # "none"
      BY ZenonT(60), <1>t, <2>3 DEF RecoverAutomatic, RunRows
    <3>4. \A x \in Runs : task[x].from \in Runs \union {NoRun}
      BY <1>t DEF TaskStates
    <3> QED
      BY <1>t, <3>1, <3>2, <3>3, <3>4
  <2>4. CASE MarkUncertain
    BY <1>t, <2>4 DEF MarkUncertain, TaskStates, RunRows, Checkpoints
  <2> QED
    BY <1>7, <2>1, <2>2, <2>3, <2>4 DEF Startup
<1>8. CASE UNCHANGED vars
  BY <1>8 DEF vars
<1>9. CASE EventStep
  <2>1. UNCHANGED <<ck, task, listed, stage>>
    BY <1>t, <1>9, EventMoves DEF EventMove
  <2>2. \A x \in Runs : run'[x].status # run[x].status => run[x].status # "none" /\ run'[x].status # "none"
    BY <1>9, EventRows
  <2> QED
    BY <1>t, <2>1, <2>2
<1> QED
  BY <1>1, <1>2, <1>3, <1>4, <1>5, <1>6, <1>7, <1>8, <1>9 DEF Next, EventStep

\* An action is settled by the request that decides it, or with the work of its run.
LEMMA OrderedStep == Typed /\ Rows /\ Forward /\ [Next]_vars => ActionsOrdered'
<1> SUFFICES ASSUME Typed, Rows, Forward, [Next]_vars, NEW a \in Actions
             PROVE  /\ Requested(a)'
                    /\ act'[a].status # "none" => run'[act'[a].run].status # "none"
                    /\ act'[a].status # "none" => task'[act'[a].run].pc \notin Planned
                    /\ ~Up' => request'[a] \notin AtWork
  BY DEF ActionsOrdered, Planned
<1>t. /\ TypeOK /\ ActionsOwned /\ ActionsMove /\ ActionsOrdered /\ run \in [Runs -> RunRows]
      /\ task \in [Runs -> TaskStates] /\ act[a] \in ActionRows /\ request[a] \in Requests
  BY ActionsMoveStep DEF Typed, Rows, TypeOK, RunRows, TaskStates, ActionRows
<1>o. /\ Requested(a)
      /\ act[a].status # "none" => /\ act[a].run \in Runs /\ run[act[a].run].status # "none"
                                   /\ task[act[a].run].pc \notin Planned
      /\ ~Up => request[a] \notin AtWork
  BY <1>t DEF ActionsOrdered, ActionsOwned, Planned
<1>1. Requested(a)'
  <2>1. CASE act'[a] = act[a] /\ request'[a] = request[a]
    BY <1>o, <2>1 DEF Requested
  <2>2. CASE Proposed(a) \/ Rejected(a)
    <3>1. CASE act'[a].status = "pending" /\ act[a].status = "none" /\ request'[a] = request[a]
      BY <1>o, <3>1 DEF Requested
    <3>2. CASE Rejected(a)
      BY <1>o, <3>2 DEF Requested, Rejected
    <3>3. \A r : [status |-> "pending", run |-> r].status = "pending"
      OBVIOUS
    <3> QED
      BY <2>2, <3>1, <3>2, <3>3 DEF Proposed
  <2>3. CASE Decided(a)
    <3>1. CASE request'[a] = "abandoned" /\ request[a] \in AtWork /\ act'[a].status = act[a].status
      BY <1>o, <3>1 DEF Requested, AtWork
    <3>2. CASE ~(request'[a] = "abandoned" /\ request[a] \in AtWork /\ act'[a].status = act[a].status)
      BY <1>o, <2>3, <3>2 DEF Requested, Decided
    <3> QED
      BY <3>1, <3>2
  <2>4. CASE Lost(a)
    BY <1>o, <2>4 DEF Requested, Lost, AtWork
  <2>5. CASE Doubted(a)
    BY <1>o, <2>5 DEF Requested, Doubted, AtWork
  <2> QED
    BY <1>t, <2>1, <2>2, <2>3, <2>4, <2>5 DEF ActionsMove
<1>2. ASSUME act'[a].status # "none"
      PROVE  run'[act'[a].run].status # "none" /\ task'[act'[a].run].pc \notin Planned
  <2>1. CASE act[a].status # "none"
    BY <1>o, <1>t, <2>1, ActionOwner DEF Forward
  <2>2. ASSUME NEW r \in Runs, Propose(r, a), act'[a] = [status |-> "pending", run |-> r]
        PROVE  run'[act'[a].run].status # "none" /\ task'[act'[a].run].pc \notin Planned
    <3>1. task'[r].pc = "asking" /\ run'[r].status = "waiting_for_approval"
      BY <1>t, <2>2 DEF Propose, UpdateRun, TaskStates, RunRows
    <3> QED
      BY <2>2, <3>1 DEF Planned, Early
  <2>3. CASE act[a].status = "none"
    <3>1. request[a] = "none"
      BY <1>t, <2>3 DEF ActionsOwned
    <3>2. Proposed(a)
      BY <1>2, <1>t, <2>3, <3>1 DEF ActionsMove, Rejected, Decided, AtWork, Lost, Doubted
    <3> QED
      BY <2>2, <3>2 DEF Proposed
  <2> QED
    BY <2>1, <2>3
<1>3. ASSUME ~Up' PROVE request'[a] \notin AtWork
  <2>1. CASE Crash
    BY <1>t, <2>1 DEF Crash, AtWork
  <2>2. CASE Startup
    BY <1>o, <2>2 DEF Startup, MarkInterrupted, CreateCheckpoints, RecoverAutomatic, MarkUncertain, Up, sideVars
  <2>3. CASE UNCHANGED vars
    BY <1>o, <1>3, <2>3 DEF vars, dbVars, sideVars, serverVars, Up
  <2> QED
    BY <1>3, <2>1, <2>2, <2>3, Phases DEF Running
<1> QED
  BY <1>1, <1>2, <1>3

LEMMA RowsStep == Typed /\ Rows /\ [Next]_vars => Rows'
BY SavedStep, OrderedStep DEF Rows

-------------------------------------------------------------------------------
(* What is used up was carried on *)

\* An outcome is final, what is saved stays, and only a success uses a
\* checkpoint up.
Lasting ==
  /\ \A x \in Runs : task[x].out # "none" => task'[x].out = task[x].out
  /\ \A x \in Runs : ck[x].status # "none" => ck'[x].status # "none"
  /\ \A c \in Runs : ck'[c].status = "consumed" =>
       ck'[c] = ck[c] \/ (ck'[c].by \in Runs /\ task[ck'[c].by].out \in Succeeded)

LEMMA LastingStep == Typed /\ Rows /\ [Next]_vars => Lasting
<1> SUFFICES ASSUME Typed, Rows, [Next]_vars PROVE Lasting
  OBVIOUS
<1> USE DEF Lasting, OutOpen, Early, LoopPcs, dbVars, sideVars, leaseVars, serverVars
<1>t. /\ task \in [Runs -> TaskStates] /\ run \in [Runs -> RunRows] /\ ck \in [Runs -> Checkpoints]
      /\ NoRun \notin Runs /\ OutOpen /\ Unsaved /\ TypeOK /\ Planning /\ ActionsOwned /\ newest \in [Goals -> SUBSET Runs]
  BY WorkAssumption DEF Typed, TypeOK, TaskStates, RunRows, Checkpoints, Rows, Saved
<1>1. CASE \E r \in Runs : TaskStep(r)
  <2> PICK r \in Runs : TaskStep(r)
    BY <1>1
  <2>1. CASE StartTurn(r) \/ Knock(r)
    <3>1. ck' = ck
      BY <2>1 DEF StartTurn, Knock
    <3>2. ClaimForeground(r, task[r])
      BY <2>1 DEF StartTurn, Knock
    <3>3. \A x \in Runs : task'[x].out = task[x].out
      BY <1>t, <3>2 DEF ClaimForeground, TaskStates
    <3> QED
      BY <3>1, <3>3
  <2>2. CASE GiveUpKnocking(r) \/ FailResume(r)
    <3>1. ck' = ck /\ task' = [task EXCEPT ![r] = Ended(task[r])]
      BY <2>2 DEF GiveUpKnocking, FailResume
    <3> QED
      BY <1>t, <3>1, EndedIs
  <2>3. CASE Acquire(r) \/ Release(r) \/ CompleteOrigin(r)
    BY <1>t, <2>3 DEF Acquire, Release, CompleteOrigin, Step, TaskStates
  <2>4. CASE ClaimCheckpoint(r)
    <3>1. \A x \in Runs : task[x].out # "none" => task'[x].out = task[x].out
      BY <1>t, <2>4 DEF ClaimCheckpoint, Step, Return, TaskStates
    <3>2. \A x \in Runs : ck'[x] = ck[x] \/ ck'[x].status = "claimed"
      BY <1>t, <2>4 DEF ClaimCheckpoint, Checkpoints
    <3> QED
      BY <3>1, <3>2
  <2>5. CASE RunStarted(r)
    BY <1>t, <2>5 DEF RunStarted, TaskStates
  <2>6. CASE ObserveCancel(r) \/ WaitForApproval(r) \/ QueueContinuation(r) \/ Final(r) \/ Fail(r)
    BY <1>t, <2>6 DEF ObserveCancel, WaitForApproval, QueueContinuation, Final, Fail, Return, TaskStates
  <2>7. CASE LoopStep(r)
    BY <1>t, <2>7, LoopMoves DEF LoopMove, LoopKeeps
  <2>8. CASE SaveCheckpoint(r)
    BY <1>t, <2>8 DEF SaveCheckpoint, TaskStates, Checkpoints
  <2>9. CASE Settle(r)
    <3>1. \A x \in Runs : task'[x].out = task[x].out
      BY <1>t, <2>9, EndedIs DEF Settle, Step, TaskStates
    <3>2. \A x \in Runs : \/ ck'[x] = ck[x]
                          \/ ck'[x].status = "available"
                          \/ ck'[x].status = "consumed" /\ ck'[x].by = r /\ task[r].out \in Succeeded
      BY <1>t, <2>9 DEF Settle, Checkpoints
    <3> QED
      BY <3>1, <3>2
  <2>10. CASE Report(r)
    <3>1. \A x \in Runs : task'[x].out = task[x].out
      BY <1>t, <2>10, EndedIs DEF Report, TaskStates
    <3> QED
      BY <2>10, <3>1 DEF Report
  <2> QED
    BY <2>1, <2>2, <2>3, <2>4, <2>5, <2>6, <2>7, <2>8, <2>9, <2>10 DEF TaskStep, LoopStep
<1>2. CASE ListCheckpoints \/ RequestCancel \/ MarkInterrupted \/ MarkUncertain \/ UNCHANGED vars
  BY <1>2 DEF ListCheckpoints, RequestCancel, MarkInterrupted, MarkUncertain, vars
<1>3. ASSUME NEW c \in Runs, NEW r \in Runs, Dispatch(c, r) PROVE Lasting
  BY <1>t, <1>3 DEF Dispatch, NoTask
<1>4. CASE UserStep
  <2>1. ASSUME NEW g \in Goals, NEW r \in Runs, Resume(g, r) PROVE Lasting
    <3>1. ck' = ck /\ ResumeMove(g, r)
      BY <1>t, <2>1, ResumeMoves DEF Resume
    <3> QED
      BY <3>1 DEF ResumeMove, NoTask
  <2>2. CASE ~\E g \in Goals, r \in Runs : Resume(g, r)
    <3>1. UNCHANGED <<ck, task>>
      BY <1>4, <2>2 DEF UserStep, Pause, CancelGoal, CancelRun, StopChat
    <3> QED
      BY <3>1
  <2> QED
    BY <2>1, <2>2
<1>5. CASE Crash
  BY <1>t, <1>5, EndedIs DEF Crash
<1>6. CASE CreateCheckpoints
  BY <1>t, <1>6, MadeForInterrupted DEF CreateCheckpoints
<1>7. CASE RecoverAutomatic
  BY <1>t, <1>7 DEF RecoverAutomatic, Checkpoints
<1>8. CASE EventStep
  BY <1>t, <1>8, EventMoves DEF EventMove
<1> QED
  BY <1>1, <1>2, <1>3, <1>4, <1>5, <1>6, <1>7, <1>8 DEF Next, Startup, EventStep

LEMMA ConsumedStep ==
  ConsumedBy /\ ConsumedIsCarriedOn /\ Rows /\ Lasting => ConsumedBy' /\ ConsumedIsCarriedOn'
<1> SUFFICES ASSUME ConsumedBy, ConsumedIsCarriedOn, Rows, Lasting,
                    NEW c \in Runs, ck'[c].status = "consumed"
             PROVE  /\ ck'[c].by \in Runs
                    /\ task'[ck'[c].by].out \in Succeeded
                    /\ task'[ck'[c].by].out = "deferred" => ck'[ck'[c].by].status # "none"
  BY DEF ConsumedBy, ConsumedIsCarriedOn
<1>1. /\ ck'[c].by \in Runs /\ task[ck'[c].by].out \in Succeeded
      /\ task[ck'[c].by].out = "deferred" => ck[ck'[c].by].status # "none"
  BY DEF ConsumedBy, ConsumedIsCarriedOn, Lasting, Rows, Saved, DeferredSaved
<1>2. task'[ck'[c].by].out = task[ck'[c].by].out
  BY <1>1 DEF Lasting, Succeeded
<1> QED
  BY <1>1, <1>2 DEF Lasting

-------------------------------------------------------------------------------
(* One claimant *)

\* r is between its claim of a checkpoint and its settlement.
Holding(r) ==
  /\ task[r].from # NoRun
  /\ task[r].pc \in {"starting", "deferring", "returned", "settling"} \union LoopPcs
  /\ task[r].out # "refused"

\* A claim is exclusive: it asks for 'available', and what the other steps write
\* to a checkpoint that is held they write to their own.
LEMMA ClaimStep == Typed /\ Rows /\ ClaimExclusive /\ [Next]_vars => ClaimExclusive'
<1> SUFFICES ASSUME Typed, Rows, ClaimExclusive, [Next]_vars, NEW x \in Runs, Holding(x)'
             PROVE  ck'[task'[x].from] = [status |-> "claimed", by |-> x]
  BY DEF ClaimExclusive, Holding
<1> DEFINE Goal == ck'[task'[x].from] = [status |-> "claimed", by |-> x]
<1> USE DEF Early, LoopPcs, dbVars, sideVars, leaseVars, serverVars
<1>t. /\ task \in [Runs -> TaskStates] /\ run \in [Runs -> RunRows] /\ ck \in [Runs -> Checkpoints]
      /\ NoRun \notin Runs /\ OutOpen /\ Unsaved /\ FromSaved /\ DownQuiet /\ TypeOK /\ Planning /\ ActionsOwned
  BY WorkAssumption DEF Typed, TypeOK, TaskStates, RunRows, Checkpoints, Rows, Saved
<1>h. Holding(x) => ck[task[x].from] = [status |-> "claimed", by |-> x]
  BY DEF ClaimExclusive, Holding
<1>f. task[x].from \in Runs \union {NoRun}
  BY <1>t DEF TaskStates
\* A step that leaves the checkpoints alone and lets no task begin to hold one.
<1>k. ASSUME ck' = ck, Holding(x), task'[x].from = task[x].from PROVE Goal
  BY <1>h, <1>k
<1>1. CASE \E r \in Runs : TaskStep(r)
  <2> PICK r \in Runs : TaskStep(r)
    BY <1>1
  <2>1. CASE StartTurn(r) \/ Knock(r)
    <3>1. ck' = ck /\ ClaimForeground(r, task[r])
      BY <2>1 DEF StartTurn, Knock
    <3>2. x # r /\ task'[x] = task[x]
      BY <1>t, <3>1 DEF ClaimForeground, TaskStates, Holding
    <3> QED
      BY <1>k, <3>1, <3>2 DEF Holding
  <2>2. CASE GiveUpKnocking(r) \/ FailResume(r)
    <3>1. ck' = ck /\ task' = [task EXCEPT ![r] = Ended(task[r])]
      BY <2>2 DEF GiveUpKnocking, FailResume
    <3>2. x # r /\ task'[x] = task[x]
      BY <1>t, <3>1, EndedIs DEF Holding
    <3> QED
      BY <1>k, <3>1, <3>2 DEF Holding
  <2>3. CASE Acquire(r) \/ CompleteOrigin(r)
    <3>1. ck' = ck /\ x # r /\ task'[x] = task[x]
      BY <1>t, <2>3 DEF Acquire, CompleteOrigin, Step, TaskStates, Holding
    <3> QED
      BY <1>k, <3>1 DEF Holding
  <2>4. CASE ClaimCheckpoint(r)
    <3> DEFINE c == task[r].from
    <3>1. CASE x = r
      <4>1. c # NoRun /\ task'[r].pc # "returned" /\ task'[r].from = c
        BY <1>t, <2>4, <3>1 DEF ClaimCheckpoint, Step, Return, TaskStates, Holding
      <4>2. ck' = [ck EXCEPT ![c] = [status |-> "claimed", by |-> r]]
        BY <1>t, <2>4, <4>1 DEF ClaimCheckpoint, Step, Return, TaskStates
      <4> QED
        BY <1>t, <1>f, <3>1, <4>1, <4>2
    <3>2. CASE x # r
      <4>1. task'[x] = task[x]
        BY <1>t, <2>4, <3>2 DEF ClaimCheckpoint, Step, Return
      <4>2. Holding(x) /\ ck[task[x].from].status = "claimed"
        BY <1>h, <4>1 DEF Holding
      <4>3. ck'[task[x].from] = ck[task[x].from]
        BY <1>t, <1>f, <2>4, <4>2 DEF ClaimCheckpoint, Holding
      <4> QED
        BY <1>h, <4>1, <4>2, <4>3
    <3> QED
      BY <3>1, <3>2
  <2>5. CASE RunStarted(r) \/ Release(r) \/ LoopStep(r)
    <3>1. ck' = ck /\ \A y \in Runs \ {r} : task'[y] = task[y]
      BY <1>t, <2>5, LoopMoves DEF RunStarted, Release, LoopMove, LoopKeeps, Step
    <3>2. /\ task[r].pc \in {"starting", "returned"} \union LoopPcs
          /\ task'[r].from = task[r].from /\ task'[r].out = task[r].out
      <4>1. CASE RunStarted(r)
        <5>1. PICK b \in BOOLEAN : task' = [task EXCEPT ![r].pc = "loop", ![r].open = b]
          BY <4>1 DEF RunStarted
        <5> QED
          BY <1>t, <4>1, <5>1 DEF RunStarted, TaskStates
      <4>2. CASE Release(r)
        BY <1>t, <4>2 DEF Release, Step, TaskStates
      <4>3. CASE LoopStep(r)
        BY <1>t, <4>3, LoopMoves DEF LoopMove
      <4> QED
        BY <2>5, <4>1, <4>2, <4>3
    <3>3. task'[x].from = task[x].from /\ Holding(x)
      BY <3>1, <3>2 DEF Holding
    <3> QED
      BY <1>k, <3>1, <3>3
  <2>6. CASE ObserveCancel(r) \/ WaitForApproval(r) \/ QueueContinuation(r) \/ Final(r) \/ Fail(r)
    <3>1. task[r].pc \in LoopPcs \union {"deferring"} /\ ck' = ck
      BY <2>6 DEF ObserveCancel, WaitForApproval, QueueContinuation, Final, Fail
    <3>2. task[r].out = "none"
      BY <1>t, <3>1 DEF OutOpen
    <3>3. task'[x].from = task[x].from /\ Holding(x)
      BY <1>t, <2>6, <3>1, <3>2
         DEF ObserveCancel, WaitForApproval, QueueContinuation, Final, Fail, Return, TaskStates, Holding
    <3> QED
      BY <1>k, <3>1, <3>3
  <2>7. CASE SaveCheckpoint(r)
    <3>1. task[r].pc = "loop" /\ ck' = [ck EXCEPT ![r] = [status |-> "available", by |-> NoRun]]
      BY <2>7 DEF SaveCheckpoint
    <3>2. task'[x].from = task[x].from /\ Holding(x)
      BY <1>t, <2>7 DEF SaveCheckpoint, TaskStates, Holding
    <3>3. ck[r].status = "none" /\ ck[task[x].from].status # "none"
      BY <1>t, <3>1, <3>2 DEF Unsaved, FromSaved, Holding
    <3> QED
      BY <1>t, <1>f, <1>h, <3>1, <3>2, <3>3
  <2>8. CASE Settle(r)
    <3>1. x # r /\ task'[x] = task[x]
      BY <1>t, <2>8, EndedIs DEF Settle, Step, TaskStates, Holding
    <3>2. Holding(x)
      BY <3>1 DEF Holding
    <3>3. ck[task[x].from] # [status |-> "claimed", by |-> r]
      BY <1>h, <3>1, <3>2
    <3>4. ck'[task[x].from] = ck[task[x].from]
      BY <1>t, <1>f, <2>8, <3>2, <3>3 DEF Settle, Holding
    <3> QED
      BY <1>h, <3>1, <3>2, <3>4
  <2>9. CASE Report(r)
    <3>1. ck' = ck /\ x # r /\ task'[x] = task[x]
      BY <1>t, <2>9, EndedIs DEF Report, TaskStates, Holding
    <3> QED
      BY <1>k, <3>1 DEF Holding
  <2> QED
    BY <2>1, <2>2, <2>3, <2>4, <2>5, <2>6, <2>7, <2>8, <2>9 DEF TaskStep, LoopStep
<1>2. CASE ListCheckpoints \/ RequestCancel \/ UNCHANGED vars
  <2>1. UNCHANGED <<ck, task>>
    BY <1>2 DEF ListCheckpoints, RequestCancel, vars
  <2> QED
    BY <1>k, <2>1 DEF Holding
<1>3. ASSUME NEW c \in Runs, NEW r \in Runs, Dispatch(c, r) PROVE Goal
  <2>1. ck' = ck /\ task'[x] = task[x]
    BY <1>t, <1>3 DEF Dispatch, Holding
  <2> QED
    BY <1>k, <2>1 DEF Holding
<1>4. CASE UserStep
  <2>1. ck' = ck
    BY <1>4 DEF UserStep, Pause, CancelGoal, Resume, CancelRun, StopChat
  <2>2. ASSUME NEW g \in Goals, NEW r \in Runs, Resume(g, r) PROVE task'[x] = task[x]
    BY <1>t, <2>2, ResumeMoves DEF ResumeMove, Holding
  <2>3. task'[x] = task[x]
    BY <1>4, <2>2 DEF UserStep, Pause, CancelGoal, CancelRun, StopChat
  <2> QED
    BY <1>k, <2>1, <2>3 DEF Holding
<1>5. CASE Crash
  BY <1>t, <1>5, EndedIs DEF Crash, Holding, Alive
\* At startup nobody holds anything.
<1>6. CASE Startup
  <2>1. ~Up /\ task' = task
    BY <1>6 DEF Startup, MarkInterrupted, CreateCheckpoints, RecoverAutomatic, MarkUncertain, Up
  <2> QED
    BY <1>t, <2>1 DEF DownQuiet, Alive, Holding
<1>7. CASE EventStep
  <2>1. UNCHANGED <<ck, task>>
    BY <1>t, <1>7, EventMoves DEF EventMove
  <2> QED
    BY <1>k, <2>1 DEF Holding
<1> QED
  BY <1>1, <1>2, <1>3, <1>4, <1>5, <1>6, <1>7 DEF Next, EventStep

-------------------------------------------------------------------------------
(* No row left running *)

\* A request that has a run in hand keeps it so until it writes the row.
LEMMA LeftStays ==
  ASSUME TypeOK, ActionsOwned, ActionsMove, ~Crash, NEW x \in Runs, LeftRunning(x), run'[x].status = "running"
  PROVE  LeftRunning(x)'
<1>1. PICK a \in Actions : act[a].run = x /\ (InHand(a) \/ request[a] = "abandoned")
  BY DEF LeftRunning
<1>2. act'[a].run = x /\ run \in [Runs -> RunRows]
  <2>1. act[a].status # "none"
    BY <1>1 DEF ActionsOwned, InHand, AtWork
  <2> QED
    BY <1>1, <2>1, ActionOwner DEF TypeOK, RunRows
<1>3. ASSUME DecisionStep(a), request'[a] \in {"over", "early", "crossed"} PROVE FALSE
  <2>1. ActionResolved(a)
    BY <1>3 DEF DecisionStep, ClaimAction, ToolStarted, ResolveAction, ToolFinished, ResolveQuietly,
                ReadBatch, AbandonAction, Decider, TypeOK
  <2>2. UpdateRun(x, "completed") \/ UpdateRun(x, "waiting_for_approval")
    BY <1>1, <2>1 DEF ActionResolved
  <2> QED
    BY <1>2, <2>2 DEF UpdateRun, RunRows
<1>4. request'[a] \in AtWork \ {"claimed"} \/ request'[a] = "abandoned"
  BY <1>1, <1>3 DEF ActionsMove, Proposed, Rejected, Decided, Lost, Doubted, InHand, AtWork, ActionsOwned
<1> QED
  BY <1>2, <1>4 DEF LeftRunning, InHand

\* A row that is written as running has a task at work or a request that has it in
\* hand, and a task that ends leaves its row in another status.
LEMMA OverStep == Typed /\ Rows /\ OverNotRunning /\ [Next]_vars => OverNotRunning'
<1> SUFFICES ASSUME Typed, Rows, OverNotRunning, [Next]_vars, NEW x \in Runs, stage' # "mark",
                    task'[x].pc \in {"failing", "done"}
             PROVE  run'[x].status = "running" => LeftRunning(x)'
  BY DEF OverNotRunning
<1> DEFINE Goal == run'[x].status = "running" => LeftRunning(x)'
<1> USE DEF Early, LoopPcs, dbVars, sideVars, leaseVars, serverVars
<1>t. /\ task \in [Runs -> TaskStates] /\ run \in [Runs -> RunRows] /\ TypeOK /\ Planning /\ ActionsOwned
      /\ NoRun \notin Runs /\ Unsaved /\ DownQuiet /\ ActionsMove
  BY WorkAssumption, ActionsMoveStep DEF Typed, TypeOK, TaskStates, RunRows, Rows, Saved
<1>o. stage # "mark" /\ task[x].pc \in {"failing", "done"} /\ run'[x].status = run[x].status => Goal
  <2>1. ~Crash
    BY DEF Crash
  <2> QED
    BY <1>t, <2>1, LeftStays DEF OverNotRunning
<1>u. task[x].pc \in Early => run[x].status = "none"
  BY <1>t DEF Unsaved
<1>1. CASE \E r \in Runs : TaskStep(r)
  <2> PICK r \in Runs : TaskStep(r)
    BY <1>1
  <2>u. Up
    BY DEF TaskStep, StartTurn, Knock, GiveUpKnocking, Acquire, ClaimCheckpoint, RunStarted, ObserveCancel,
           Final, WaitForApproval, Fail, PlanGoal, LinkGoal, LoseLink, Propose, ExecuteOthers, SaveCheckpoint, QueueContinuation, Release, Settle,
           CompleteOrigin, Report, FailResume, Step
  <2>1. CASE StartTurn(r) \/ Knock(r)
    <3>1. run' = run /\ ClaimForeground(r, task[r])
      BY <2>1 DEF StartTurn, Knock
    <3>2. x # r /\ task'[x] = task[x]
      BY <1>t, <3>1 DEF ClaimForeground, TaskStates
    <3> QED
      BY <1>o, <2>u, <3>1, <3>2 DEF Up
  <2>2. CASE GiveUpKnocking(r) \/ FailResume(r)
    <3>1. /\ run' = run /\ task' = [task EXCEPT ![r] = Ended(task[r])]
          /\ task[r].pc \in {"knocking", "failing"}
      BY <2>2 DEF GiveUpKnocking, FailResume
    <3>2. x # r => task'[x] = task[x]
      BY <1>t, <3>1
    <3> QED
      BY <1>o, <1>u, <2>u, <3>1, <3>2 DEF Up
  <2>3. CASE Acquire(r) \/ ClaimCheckpoint(r) \/ Final(r) \/ Fail(r)
    <3>1. run' = run /\ x # r /\ task'[x] = task[x]
      BY <1>t, <2>3 DEF Acquire, ClaimCheckpoint, Final, Fail, Step, Return, TaskStates
    <3> QED
      BY <1>o, <2>u, <3>1 DEF Up
  <2>4. CASE RunStarted(r)
    <3>1. PICK b \in BOOLEAN : task' = [task EXCEPT ![r].pc = "loop", ![r].open = b]
      BY <2>4 DEF RunStarted
    <3>2. x # r /\ task'[x] = task[x]
      BY <1>t, <3>1 DEF TaskStates
    <3>3. run'[x] = run[x]
      BY <1>t, <2>4, <3>2 DEF RunStarted
    <3> QED
      BY <1>o, <2>u, <3>2, <3>3 DEF Up
  <2>5. CASE ObserveCancel(r) \/ WaitForApproval(r) \/ QueueContinuation(r)
    <3>1. x # r /\ task'[x] = task[x]
      BY <1>t, <2>5 DEF ObserveCancel, WaitForApproval, QueueContinuation, Return, TaskStates
    <3>2. run'[x] = run[x]
      BY <1>t, <2>5, <3>1 DEF ObserveCancel, WaitForApproval, QueueContinuation, UpdateRun
    <3> QED
      BY <1>o, <2>u, <3>1, <3>2 DEF Up
  <2>6. CASE LoopStep(r)
    <3>1. x # r /\ task'[x] = task[x] /\ run'[x] = run[x]
      BY <1>t, <2>6, LoopMoves DEF LoopMove
    <3> QED
      BY <1>o, <2>u, <3>1 DEF Up
  <2>7. CASE SaveCheckpoint(r)
    <3>1. x # r /\ task'[x] = task[x]
      BY <1>t, <2>7 DEF SaveCheckpoint, TaskStates
    <3>2. run'[x] = run[x]
      BY <1>t, <2>7, <3>1 DEF SaveCheckpoint
    <3> QED
      BY <1>o, <2>u, <3>1, <3>2 DEF Up
  <2>8. CASE Release(r)
    <3>1. x # r /\ task'[x] = task[x]
      BY <1>t, <2>8 DEF Release, Step, TaskStates
    <3>2. run'[x] = run[x] \/ run'[x].status = "cancelled"
      BY <1>t, <2>8 DEF Release, UpdateRun, RunRows
    <3> QED
      BY <1>o, <2>u, <3>1, <3>2 DEF Up
  <2>9. CASE Settle(r)
    <3>1. run' = run
      BY <2>9 DEF Settle
    <3>2. x # r => task'[x] = task[x]
      BY <1>t, <2>9 DEF Settle, Step
    <3>3. x = r => task[r].out = "refused"
      BY <1>t, <2>9 DEF Settle, Step, TaskStates
    <3> QED
      BY <1>t, <1>o, <2>u, <3>1, <3>2, <3>3 DEF Up, Unsaved
  <2>10. CASE CompleteOrigin(r)
    <3>1. x # r /\ task'[x] = task[x]
      BY <1>t, <2>10 DEF CompleteOrigin, Step, TaskStates
    <3>2. run'[x] = run[x] \/ run'[x].status = "completed"
      BY <1>t, <2>10 DEF CompleteOrigin, UpdateRun, RunRows
    <3> QED
      BY <1>o, <2>u, <3>1, <3>2 DEF Up
  <2>11. CASE Report(r)
    <3>1. CASE x = r
      BY <1>t, <2>11, <3>1 DEF Report, UpdateRun, RunRows
    <3>2. CASE x # r
      <4>1. task'[x] = task[x] /\ run'[x] = run[x]
        BY <1>t, <2>11, <3>2 DEF Report, UpdateRun
      <4> QED
        BY <1>o, <2>u, <4>1 DEF Up
    <3> QED
      BY <3>1, <3>2
  <2> QED
    BY <2>1, <2>2, <2>3, <2>4, <2>5, <2>6, <2>7, <2>8, <2>9, <2>10, <2>11 DEF TaskStep, LoopStep
<1>2. CASE ListCheckpoints \/ RequestCancel \/ UNCHANGED vars
  BY <1>o, <1>2 DEF ListCheckpoints, RequestCancel, vars
<1>3. ASSUME NEW c \in Runs, NEW r \in Runs, Dispatch(c, r) PROVE Goal
  <2>1. run' = run /\ stage' = stage /\ task'[x] = task[x]
    BY <1>t, <1>3 DEF Dispatch
  <2> QED
    BY <1>o, <2>1
<1>4. CASE UserStep
  <2>1. ASSUME NEW g \in Goals, Pause(g) \/ CancelGoal(g) PROVE Goal
    <3>1. task' = task /\ stage' = stage /\ run'[x].status = run[x].status
      BY <1>t, <2>1 DEF Pause, CancelGoal, SetGoal, StopRunsOf, RunRows
    <3> QED
      BY <1>o, <3>1
  <2>2. ASSUME NEW g \in Goals, NEW r \in Runs, Resume(g, r) PROVE Goal
    <3>1. run' = run /\ stage' = stage /\ task'[x] = task[x]
      BY <1>t, <2>2, ResumeMoves DEF Resume, ResumeMove
    <3> QED
      BY <1>o, <3>1
  <2>3. ASSUME NEW r \in Runs, CancelRun(r) PROVE Goal
    <3>1. task' = task /\ stage' = stage
      BY <2>3 DEF CancelRun
    <3>2. run'[x].status \in {run[x].status, "cancelled"}
      BY <1>t, <2>3 DEF CancelRun, RunRows
    <3> QED
      BY <1>o, <3>1, <3>2
  <2>4. CASE StopChat
    BY <1>o, <2>4 DEF StopChat
  <2> QED
    BY <1>4, <2>1, <2>2, <2>3, <2>4 DEF UserStep
<1>5. CASE Crash
  BY <1>5 DEF Crash
<1>6. CASE MarkInterrupted
  BY <1>t, <1>6 DEF MarkInterrupted, RunRows
<1>7. CASE CreateCheckpoints
  BY <1>o, <1>7 DEF CreateCheckpoints
<1>8. CASE RecoverAutomatic
  <2>1. task' = task /\ stage # "mark" /\ run'[x].status \in {run[x].status, "queued"}
    BY <1>t, <1>8 DEF RecoverAutomatic, RunRows
  <2> QED
    BY <1>o, <2>1
<1>9. CASE MarkUncertain
  BY <1>o, <1>9 DEF MarkUncertain
<1>10. CASE EventStep
  <2>1. task' = task /\ stage' = stage /\ Up
    BY <1>t, <1>10, EventMoves DEF EventMove
  <2>2. ASSUME NEW r \in Runs, Watchdog(r) PROVE Goal
    <3>1. run'[x].status \in {run[x].status, "failed"}
      BY <1>t, <2>2 DEF Watchdog, UpdateRun, RunRows
    <3> QED
      BY <1>o, <2>1, <3>1 DEF Up
  <2>3. ASSUME NEW a \in Actions, DecisionStep(a) PROVE Goal
    <3>1. CASE ToolStarted(a) \/ ToolFinished(a)
      <4>1. request'[a] \in {"started", "finishing"} /\ act' = act /\ UpdateRun(act[a].run, "running")
        BY <1>t, <3>1 DEF ToolStarted, ToolFinished, Decider, TypeOK
      <4>2. CASE act[a].run = x
        BY <4>1, <4>2 DEF LeftRunning, InHand, AtWork
      <4>3. CASE act[a].run # x
        <5>1. run'[x] = run[x]
          BY <1>t, <4>1, <4>3 DEF UpdateRun
        <5> QED
          BY <1>o, <2>1, <5>1 DEF Up
      <4> QED
        BY <4>2, <4>3
    <3>2. CASE ActionResolved(a)
      <4>1. UpdateRun(act[a].run, "completed") \/ UpdateRun(act[a].run, "waiting_for_approval")
        BY <3>2 DEF ActionResolved
      <4>2. run'[x].status \in {run[x].status, "completed", "waiting_for_approval"}
        BY <1>t, <4>1 DEF UpdateRun, RunRows
      <4> QED
        BY <1>o, <2>1, <4>2 DEF Up
    <3>3. CASE run' = run
      BY <1>o, <2>1, <3>3 DEF Up
    <3> QED
      BY <2>3, <3>1, <3>2, <3>3
         DEF DecisionStep, ClaimAction, ResolveAction, ResolveQuietly, ReadBatch, AbandonAction
  <2> QED
    BY <1>10, <2>2, <2>3 DEF EventStep
<1> QED
  BY <1>1, <1>2, <1>3, <1>4, <1>5, <1>6, <1>7, <1>8, <1>9, <1>10 DEF Next, Startup, EventStep

-------------------------------------------------------------------------------
(* The first invariant *)

LEMMA Inductive == Spec => []IInv
<1>1. Init => IInv
  <2> SUFFICES ASSUME Init PROVE IInv
    OBVIOUS
  <2> USE DEF Init, NoTask
  <2>1. Typed
    <3>1. goal \in [Goals -> GoalStatuses \union {"absent"}]
      BY DEF GoalStatuses
    <3>2. /\ run \in [Runs -> RunRows] /\ ck \in [Runs -> Checkpoints] /\ newest \in [Goals -> SUBSET Runs]
      BY DEF RunRows, Checkpoints, RunStatuses
    <3>3. task \in [Runs -> TaskStates]
      BY DEF TaskStates, Pcs, Kinds, Outcomes
    <3>4. owed \in Nat /\ crashes \in 0..MaxCrashes /\ controls \in 0..MaxControls
      BY WorkAssumption
    <3>5. act \in [Actions -> ActionRows] /\ request \in [Actions -> Requests]
      BY DEF ActionRows, Requests
    <3>6. CompletingFrom /\ Planning /\ ActionsOwned
      BY DEF CompletingFrom, Planning, ActionsOwned
    <3> QED
      BY <3>1, <3>2, <3>3, <3>4, <3>5, <3>6 DEF Typed, TypeOK, RunRows, Checkpoints, TaskStates, ActionRows
  <2>2. Rows
    BY DEF Rows, Saved, Unsaved, OutOpen, DeferredSaved, FromSaved, DownQuiet, ActionsOrdered, Requested,
           Early, LoopPcs, Up
  <2>3. OverNotRunning /\ ClaimExclusive /\ ConsumedBy /\ ConsumedIsCarriedOn
    BY DEF OverNotRunning, ClaimExclusive, ConsumedBy, ConsumedIsCarriedOn
  <2> QED
    BY <2>1, <2>2, <2>3 DEF IInv
<1>2. IInv /\ [Next]_vars => IInv'
  BY TypedStep, RowsStep, OverStep, ClaimStep, LastingStep, ConsumedStep DEF IInv
<1> QED
  BY <1>1, <1>2, PTL DEF Spec

-------------------------------------------------------------------------------
(* Interrupted goals *)

\* Only a start of the server finds rows interrupted.
AliveRows == \A r \in Runs : Alive(r) => run[r].status # "interrupted"

\* What is saved belongs to a goal, and who continues it works for that goal.
SavedHasGoal == \A c \in Runs : ck[c].status # "none" => run[c].goal \in Goals
GoalOfFrom ==
  \A r \in Runs : task[r].from # NoRun =>
    task[r].kind # "turn" /\ task[r].goal = run[task[r].from].goal

\* A run that has begun has written a row, so its goal's last work is not an
\* interrupted one.
Begun(r) ==
  \/ task[r].pc \in LoopPcs \union {"deferring", "completing", "reporting"}
  \/ task[r].pc \in {"returned", "settling"} /\ task[r].out # "refused"
BegunNotStale == \A r \in Runs : Begun(r) /\ task[r].goal \in Goals => ~Stale(task[r].goal)

\* After its second step the recovery has covered paused goals too.
CoveredAtRecovery ==
  stage \in {"recover", "actions"} => \A g \in Goals : goal[g] \in {"active", "paused"} /\ Stale(g) => Covered(g)

GoalsInv == AliveRows /\ SavedHasGoal /\ GoalOfFrom /\ BegunNotStale
CoverInv == InterruptedGoalCovered /\ CoveredAtRecovery

-------------------------------------------------------------------------------
(* Goals that are not stranded *)

\* A task that has the conversation is the one the lease names.
LeasePcs == {"claiming", "starting", "deferring", "returned"} \union LoopPcs
OwnerIsHolder ==
  \A r \in Runs : task[r].pc \in LeasePcs => owner = r

\* Until the first crash a row waits for a decision while there is one to make, or
\* one that left it open, or it is told to stop.
Reason(r) ==
  \E a \in Actions :
    act[a].run = r /\ (act[a].status = "pending" \/ request[a] \in AtWork \union {"early", "crossed", "abandoned"})
Proposing(r) == task[r].pc \in {"asking", "executing"}
WaitingHasReason ==
  crashes = 0 => \A r \in Runs :
    run[r].status = "waiting_for_approval" => Proposing(r) \/ run[r].cancel \/ Reason(r)

\* While it proposes its batch no decision is over for its row, and one that
\* nobody makes has been taken from the user by a stop.
DecidedEarly(r) == \E a \in Actions : act[a].run = r /\ request[a] = "early"
Asked(r) ==
  /\ \E a \in Actions : act[a].status # "none" /\ act[a].run = r
  /\ \A a \in Actions : act[a].status # "none" /\ act[a].run = r =>
       /\ request[a] \notin {"over", "crossed"}
       /\ act[a].status = "settled" /\ request[a] = "none" => run[r].cancel \/ DecidedEarly(r)
  /\ run[r].status \in {"running", "waiting_for_approval"} \/ run[r].cancel \/ DecidedEarly(r)
ProposalsAsked == crashes = 0 => \A r \in Runs : Proposing(r) => Asked(r)
NoneLost == crashes = 0 => \A a \in Actions : request[a] # "lost"

\* Until the first crash the run that a claim names is at work on it, and a
\* queued row has a checkpoint that the dispatcher can take, or a task that has.
Continues(r, c) ==
  /\ r \in Runs /\ task[r].from = c /\ task[r].out # "refused"
  /\ task[r].pc \in {"starting", "deferring", "returned", "settling"} \union LoopPcs
NoCrash == crashes = 0 => Up
ClaimHeld == crashes = 0 => \A c \in Runs : ck[c].status = "claimed" => Continues(ck[c].by, c)
DeferringAvailable ==
  crashes = 0 => \A c \in Runs : task[c].pc = "deferring" => ck[c].status = "available"
QueuedBacked ==
  crashes = 0 => \A c \in Runs : run[c].status = "queued" =>
    \/ ck[c].status \in {"available", "claimed"}
    \/ /\ ck[c].status = "consumed"
       /\ task[ck[c].by].from = c /\ task[ck[c].by].pc = "completing"

CalmInv == OwnerIsHolder /\ WaitingHasReason /\ ProposalsAsked /\ NoneLost /\ NoCrash /\ ClaimHeld /\ DeferringAvailable /\ QueuedBacked

-------------------------------------------------------------------------------
(* What a step of a running server writes *)

\* The rows a step writes are not interrupted, and those whose work is saved
\* keep their goal.
RowsWritten ==
  \/ UNCHANGED <<run, newest>>
  \/ \E S \in SUBSET Runs :
       /\ Touch(S)
       /\ \A x \in Runs \ S : run'[x] = run[x]
       /\ \A x \in S : /\ run'[x].status # "interrupted"
                       /\ run'[x].goal = run[x].goal \/ ck[x].status = "none"

LEMMA RowsWrittenStep == Typed /\ Rows /\ AliveRows /\ [Next]_vars /\ Running => RowsWritten
<1> SUFFICES ASSUME Typed, Rows, AliveRows, [Next]_vars, Running PROVE RowsWritten
  OBVIOUS
<1> USE DEF RowsWritten, dbVars, sideVars, leaseVars, serverVars
<1>t. /\ task \in [Runs -> TaskStates] /\ run \in [Runs -> RunRows] /\ Unsaved /\ AliveRows
      /\ NoRun \notin Runs /\ CompletingFrom /\ TypeOK /\ Planning /\ ActionsOwned
  BY WorkAssumption DEF Typed, TypeOK, TaskStates, RunRows, Rows, Saved
\* One row changes its status.
<1>u. ASSUME NEW r \in Runs, NEW status \in RunStatuses \ {"interrupted"}, UpdateRun(r, status)
      PROVE  RowsWritten
  <2>1. /\ Touch({r}) /\ \A x \in Runs \ {r} : run'[x] = run[x]
        /\ run'[r].status = status /\ run'[r].goal = run[r].goal
    BY <1>t, <1>u DEF UpdateRun, RunRows
  <2> QED
    BY <1>u, <2>1
\* A run writes its own row.
<1>w. ASSUME NEW r \in Runs, Touch({r}), \A x \in Runs \ {r} : run'[x] = run[x],
             run'[r].status # "interrupted", ck[r].status = "none"
      PROVE  RowsWritten
  BY <1>w
<1>1. CASE \E r \in Runs : TaskStep(r)
  <2> PICK r \in Runs : TaskStep(r)
    BY <1>1
  <2>1. CASE \/ StartTurn(r) \/ Knock(r) \/ GiveUpKnocking(r) \/ Acquire(r) \/ ClaimCheckpoint(r)
             \/ Final(r) \/ Fail(r) \/ Settle(r) \/ FailResume(r)
    BY <2>1 DEF StartTurn, Knock, GiveUpKnocking, Acquire, ClaimCheckpoint, Final, Fail, Settle, FailResume
  <2>2. CASE RunStarted(r)
    <3>1. Touch({r}) /\ ck[r].status = "none"
      BY <1>t, <2>2 DEF RunStarted, Unsaved, Early
    <3>2. run'[r].status = "running" /\ \A x \in Runs \ {r} : run'[x] = run[x]
      BY <1>t, <2>2 DEF RunStarted
    <3> QED
      BY <1>w, <3>1, <3>2
  <2>3. CASE ObserveCancel(r) \/ WaitForApproval(r) \/ QueueContinuation(r)
    BY <1>u, <2>3 DEF ObserveCancel, WaitForApproval, QueueContinuation, RunStatuses, Live
  <2>4. CASE LoopStep(r)
    <3>1. LoopMove(r) /\ ck[r].status = "none" /\ run[r].status # "interrupted"
      BY <1>t, <2>4, LoopMoves DEF LoopMove, Unsaved, AliveRows, Alive, LoopPcs
    <3>2. run'[r].status # "interrupted" /\ \A x \in Runs \ {r} : run'[x] = run[x]
      BY <3>1 DEF LoopMove
    <3>3. UNCHANGED <<run, newest>> \/ Touch({r})
      BY <3>1 DEF LoopMove
    <3> QED
      BY <1>w, <3>1, <3>2, <3>3
  <2>5. CASE SaveCheckpoint(r)
    <3>1. Touch({r}) /\ ck[r].status = "none" /\ run[r].status # "interrupted"
      BY <1>t, <2>5 DEF SaveCheckpoint, Unsaved, AliveRows, Alive, LoopPcs
    <3>2. run'[r].status = run[r].status /\ \A x \in Runs \ {r} : run'[x] = run[x]
      BY <1>t, <2>5 DEF SaveCheckpoint, RunRows
    <3> QED
      BY <1>w, <3>1, <3>2
  <2>6. CASE Release(r) \/ CompleteOrigin(r)
    <3>1. \/ UNCHANGED <<run, newest>>
          \/ /\ task[r].from # NoRun
             /\ UpdateRun(task[r].from, "cancelled") \/ UpdateRun(task[r].from, "completed")
      BY <1>t, <2>6 DEF Release, CompleteOrigin, Step, CompletingFrom
    <3>2. task[r].from \in Runs \union {NoRun}
      BY <1>t DEF TaskStates
    <3> QED
      BY <1>u, <3>1, <3>2 DEF RunStatuses
  <2>7. CASE Report(r)
    BY <1>u, <2>7 DEF Report, RunStatuses
  <2> QED
    BY <2>1, <2>2, <2>3, <2>4, <2>5, <2>6, <2>7 DEF TaskStep, LoopStep
<1>2. CASE ListCheckpoints \/ RequestCancel \/ UNCHANGED vars \/ \E c, r \in Runs : Dispatch(c, r)
  BY <1>2 DEF ListCheckpoints, RequestCancel, vars, Dispatch
<1>3. CASE UserStep
  <2>1. ASSUME NEW g \in Goals, Pause(g) \/ CancelGoal(g) PROVE RowsWritten
    <3> DEFINE S == {r \in RunsOf(g) : run[r].status \in Live}
    <3>1. /\ Touch(S)
          /\ run' = [r \in Runs |-> IF r \in S THEN [run[r] EXCEPT !.cancel = TRUE] ELSE run[r]]
      BY <2>1 DEF Pause, CancelGoal, SetGoal, StopRunsOf
    <3>2. S \in SUBSET Runs /\ \A x \in S : run[x].status # "interrupted"
      BY DEF RunsOf, Live
    <3>3. /\ \A x \in Runs \ S : run'[x] = run[x]
          /\ \A x \in S : run'[x].status = run[x].status /\ run'[x].goal = run[x].goal
      BY <1>t, <3>1, <3>2 DEF RunRows
    <3> HIDE DEF S
    <3> QED
      BY <3>1, <3>2, <3>3
  <2>2. ASSUME NEW r \in Runs, CancelRun(r) PROVE RowsWritten
    <3>1. Touch({r}) /\ \A x \in Runs \ {r} : run'[x] = run[x]
      BY <1>t, <2>2 DEF CancelRun
    <3>2. run'[r].status # "interrupted" /\ run'[r].goal = run[r].goal
      BY <1>t, <2>2 DEF CancelRun, RunRows, Live
    <3> QED
      BY <3>1, <3>2
  <2>4. CASE StopChat \/ \E g \in Goals, r \in Runs : Resume(g, r)
    BY <2>4 DEF StopChat, Resume
  <2> QED
    BY <1>3, <2>1, <2>2, <2>4 DEF UserStep
<1>4. CASE Crash \/ Startup
  BY <1>4 DEF Crash, Startup, MarkInterrupted, CreateCheckpoints, RecoverAutomatic, MarkUncertain, Running, Up
<1>5. CASE EventStep
  <2>1. EventMove
    BY <1>t, <1>5, EventMoves
  <2> QED
    BY <1>u, <2>1 DEF EventMove, RunStatuses, Live
<1> QED
  BY <1>1, <1>2, <1>3, <1>4, <1>5 DEF Next, EventStep

\* What a step does to a task: it starts it, from nothing or from work that is
\* saved; it carries it on, for the same goal or, where that is not locked, for one
\* that it links or creates; or it ends it.
Starts(x) ==
  /\ task[x] = NoTask
  /\ task'[x].pc \in {"knocking", "waiting", "claiming"} /\ task'[x].out = "none"
  /\ \/ task'[x].from = NoRun
     \/ /\ task'[x].from \in Runs /\ ck[task'[x].from].status # "none"
        /\ task'[x].kind # "turn" /\ task'[x].goal = run[task'[x].from].goal
Carries(x) ==
  /\ task[x].pc \notin {"idle", "done"} /\ task'[x].pc \notin {"idle", "done"}
  /\ task'[x].kind = task[x].kind /\ task'[x].from = task[x].from
  /\ \/ task'[x].goal = task[x].goal
     \/ task[x].pc \in {"loop", "linking"} /\ (task[x].kind = "turn" \/ task[x].goal = NoGoal)
Ends(x) == task[x].pc \notin {"idle", "done"} /\ task'[x] = Ended(task[x])

TasksMove == \A x \in Runs : task'[x] = task[x] \/ Starts(x) \/ Carries(x) \/ Ends(x)

LEMMA TasksMoveStep == Typed /\ Rows /\ [Next]_vars => TasksMove
<1> SUFFICES ASSUME Typed, Rows, [Next]_vars PROVE TasksMove
  OBVIOUS
<1> USE DEF dbVars, sideVars, leaseVars, serverVars
<1>t. /\ task \in [Runs -> TaskStates] /\ run \in [Runs -> RunRows] /\ ck \in [Runs -> Checkpoints]
      /\ FromSaved /\ listed \subseteq Runs /\ TypeOK /\ Planning /\ ActionsOwned
  BY WorkAssumption DEF Typed, TypeOK, TaskStates, RunRows, Checkpoints, Rows, Saved
\* One task moves.
<1>o. ASSUME NEW r \in Runs, \A x \in Runs \ {r} : task'[x] = task[x],
             task'[r] = task[r] \/ Starts(r) \/ Carries(r) \/ Ends(r)
      PROVE  TasksMove
  BY <1>o DEF TasksMove
<1>1. CASE \E r \in Runs : TaskStep(r)
  <2> PICK r \in Runs : TaskStep(r)
    BY <1>1
  <2>1. CASE StartTurn(r)
    <3>1. task[r] = NoTask /\ ClaimForeground(r, NoTask)
      BY <2>1 DEF StartTurn
    <3>2. \A x \in Runs \ {r} : task'[x] = task[x]
      BY <1>t, <3>1 DEF ClaimForeground
    <3>3. task'[r].pc \in {"waiting", "claiming"} /\ task'[r].out = "none" /\ task'[r].from = NoRun
      BY <1>t, <3>1 DEF ClaimForeground, NoTask
    <3> QED
      BY <1>o, <3>1, <3>2, <3>3 DEF Starts
  <2>2. CASE Knock(r)
    <3>1. task[r].pc = "knocking" /\ ClaimForeground(r, task[r])
      BY <2>2 DEF Knock
    <3>2. \A x \in Runs \ {r} : task'[x] = task[x]
      BY <1>t, <3>1 DEF ClaimForeground
    <3>3. Carries(r)
      BY <1>t, <3>1 DEF ClaimForeground, Carries, TaskStates
    <3> QED
      BY <1>o, <3>2, <3>3
  <2>3. CASE GiveUpKnocking(r) \/ FailResume(r)
    BY <1>o, <1>t, <2>3 DEF GiveUpKnocking, FailResume, Ends
  <2>4. CASE Acquire(r) \/ Release(r) \/ CompleteOrigin(r)
    <3>1. Carries(r) /\ \A x \in Runs \ {r} : task'[x] = task[x]
      BY <1>t, <2>4 DEF Acquire, Release, CompleteOrigin, Step, Carries, TaskStates
    <3> QED
      BY <1>o, <3>1
  <2>5. CASE ClaimCheckpoint(r)
    <3>1. Carries(r) /\ \A x \in Runs \ {r} : task'[x] = task[x]
      BY <1>t, <2>5 DEF ClaimCheckpoint, Step, Return, Carries, TaskStates
    <3> QED
      BY <1>o, <3>1
  <2>6. CASE RunStarted(r)
    <3>1. PICK b \in BOOLEAN : task' = [task EXCEPT ![r].pc = "loop", ![r].open = b]
      BY <2>6 DEF RunStarted
    <3>2. Carries(r) /\ \A x \in Runs \ {r} : task'[x] = task[x]
      BY <1>t, <2>6, <3>1 DEF RunStarted, Carries, TaskStates
    <3> QED
      BY <1>o, <3>2
  <2>7. CASE ObserveCancel(r) \/ WaitForApproval(r) \/ QueueContinuation(r) \/ Final(r) \/ Fail(r)
    <3>1. Carries(r) /\ \A x \in Runs \ {r} : task'[x] = task[x]
      BY <1>t, <2>7 DEF ObserveCancel, WaitForApproval, QueueContinuation, Final, Fail, Return, LoopPcs, Carries, TaskStates
    <3> QED
      BY <1>o, <3>1
  <2>8. CASE LoopStep(r)
    <3>1. LoopMove(r)
      BY <1>t, <2>8, LoopMoves
    <3>2. LinkGoal(r) => task[r].pc = "linking" /\ (task[r].kind = "turn" \/ task[r].goal = task[r].plan)
      BY <1>t DEF LinkGoal, Planning
    <3>3. Carries(r) /\ \A x \in Runs \ {r} : task'[x] = task[x]
      BY <3>1, <3>2 DEF LoopMove, Carries, LoopPcs
    <3> QED
      BY <1>o, <3>3
  <2>9. CASE SaveCheckpoint(r)
    <3>1. PICK g \in Goals : /\ task[r].goal = g \/ task[r].goal = NoGoal
                             /\ task' = [task EXCEPT ![r].pc = "deferring", ![r].goal = g]
      BY <2>9 DEF SaveCheckpoint
    <3>2. Carries(r) /\ \A x \in Runs \ {r} : task'[x] = task[x]
      BY <1>t, <2>9, <3>1 DEF SaveCheckpoint, Carries, TaskStates
    <3> QED
      BY <1>o, <3>2
  <2>10. CASE Settle(r)
    <3>1. Carries(r) \/ Ends(r)
      BY <1>t, <2>10 DEF Settle, Step, Carries, Ends, TaskStates
    <3>2. \A x \in Runs \ {r} : task'[x] = task[x]
      BY <1>t, <2>10 DEF Settle, Step
    <3> QED
      BY <1>o, <3>1, <3>2
  <2>11. CASE Report(r)
    <3>1. Carries(r) \/ Ends(r)
      BY <1>t, <2>11 DEF Report, Carries, Ends, TaskStates
    <3>2. \A x \in Runs \ {r} : task'[x] = task[x]
      BY <1>t, <2>11 DEF Report
    <3> QED
      BY <1>o, <3>1, <3>2
  <2> QED
    BY <2>1, <2>2, <2>3, <2>4, <2>5, <2>6, <2>7, <2>8, <2>9, <2>10, <2>11 DEF TaskStep, LoopStep
<1>2. CASE ListCheckpoints \/ RequestCancel \/ Startup \/ UNCHANGED vars
  BY <1>2 DEF ListCheckpoints, RequestCancel, Startup, MarkInterrupted, CreateCheckpoints,
              RecoverAutomatic, MarkUncertain, vars, TasksMove
<1>3. ASSUME NEW c \in Runs, NEW r \in Runs, Dispatch(c, r) PROVE TasksMove
  <2>1. \A x \in Runs \ {r} : task'[x] = task[x]
    BY <1>t, <1>3 DEF Dispatch
  <2>2. ck[c].status # "none"
    BY <1>t, <1>3 DEF Dispatch, FromSaved
  <2>3. task'[r] = task[r] \/ Starts(r)
    BY <1>t, <1>3, <2>2 DEF Dispatch, Starts
  <2> QED
    BY <1>o, <2>1, <2>3
<1>4. CASE UserStep
  <2>1. ASSUME NEW g \in Goals, NEW r \in Runs, Resume(g, r) PROVE TasksMove
    <3>1. ResumeMove(g, r)
      BY <1>t, <2>1, ResumeMoves
    <3>2. task'[r] = task[r] \/ Starts(r)
      BY <3>1 DEF ResumeMove, Starts
    <3> QED
      BY <1>o, <3>1, <3>2 DEF ResumeMove
  <2>2. CASE ~\E g \in Goals, r \in Runs : Resume(g, r)
    BY <1>4, <2>2 DEF UserStep, Pause, CancelGoal, CancelRun, StopChat, TasksMove
  <2> QED
    BY <2>1, <2>2
<1>5. CASE Crash
  BY <1>t, <1>5 DEF Crash, Alive, Ends, TasksMove
<1>6. CASE EventStep
  BY <1>t, <1>6, EventMoves DEF EventMove, TasksMove
<1> QED
  BY <1>1, <1>2, <1>3, <1>4, <1>5, <1>6 DEF Next, EventStep

\* What is saved keeps its goal, and is saved for one.
SavedGoals ==
  \A c \in Runs : /\ ck[c].status # "none" => run'[c].goal = run[c].goal
                  /\ ck[c].status = "none" /\ ck'[c].status # "none" => run'[c].goal \in Goals

LEMMA SavedGoalsStep == Typed /\ Rows /\ AliveRows /\ [Next]_vars => SavedGoals
<1> SUFFICES ASSUME Typed, Rows, AliveRows, [Next]_vars PROVE SavedGoals
  OBVIOUS
<1> USE DEF dbVars, sideVars, leaseVars, serverVars
<1>t. /\ task \in [Runs -> TaskStates] /\ run \in [Runs -> RunRows] /\ ck \in [Runs -> Checkpoints]
      /\ newest \in [Goals -> SUBSET Runs] /\ DownQuiet /\ TypeOK /\ Planning /\ ActionsOwned
  BY DEF Typed, TypeOK, TaskStates, RunRows, Checkpoints, Rows, Saved
<1>1. ASSUME Running, NEW c \in Runs PROVE ck[c].status # "none" => run'[c].goal = run[c].goal
  BY <1>1, RowsWrittenStep DEF RowsWritten
<1>2. ASSUME NEW r \in Runs, TaskStep(r), ~SaveCheckpoint(r), NEW c \in Runs
      PROVE  ck[c].status = "none" => ck'[c].status = "none"
  <2>1. CASE ClaimCheckpoint(r)
    BY <1>t, <2>1 DEF ClaimCheckpoint, TaskStates, Checkpoints
  <2>2. CASE Settle(r)
    BY <1>t, <2>2 DEF Settle, TaskStates, Checkpoints
  <2>3. CASE ~ClaimCheckpoint(r) /\ ~Settle(r)
    <3>1. ck' = ck
      BY <1>2, <2>3 DEF TaskStep, StartTurn, Knock, GiveUpKnocking, Acquire, RunStarted, ObserveCancel,
             Final, WaitForApproval, Fail, PlanGoal, LinkGoal, LoseLink, Propose, ExecuteOthers, QueueContinuation, Release, CompleteOrigin, Report, FailResume
    <3> QED
      BY <3>1
  <2> QED
    BY <2>1, <2>2, <2>3
<1>3. ASSUME NEW r \in Runs, SaveCheckpoint(r), NEW c \in Runs
      PROVE  ck[c].status = "none" => ck'[c].status = "none" \/ run'[c].goal \in Goals
  BY <1>t, <1>3 DEF SaveCheckpoint, RunRows, Checkpoints
<1>4. ASSUME NEW r \in Runs, TaskStep(r) PROVE Running
  BY <1>4 DEF TaskStep, StartTurn, Knock, GiveUpKnocking, Acquire, ClaimCheckpoint, RunStarted, ObserveCancel,
         Final, WaitForApproval, Fail, PlanGoal, LinkGoal, LoseLink, Propose, ExecuteOthers,
         SaveCheckpoint, QueueContinuation, Release, Settle,
         CompleteOrigin, Report, FailResume, Step, Running, Up
<1>5. CASE \E r \in Runs : TaskStep(r)
  BY <1>1, <1>2, <1>3, <1>4, <1>5 DEF SavedGoals
<1>6. CASE ListCheckpoints \/ RequestCancel \/ UserStep \/ \E c, r \in Runs : Dispatch(c, r)
  <2>1. Running /\ ck' = ck
    BY <1>6 DEF ListCheckpoints, RequestCancel, UserStep, Dispatch, Pause, CancelGoal, SetGoal, Resume,
                CancelRun, StopChat, Control, Running, Up
  <2> QED
    BY <1>1, <2>1 DEF SavedGoals
<1>7. CASE Crash \/ MarkUncertain \/ UNCHANGED vars
  BY <1>7 DEF Crash, MarkUncertain, vars, SavedGoals
<1>8. CASE MarkInterrupted
  BY <1>t, <1>8 DEF MarkInterrupted, RunRows, SavedGoals
<1>9. CASE CreateCheckpoints
  <2>1. run' = run
    BY <1>9 DEF CreateCheckpoints
  <2> QED
    BY <1>t, <1>9, <2>1, MadeForInterrupted DEF SavedGoals
<1>10. CASE RecoverAutomatic
  BY ZenonT(60), <1>t, <1>10 DEF RecoverAutomatic, RunRows, Checkpoints, SavedGoals
<1>11. CASE EventStep
  <2>1. ck' = ck /\ Running
    BY <1>t, <1>11, EventMoves DEF EventMove, Running, Up
  <2> QED
    BY <1>1, <2>1 DEF SavedGoals
<1> QED
  BY <1>5, <1>6, <1>7, <1>8, <1>9, <1>10, <1>11 DEF Next, Startup, EventStep

-------------------------------------------------------------------------------
(* Staleness only passes while the server runs *)

\* Writing rows that are not interrupted makes no goal stale.
LEMMA NoNewStale ==
  ASSUME RowsWritten, newest \in [Goals -> SUBSET Runs], NEW g \in Goals, Stale(g)'
  PROVE  Stale(g)
<1>1. CASE UNCHANGED <<run, newest>>
  BY <1>1 DEF Stale
<1>2. ASSUME NEW S \in SUBSET Runs, Touch(S),
             \A x \in Runs \ S : run'[x] = run[x], \A x \in S : run'[x].status # "interrupted"
      PROVE  Stale(g)
  <2> DEFINE T == {r \in S : run'[r].goal = g}
  <2>1. newest'[g] = IF T = {} THEN newest[g] ELSE T
    BY <1>2 DEF Touch
  <2>2. PICK r \in newest'[g] : run'[r].goal = g /\ run'[r].status = "interrupted"
    BY DEF Stale
  <2>3. r \notin S
    BY <1>2, <2>2
  <2>4. r \in newest[g] /\ r \in Runs
    BY <2>1, <2>2, <2>3
  <2>5. run'[r] = run[r]
    BY <1>2, <2>3, <2>4
  <2> QED
    BY <2>2, <2>4, <2>5 DEF Stale
<1> QED
  BY <1>1, <1>2 DEF RowsWritten

\* A goal whose row was just written by a run that is not interrupted is not stale.
LEMMA JustTouched ==
  ASSUME NEW r \in Runs, Touch({r}), run'[r].status # "interrupted"
  PROVE  \A g \in Goals : run'[r].goal = g => ~Stale(g)'
<1> SUFFICES ASSUME NEW g \in Goals, run'[r].goal = g PROVE ~Stale(g)'
  OBVIOUS
<1> DEFINE T == {x \in {r} : run'[x].goal = g}
<1>1. T = {r}
  OBVIOUS
<1>2. newest'[g] = IF T = {} THEN newest[g] ELSE T
  BY DEF Touch
<1>3. newest'[g] = {r}
  BY <1>1, <1>2
<1> QED
  BY <1>3 DEF Stale

\* A run begins by writing its row, and what it does later for the same goal
\* needs nothing more.
BegunMoves ==
  \A x \in Runs : Begun(x)' =>
    \/ Begun(x) /\ task'[x].goal = task[x].goal
    \/ \A g \in Goals : task'[x].goal = g => ~Stale(g)'

LEMMA BegunMovesStep == Typed /\ Rows /\ AliveRows /\ [Next]_vars => BegunMoves
<1> SUFFICES ASSUME Typed, Rows, AliveRows, [Next]_vars, NEW x \in Runs, Begun(x)'
             PROVE  \/ Begun(x) /\ task'[x].goal = task[x].goal
                    \/ \A g \in Goals : task'[x].goal = g => ~Stale(g)'
  BY DEF BegunMoves
<1> DEFINE Same == Begun(x) /\ task'[x].goal = task[x].goal
<1> USE DEF LoopPcs, dbVars, sideVars, leaseVars, serverVars
<1>t. /\ task \in [Runs -> TaskStates] /\ run \in [Runs -> RunRows] /\ AliveRows /\ OutOpen /\ DownQuiet
      /\ TypeOK /\ Planning /\ ActionsOwned
  BY DEF Typed, TypeOK, TaskStates, RunRows, Rows, Saved
<1>s. task'[x] = task[x] => Same
  BY DEF Begun
<1>1. CASE \E r \in Runs : TaskStep(r)
  <2> PICK r \in Runs : TaskStep(r)
    BY <1>1
  <2>1. CASE StartTurn(r) \/ Knock(r)
    <3>1. ClaimForeground(r, task[r])
      BY <2>1 DEF StartTurn, Knock
    <3>2. task'[x] = task[x]
      BY <1>t, <3>1 DEF ClaimForeground, Begun, TaskStates
    <3> QED
      BY <1>s, <3>2
  <2>2. CASE GiveUpKnocking(r) \/ FailResume(r) \/ Report(r)
    <3>1. x # r
      BY <1>t, <2>2, EndedIs DEF GiveUpKnocking, FailResume, Report, Begun, TaskStates
    <3> QED
      BY <1>t, <1>s, <2>2, <3>1 DEF GiveUpKnocking, FailResume, Report
  <2>3. CASE Acquire(r) \/ ClaimCheckpoint(r)
    <3>1. x # r
      BY <1>t, <2>3 DEF Acquire, ClaimCheckpoint, Step, Return, Begun, TaskStates
    <3> QED
      BY <1>t, <1>s, <2>3, <3>1 DEF Acquire, ClaimCheckpoint, Step, Return
  <2>4. CASE RunStarted(r)
    <3>1. PICK b \in BOOLEAN : task' = [task EXCEPT ![r].pc = "loop", ![r].open = b]
      BY <2>4 DEF RunStarted
    <3>2. task'[r].goal = task[r].goal /\ \A y \in Runs \ {r} : task'[y] = task[y]
      BY <1>t, <3>1 DEF TaskStates
    <3>3. run'[r].goal = task[r].goal /\ run'[r].status # "interrupted" /\ Touch({r})
      BY <1>t, <2>4 DEF RunStarted
    <3> QED
      BY <1>s, <3>2, <3>3, JustTouched
  <2>5. CASE LoopStep(r)
    <3>1. LoopMove(r) /\ run[r].status # "interrupted"
      BY <1>t, <2>5, LoopMoves DEF LoopMove, AliveRows, Alive
    <3>2. CASE x = r
      <4>1. CASE task'[r].goal = task[r].goal
        BY <3>1, <3>2, <4>1 DEF LoopMove, Begun
      <4>2. CASE Touch({r}) /\ task'[r].goal = run'[r].goal
        <5>1. run'[r].status # "interrupted"
          BY <3>1 DEF LoopMove
        <5> QED
          BY <3>2, <4>2, <5>1, JustTouched
      <4> QED
        BY <3>1, <4>1, <4>2 DEF LoopMove
    <3>3. CASE x # r
      BY <1>s, <3>1, <3>3 DEF LoopMove
    <3> QED
      BY <3>2, <3>3
  <2>6. CASE SaveCheckpoint(r)
    <3>1. PICK g \in Goals : /\ run' = [run EXCEPT ![r].goal = g]
                             /\ task' = [task EXCEPT ![r].pc = "deferring", ![r].goal = g]
      BY <2>6 DEF SaveCheckpoint
    <3>2. task'[r].goal = g /\ \A y \in Runs \ {r} : task'[y] = task[y]
      BY <1>t, <3>1 DEF TaskStates
    <3>3. run[r].status # "interrupted"
      BY <1>t, <2>6 DEF SaveCheckpoint, AliveRows, Alive
    <3>4. run'[r].goal = g /\ run'[r].status # "interrupted" /\ Touch({r})
      BY <1>t, <2>6, <3>1, <3>3 DEF SaveCheckpoint, RunRows
    <3> QED
      BY <1>s, <3>2, <3>4, JustTouched
  <2>7. CASE ObserveCancel(r) \/ WaitForApproval(r) \/ QueueContinuation(r) \/ Final(r) \/ Fail(r)
    BY <1>t, <1>s, <2>7 DEF ObserveCancel, WaitForApproval, QueueContinuation, Final, Fail, Return,
                            Begun, TaskStates
  <2>8. CASE Release(r) \/ CompleteOrigin(r)
    BY <1>t, <1>s, <2>8 DEF Release, CompleteOrigin, Step, Begun, TaskStates
  <2>9. CASE Settle(r)
    <3>1. CASE x # r
      BY <1>t, <1>s, <2>9, <3>1 DEF Settle, Step
    <3>2. CASE x = r
      <4>1. task[r].out # "refused" /\ task[r].pc = "settling"
        <5>1. CASE task[r].out = "refused"
          <6>1. task'[r] = [task[r] EXCEPT !.pc = "failing"] \/ task'[r] = Ended(task[r])
            BY <1>t, <2>9, <5>1 DEF Settle, Step, Succeeded
          <6>2. task'[r].pc \in {"failing", "done"}
            BY <1>t, <6>1, EndedIs DEF TaskStates
          <6> QED
            BY <3>2, <6>2 DEF Begun
        <5> QED
          BY <2>9, <5>1 DEF Settle, Step
      <4>2. task'[r].goal = task[r].goal
        BY <1>t, <2>9, <4>1 DEF Settle, Step, TaskStates
      <4> QED
        BY <3>2, <4>1, <4>2 DEF Begun
    <3> QED
      BY <3>1, <3>2
  <2> QED
    BY <2>1, <2>2, <2>3, <2>4, <2>5, <2>6, <2>7, <2>8, <2>9 DEF TaskStep, LoopStep
<1>2. CASE ListCheckpoints \/ RequestCancel \/ Startup \/ UNCHANGED vars
  BY <1>s, <1>2 DEF ListCheckpoints, RequestCancel, Startup, MarkInterrupted, CreateCheckpoints,
                    RecoverAutomatic, MarkUncertain, vars
<1>3. ASSUME NEW c \in Runs, NEW r \in Runs, Dispatch(c, r) PROVE Same
  <2>1. task'[x] = task[x]
    BY <1>t, <1>3 DEF Dispatch, Begun
  <2> QED
    BY <1>s, <2>1
<1>4. CASE UserStep
  <2>1. ASSUME NEW g \in Goals, NEW r \in Runs, Resume(g, r) PROVE task'[x] = task[x]
    BY <1>t, <2>1, ResumeMoves DEF ResumeMove, Begun
  <2>2. task'[x] = task[x]
    BY <1>4, <2>1 DEF UserStep, Pause, CancelGoal, CancelRun, StopChat
  <2> QED
    BY <1>s, <2>2
<1>5. CASE Crash
  <2>1. task'[x].pc = "done" \/ (task'[x] = task[x] /\ ~Alive(x))
    BY <1>t, <1>5, EndedIs DEF Crash
  <2> QED
    BY <1>s, <2>1 DEF Begun
<1>6. CASE EventStep
  BY <1>t, <1>s, <1>6, EventMoves DEF EventMove
<1> QED
  BY <1>1, <1>2, <1>3, <1>4, <1>5, <1>6 DEF Next, EventStep

LEMMA GoalsStep == Typed /\ Rows /\ Rows' /\ GoalsInv /\ [Next]_vars => GoalsInv'
<1> SUFFICES ASSUME Typed, Rows, Rows', GoalsInv, [Next]_vars PROVE GoalsInv'
  OBVIOUS
<1>t. /\ task \in [Runs -> TaskStates] /\ newest \in [Goals -> SUBSET Runs]
      /\ NoGoal \notin Goals /\ NoRun \notin Runs
      /\ AliveRows /\ SavedHasGoal /\ GoalOfFrom /\ BegunNotStale
      /\ Unsaved /\ FromSaved /\ DownQuiet /\ DownQuiet'
  BY WorkAssumption DEF Typed, TypeOK, TaskStates, Rows, Saved, GoalsInv
<1>m. TasksMove /\ SavedGoals /\ BegunMoves
  BY <1>t, TasksMoveStep, SavedGoalsStep, BegunMovesStep
<1>r. Running => RowsWritten
  BY <1>t, RowsWrittenStep
<1>f. \A x \in Runs : task[x].from \in Runs \union {NoRun} /\ task[x].goal \in Goals \union {NoGoal}
  BY <1>t DEF TaskStates
\* Tasks that are alive afterwards were alive, or start, on a server that runs.
<1>a. ASSUME NEW x \in Runs, Alive(x)' PROVE Running /\ (Alive(x) \/ task[x].pc = "idle")
  <2>1. Up'
    BY <1>t, <1>a DEF DownQuiet
  <2>2. Alive(x) \/ task[x].pc = "idle"
    <3>1. CASE Ends(x)
      BY <1>a, <3>1, EndedIs DEF Ends, Alive
    <3>2. CASE Starts(x)
      BY <3>2 DEF Starts, NoTask
    <3>3. CASE task'[x] = task[x] \/ Carries(x)
      BY <1>a, <3>3 DEF Carries, Alive
    <3> QED
      BY <1>m, <3>1, <3>2, <3>3 DEF TasksMove
  <2>3. Up
    <3>1. CASE ~Up
      <4>1. task' = task
        BY <2>1, <3>1, Phases DEF Running, Startup, MarkInterrupted, CreateCheckpoints, RecoverAutomatic,
           MarkUncertain, Crash, Up, vars
      <4> QED
        BY <1>t, <1>a, <3>1, <4>1 DEF DownQuiet, Alive
    <3> QED
      BY <3>1
  <2> QED
    BY <2>1, <2>2, <2>3 DEF Running
<1>1. AliveRows'
  <2> SUFFICES ASSUME NEW x \in Runs, Alive(x)', run'[x].status = "interrupted" PROVE FALSE
    BY DEF AliveRows
  <2>1. run[x].status = "interrupted"
    BY <1>a, <1>r DEF RowsWritten
  <2>2. ~Alive(x)
    BY <1>t, <2>1 DEF AliveRows
  <2> QED
    BY <1>a, <1>t, <2>1, <2>2 DEF Unsaved, Early
<1>2. SavedHasGoal'
  <2> SUFFICES ASSUME NEW c \in Runs, ck'[c].status # "none" PROVE run'[c].goal \in Goals
    BY DEF SavedHasGoal
  <2> QED
    BY <1>t, <1>m DEF SavedGoals, SavedHasGoal
<1>3. GoalOfFrom'
  <2> SUFFICES ASSUME NEW x \in Runs, task'[x].from # NoRun
               PROVE  task'[x].kind # "turn" /\ task'[x].goal = run'[task'[x].from].goal
    BY DEF GoalOfFrom
  <2>1. CASE Starts(x)
    BY <1>m, <2>1 DEF Starts, SavedGoals
  <2>2. ASSUME task'[x] = task[x] \/ Carries(x)
        PROVE  task'[x].kind # "turn" /\ task'[x].goal = run'[task'[x].from].goal
    <3>1. task'[x].from = task[x].from /\ task'[x].kind = task[x].kind
      BY <2>2 DEF Carries
    <3>2. task[x].from \in Runs /\ task[x].kind # "turn" /\ task[x].goal = run[task[x].from].goal
      BY <1>t, <1>f, <3>1 DEF GoalOfFrom
    <3>3. ck[task[x].from].status # "none"
      BY <1>t, <3>2 DEF FromSaved
    <3>4. run[task[x].from].goal \in Goals /\ run'[task[x].from].goal = run[task[x].from].goal
      BY <1>t, <1>m, <3>2, <3>3 DEF SavedHasGoal, SavedGoals
    <3>5. task'[x].goal = task[x].goal
      BY <1>t, <2>2, <3>2, <3>4 DEF Carries
    <3> QED
      BY <3>1, <3>2, <3>4, <3>5
  <2>3. CASE Ends(x)
    BY <2>3, EndedIs DEF Ends
  <2> QED
    BY <1>m, <2>1, <2>2, <2>3 DEF TasksMove
<1>4. BegunNotStale'
  <2> SUFFICES ASSUME NEW x \in Runs, Begun(x)', NEW g \in Goals, task'[x].goal = g PROVE ~Stale(g)'
    BY DEF BegunNotStale
  <2>1. CASE Begun(x) /\ task'[x].goal = task[x].goal
    <3>1. Alive(x)'
      BY DEF Begun, Alive, LoopPcs
    <3>2. RowsWritten
      BY <1>a, <1>r, <3>1
    <3>3. ~Stale(g)
      BY <1>t, <2>1 DEF BegunNotStale
    <3> QED
      BY <1>t, <3>2, <3>3, NoNewStale
  <2> QED
    BY <1>m, <2>1 DEF BegunMoves
<1> QED
  BY <1>1, <1>2, <1>3, <1>4 DEF GoalsInv

-------------------------------------------------------------------------------
(* Goals stay covered *)

\* A checkpoint is used up only by a run that has begun.
LEMMA CoverUsed ==
  ASSUME Typed, Rows, Rows', [Next]_vars, NEW c \in Runs, ck[c].status \in {"available", "claimed"}
  PROVE  \/ ck'[c].status \in {"available", "claimed"}
         \/ Running /\ \E r \in Runs : Begun(r) /\ task[r].from = c
<1>t. ck \in [Runs -> Checkpoints] /\ task \in [Runs -> TaskStates] /\ newest \in [Goals -> SUBSET Runs]
      /\ NoRun \notin Runs /\ Unsaved /\ TypeOK /\ ActionsOwned
  BY WorkAssumption DEF Typed, TypeOK, Checkpoints, TaskStates, Rows, Saved
<1> USE DEF dbVars, sideVars, leaseVars, serverVars
<1>1. ASSUME NEW r \in Runs, ClaimCheckpoint(r) PROVE ck'[c].status \in {"available", "claimed"}
  BY <1>t, <1>1 DEF ClaimCheckpoint, Checkpoints
<1>2. ASSUME NEW r \in Runs, SaveCheckpoint(r) PROVE ck'[c].status \in {"available", "claimed"}
  BY <1>t, <1>2 DEF SaveCheckpoint, Checkpoints
<1>3. ASSUME NEW r \in Runs, Settle(r), ck'[c].status \notin {"available", "claimed"}
      PROVE  Running /\ Begun(r) /\ task[r].from = c
  <2>1. Running /\ task[r].pc = "settling"
    BY <1>3 DEF Settle, Step, Running, Up
  <2>2. task[r].from = c /\ task[r].out # "refused"
    BY <1>t, <1>3 DEF Settle, Checkpoints, Succeeded
  <2> QED
    BY <2>1, <2>2 DEF Begun
<1>4. ASSUME CreateCheckpoints PROVE ck'[c].status \in {"available", "claimed"}
  BY <1>t, <1>4, MadeForInterrupted
<1>5. ASSUME RecoverAutomatic PROVE ck'[c].status \in {"available", "claimed"}
  BY <1>t, <1>5 DEF RecoverAutomatic, Checkpoints
<1>6. ASSUME ck' = ck PROVE ck'[c].status \in {"available", "claimed"}
  BY <1>6
<1>7. EventStep => ck' = ck
  BY <1>t, EventMoves DEF EventMove
<1>8. \/ \E r \in Runs : ClaimCheckpoint(r) \/ SaveCheckpoint(r) \/ Settle(r)
      \/ CreateCheckpoints \/ RecoverAutomatic \/ ck' = ck
  BY ZenonT(60), <1>7 DEF Next, EventStep, TaskStep, StartTurn, Knock, GiveUpKnocking, Acquire, RunStarted, ObserveCancel,
         Final, WaitForApproval, Fail, PlanGoal, LinkGoal, LoseLink, Propose, ExecuteOthers, QueueContinuation, Release, CompleteOrigin, Report, FailResume,
         ListCheckpoints, Dispatch, UserStep, Pause, CancelGoal, Resume, CancelRun, StopChat,
         RequestCancel, Crash, Startup, MarkInterrupted, MarkUncertain, vars
<1> QED
  BY <1>1, <1>2, <1>3, <1>4, <1>5, <1>6, <1>8

\* A resume that ends has begun, or has paused its goal.
LEMMA ResumeEnds ==
  ASSUME Typed, Rows, [Next]_vars, Running, NEW x \in Runs, NEW g \in Goals,
         Ends(x), task[x].kind = "resume", task[x].goal = g
  PROVE  Begun(x) \/ goal'[g] = "paused"
<1> USE DEF dbVars, sideVars, leaseVars, serverVars
<1>t. /\ task \in [Runs -> TaskStates] /\ goal \in [Goals -> GoalStatuses \union {"absent"}]
      /\ TypeOK /\ Planning /\ ActionsOwned
  BY DEF Typed, TypeOK, TaskStates
<1>e. task[x].pc \notin {"idle", "done"} /\ task'[x].pc = "done"
  BY EndedIs DEF Ends
<1>1. CASE \E r \in Runs : TaskStep(r)
  <2> PICK r \in Runs : TaskStep(r)
    BY <1>1
  <2>1. CASE StartTurn(r) \/ Knock(r)
    <3>1. ClaimForeground(r, task[r])
      BY <2>1 DEF StartTurn, Knock
    <3> QED
      BY <1>t, <1>e, <3>1 DEF ClaimForeground, TaskStates
  <2>2. CASE GiveUpKnocking(r) \/ FailResume(r)
    <3>1. /\ task' = [task EXCEPT ![r] = Ended(task[r])]
          /\ goal' = [goal EXCEPT ![task[r].goal] = "paused"]
      BY <2>2 DEF GiveUpKnocking, FailResume
    <3>2. x = r
      BY <1>t, <1>e, <3>1
    <3> QED
      BY <1>t, <3>1, <3>2
  <2>3. CASE Settle(r)
    <3>1. CASE x = r
      BY <1>t, <1>e, <2>3, <3>1 DEF Settle, Step, TaskStates, Begun, Succeeded
    <3>2. CASE x # r
      BY <1>t, <1>e, <2>3, <3>2 DEF Settle, Step
    <3> QED
      BY <3>1, <3>2
  <2>4. CASE Report(r)
    <3>1. x = r
      BY <1>t, <1>e, <2>4 DEF Report
    <3> QED
      BY <2>4, <3>1 DEF Report, Begun
  <2>5. CASE Acquire(r) \/ ClaimCheckpoint(r) \/ Release(r) \/ CompleteOrigin(r)
    BY <1>t, <1>e, <2>5 DEF Acquire, ClaimCheckpoint, Release, CompleteOrigin, Step, Return, TaskStates
  <2>6. CASE RunStarted(r)
    <3>1. PICK b \in BOOLEAN : task' = [task EXCEPT ![r].pc = "loop", ![r].open = b]
      BY <2>6 DEF RunStarted
    <3> QED
      BY <1>t, <1>e, <3>1 DEF TaskStates
  <2>7. CASE ObserveCancel(r) \/ WaitForApproval(r) \/ QueueContinuation(r) \/ Final(r) \/ Fail(r)
    BY <1>t, <1>e, <2>7 DEF ObserveCancel, WaitForApproval, QueueContinuation, Final, Fail, Return, TaskStates
  <2>8. CASE SaveCheckpoint(r)
    BY <1>t, <1>e, <2>8 DEF SaveCheckpoint, TaskStates
  <2>9. CASE LoopStep(r)
    BY <1>t, <1>e, <2>9, LoopMoves DEF LoopMove, LoopPcs
  <2> QED
    BY <2>1, <2>2, <2>3, <2>4, <2>5, <2>6, <2>7, <2>8, <2>9 DEF TaskStep, LoopStep
<1>2. CASE task' = task
  BY <1>e, <1>2
<1>3. ASSUME NEW c \in Runs, NEW r \in Runs, Dispatch(c, r) PROVE FALSE
  BY <1>t, <1>e, <1>3 DEF Dispatch, NoTask
<1>4. ASSUME NEW h \in Goals, NEW r \in Runs, Resume(h, r) PROVE FALSE
  BY <1>t, <1>e, <1>4, ResumeMoves DEF ResumeMove, NoTask
<1>5. CASE Crash
  BY <1>5 DEF Crash, Running, Up
<1>6. CASE EventStep
  BY <1>t, <1>e, <1>6, EventMoves DEF EventMove
<1> QED
  BY <1>1, <1>2, <1>3, <1>4, <1>5, <1>6 DEF Next, EventStep, ListCheckpoints, UserStep, Pause, CancelGoal, CancelRun,
     StopChat, RequestCancel, Startup, MarkInterrupted, CreateCheckpoints, RecoverAutomatic, MarkUncertain, vars

\* A goal becomes active by a resume, a plan, or a run that creates it.
LEMMA Activated ==
  ASSUME Typed, Rows, AliveRows, [Next]_vars, NEW g \in Goals, goal[g] # "active", goal'[g] = "active"
  PROVE  BeingResumed(g)' \/ ~Stale(g)' \/ g \in left'
<1> USE DEF dbVars, sideVars, leaseVars, serverVars
<1>t. /\ task \in [Runs -> TaskStates] /\ goal \in [Goals -> GoalStatuses \union {"absent"}]
      /\ run \in [Runs -> RunRows] /\ AliveRows /\ TypeOK /\ ActionsOwned
  BY DEF Typed, TypeOK, TaskStates, RunRows
<1>1. ASSUME NEW r \in Runs, NEW h \in Goals, NEW s \in PlanStatuses, PlanGoal(r, h, s) PROVE BeingResumed(g)'
  <2>1. h = g
    BY <1>t, <1>1 DEF PlanGoal
  <2>2. task'[r].pc = "linking" /\ task'[r].plan = g
    BY <1>t, <1>1, <2>1 DEF PlanGoal, TaskStates
  <2> QED
    BY <2>2 DEF BeingResumed, Alive
<1>2. ASSUME NEW r \in Runs, SaveCheckpoint(r) PROVE ~Stale(g)'
  <2>1. PICK h \in Goals : /\ UNCHANGED goal \/ goal' = [goal EXCEPT ![h] = "active"]
                           /\ run' = [run EXCEPT ![r].goal = h]
    BY <1>2 DEF SaveCheckpoint
  <2>2. h = g
    BY <1>t, <2>1
  <2>3. run[r].status # "interrupted"
    BY <1>t, <1>2 DEF SaveCheckpoint, AliveRows, Alive
  <2>4. run'[r].goal = g /\ run'[r].status # "interrupted" /\ Touch({r})
    BY <1>t, <1>2, <2>1, <2>2, <2>3 DEF SaveCheckpoint, RunRows
  <2> QED
    BY <2>4, JustTouched
<1>3. ASSUME NEW h \in Goals, NEW r \in Runs, Resume(h, r) PROVE BeingResumed(g)' \/ g \in left'
  <2>1. h = g
    BY <1>t, <1>3 DEF Resume
  <2>2. ResumeMove(g, r)
    BY <1>t, <1>3, <2>1, ResumeMoves
  <2> QED
    BY <2>2 DEF ResumeMove, BeingResumed, Alive
<1>4. ASSUME NEW r \in Runs, TaskStep(r), ~SaveCheckpoint(r), ~\E h \in Goals, s \in PlanStatuses : PlanGoal(r, h, s)
      PROVE  FALSE
  <2>1. goal' = goal \/ goal' = [goal EXCEPT ![task[r].goal] = "paused"]
    BY <1>4 DEF TaskStep, StartTurn, Knock, GiveUpKnocking, Acquire, ClaimCheckpoint, RunStarted,
           ObserveCancel, Final, WaitForApproval, Fail, LinkGoal, LoseLink, Propose, ExecuteOthers,
           QueueContinuation, Release, Settle, Step, CompleteOrigin, Report, FailResume
  <2> QED
    BY <1>t, <2>1
<1>5. ASSUME NEW h \in Goals, Pause(h) \/ CancelGoal(h) PROVE FALSE
  <2>1. goal' = goal \/ goal' = [goal EXCEPT ![h] = "paused"] \/ goal' = [goal EXCEPT ![h] = "cancelled"]
    BY <1>5 DEF Pause, CancelGoal, SetGoal
  <2> QED
    BY <1>t, <2>1
<1>6. goal' # goal
  OBVIOUS
<1>7. EventStep => goal' = goal
  BY <1>t, EventMoves DEF EventMove
<1> QED
  BY <1>1, <1>2, <1>3, <1>4, <1>5, <1>6, <1>7 DEF Next, EventStep, ListCheckpoints, Dispatch, UserStep, CancelRun,
     StopChat, RequestCancel, Crash, Startup, MarkInterrupted, CreateCheckpoints, RecoverAutomatic, MarkUncertain,
     vars

\* A goal that was left stays so.
LEMMA LeftGrows == Typed /\ [Next]_vars => left \subseteq left'
<1> SUFFICES ASSUME Typed, [Next]_vars PROVE left \subseteq left'
  OBVIOUS
<1> USE DEF dbVars, sideVars, leaseVars, serverVars
<1>1. ASSUME NEW r \in Runs, TaskStep(r) PROVE left \subseteq left'
  <2>1. CASE LoseLink(r) \/ Fail(r)
    BY <2>1 DEF LoseLink, Fail
  <2>2. CASE ~LoseLink(r) /\ ~Fail(r)
    <3>1. left' = left
      BY <1>1, <2>2 DEF TaskStep, StartTurn, Knock, GiveUpKnocking, Acquire, ClaimCheckpoint, RunStarted,
             ObserveCancel, Final, WaitForApproval, PlanGoal, LinkGoal, Propose, ExecuteOthers, SaveCheckpoint,
             QueueContinuation, Release, Settle, CompleteOrigin, Report, FailResume
    <3> QED
      BY <3>1
  <2> QED
    BY <2>1, <2>2
<1>2. EventStep => left' = left
  BY EventMoves DEF EventMove, Typed
<1>3. UserStep => left \subseteq left'
  BY DEF UserStep, Pause, CancelGoal, Resume, CancelRun, StopChat
<1>4. Crash \/ Startup \/ UNCHANGED vars \/ ListCheckpoints \/ RequestCancel \/ (\E c, r \in Runs : Dispatch(c, r)) =>
        left' = left
  BY DEF Crash, Startup, MarkInterrupted, CreateCheckpoints, RecoverAutomatic, MarkUncertain, vars,
         ListCheckpoints, RequestCancel, Dispatch
<1> QED
  BY <1>1, <1>2, <1>3, <1>4 DEF Next, EventStep

\* A goal that a run has planned is linked to it, so that it is not stale, or left.
LEMMA PlanKept ==
  ASSUME Typed, Rows, AliveRows, [Next]_vars, Running, NEW x \in Runs, NEW g \in Goals, task[x].plan = g
  PROVE  task'[x] = task[x] \/ ~Stale(g)' \/ g \in left'
<1> USE DEF LoopPcs, dbVars, sideVars, leaseVars, serverVars
<1>t. /\ task \in [Runs -> TaskStates] /\ run \in [Runs -> RunRows] /\ NoGoal \notin Goals
      /\ TypeOK /\ Planning /\ ActionsOwned
  BY WorkAssumption DEF Typed, TypeOK, TaskStates, RunRows
<1>l. task[x].pc = "linking" /\ run[x].status # "interrupted"
  BY <1>t DEF Planning, AliveRows, Alive
<1>1. CASE LinkGoal(x)
  <2>1. run'[x].goal = g /\ run'[x].status = run[x].status /\ Touch({x})
    BY <1>t, <1>1 DEF LinkGoal, RunRows
  <2> QED
    BY <1>l, <2>1, JustTouched
<1>2. CASE LoseLink(x) \/ Fail(x)
  BY <1>2 DEF LoseLink, Fail
<1>3. ASSUME NEW r \in Runs, TaskStep(r), ~LinkGoal(x), ~LoseLink(x), ~Fail(x) PROVE task'[x] = task[x]
  <2>1. CASE x # r
    <3>1. CASE LoopStep(r)
      BY <1>t, <2>1, <3>1, LoopMoves DEF LoopMove
    <3>2. CASE ~LoopStep(r)
      BY <1>3, <1>t, <2>1, <3>2
         DEF TaskStep, LoopStep, StartTurn, Knock, GiveUpKnocking, Acquire, ClaimCheckpoint, ClaimForeground, RunStarted,
             ObserveCancel, Final, WaitForApproval, Fail, SaveCheckpoint, QueueContinuation, Release, Settle,
             CompleteOrigin, Report, FailResume, Step, Return
    <3> QED
      BY <3>1, <3>2
  <2>2. CASE x = r
    BY <1>3, <1>l, <2>2
       DEF TaskStep, StartTurn, Knock, GiveUpKnocking, Acquire, ClaimCheckpoint, RunStarted,
           ObserveCancel, Final, WaitForApproval, PlanGoal, Propose, ExecuteOthers, SaveCheckpoint,
           QueueContinuation, Release, Settle, CompleteOrigin, Report, FailResume, Step, NoTask
  <2> QED
    BY <2>1, <2>2
<1>4. EventStep => task' = task
  BY <1>t, EventMoves DEF EventMove
<1>5. ASSUME NEW c \in Runs, NEW r \in Runs, Dispatch(c, r) PROVE task'[x] = task[x]
  BY <1>t, <1>l, <1>5 DEF Dispatch, NoTask
<1>6. ASSUME NEW h \in Goals, NEW r \in Runs, Resume(h, r) PROVE task'[x] = task[x]
  BY <1>t, <1>l, <1>6, ResumeMoves DEF ResumeMove, NoTask
<1>7. ~Crash /\ ~Startup
  BY DEF Crash, Startup, MarkInterrupted, CreateCheckpoints, RecoverAutomatic, MarkUncertain, Running, Up
<1> QED
  BY <1>1, <1>2, <1>3, <1>4, <1>5, <1>6, <1>7 DEF Next, EventStep, UserStep, Pause, CancelGoal, CancelRun, StopChat,
     ListCheckpoints, RequestCancel, vars

LEMMA CoverStep ==
  Typed /\ Rows /\ Rows' /\ GoalsInv /\ CoverInv /\ [Next]_vars => CoverInv'
<1> SUFFICES ASSUME Typed, Rows, Rows', GoalsInv, CoverInv, [Next]_vars PROVE CoverInv'
  OBVIOUS
<1> USE DEF dbVars, sideVars, leaseVars, serverVars
<1>t. /\ task \in [Runs -> TaskStates] /\ newest \in [Goals -> SUBSET Runs] /\ run \in [Runs -> RunRows]
      /\ ck \in [Runs -> Checkpoints] /\ NoRun \notin Runs /\ NoGoal \notin Goals
      /\ AliveRows /\ GoalOfFrom /\ BegunNotStale /\ DownQuiet
  BY WorkAssumption DEF Typed, TypeOK, TaskStates, RunRows, Checkpoints, Rows, Saved, GoalsInv
<1>m. TasksMove /\ SavedGoals /\ left \subseteq left'
  BY <1>t, TasksMoveStep, SavedGoalsStep, LeftGrows
\* Cover is lost only to a run that has begun for the goal.
<1>c. ASSUME NEW g \in Goals, Covered(g) PROVE Covered(g)' \/ (Running /\ ~Stale(g))
  <2>1. PICK c \in Runs : run[c].goal = g /\ ck[c].status \in {"available", "claimed"}
    BY <1>c DEF Covered, RunsOf
  <2>2. run'[c].goal = g
    BY <1>m, <2>1 DEF SavedGoals
  <2>3. CASE ck'[c].status \in {"available", "claimed"}
    BY <2>2, <2>3 DEF Covered, RunsOf
  <2>4. ASSUME Running, NEW r \in Runs, Begun(r), task[r].from = c PROVE ~Stale(g)
    BY <1>t, <2>1, <2>4 DEF GoalOfFrom, BegunNotStale
  <2> QED
    BY <2>1, <2>3, <2>4, CoverUsed
\* While the server runs.
<1>1. ASSUME Running, NEW g \in Goals \ left', goal'[g] = "active", Stale(g)' PROVE Covered(g)' \/ BeingResumed(g)'
  <2>1. RowsWritten
    BY <1>t, <1>1, RowsWrittenStep
  <2>2. Stale(g)
    BY <1>t, <1>1, <2>1, NoNewStale
  <2>3. CASE goal[g] # "active"
    BY <1>t, <1>1, <2>3, Activated
  <2>4. ASSUME BeingResumed(g) PROVE BeingResumed(g)'
    <3>1. CASE \E x \in Runs : Alive(x) /\ task[x].plan = g
      <4>1. PICK x \in Runs : Alive(x) /\ task[x].plan = g
        BY <3>1
      <4>2. task'[x] = task[x]
        BY <1>t, <1>1, <4>1, PlanKept
      <4> QED
        BY <4>1, <4>2 DEF BeingResumed, Alive
    <3>2. CASE \E x \in Runs : Alive(x) /\ task[x].kind = "resume" /\ task[x].goal = g
      <4>1. PICK x \in Runs : Alive(x) /\ task[x].kind = "resume" /\ task[x].goal = g
        BY <3>2
      <4>2. ~Begun(x)
        BY <1>t, <2>2, <4>1 DEF BegunNotStale
      <4>3. ~Ends(x)
        BY <1>1, <4>1, <4>2, ResumeEnds
      <4>4. CASE Carries(x)
        <5>1. task'[x].goal = g /\ task'[x].kind = "resume" /\ Alive(x)'
          BY <1>t, <4>1, <4>4 DEF Carries, Alive
        <5> QED
          BY <5>1 DEF BeingResumed
      <4>5. CASE task'[x] = task[x]
        BY <4>1, <4>5 DEF BeingResumed, Alive
      <4> QED
        BY <1>m, <4>1, <4>3, <4>4, <4>5 DEF TasksMove, Starts, NoTask, Alive
    <3> QED
      BY <2>4, <3>1, <3>2 DEF BeingResumed
  <2>5. CASE goal[g] = "active"
    BY <1>1, <1>c, <1>m, <2>2, <2>4, <2>5 DEF CoverInv, InterruptedGoalCovered, Running
  <2> QED
    BY <2>3, <2>5
\* When the recovery has requeued runs.
<1>2. ASSUME RecoverAutomatic, NEW g \in Goals, goal'[g] \in {"active", "paused"}, Stale(g)' PROVE Covered(g)'
  <2>1. PICK S \in SUBSET Runs :
          /\ run' = [r \in Runs |-> IF r \in S THEN [run[r] EXCEPT !.status = "queued"] ELSE run[r]]
          /\ Touch(S)
    <3> DEFINE S == {r \in Runs : /\ run[r].status = "interrupted" /\ ~run[r].cancel
                                  /\ ck'[r].status = "available" /\ goal[run[r].goal] = "active"}
    <3>1. S \in SUBSET Runs
      OBVIOUS
    <3> QED
      BY <1>2, <3>1 DEF RecoverAutomatic
  <2>2. RowsWritten
    BY <1>t, <2>1 DEF RowsWritten, RunRows
  <2>3. Stale(g) /\ goal[g] \in {"active", "paused"} /\ stage = "recover"
    BY <1>t, <1>2, <2>2, NoNewStale DEF RecoverAutomatic
  <2> QED
    BY <1>c, <2>3 DEF CoverInv, CoveredAtRecovery, Running, Up
\* When the recovery has made its checkpoints.
<1>3. ASSUME CreateCheckpoints, NEW g \in Goals, goal'[g] \in {"active", "paused"}, Stale(g)' PROVE Covered(g)'
  <2>1. goal' = goal /\ run' = run /\ newest' = newest
    BY <1>3 DEF CreateCheckpoints
  <2>2. Stale(g) /\ ~Running
    BY <1>3, <2>1 DEF Stale, CreateCheckpoints, Running, Up
  <2>3. CASE ~Covered(g)
    <3>1. PICK r \in RunsOf(g) : ck'[r].status = "available"
      BY <1>t, <1>3, <2>1, <2>2, <2>3, MadeForInterrupted
    <3> QED
      BY <2>1, <3>1 DEF Covered, RunsOf
  <2> QED
    BY <1>c, <2>2, <2>3
<1>4. CASE UNCHANGED vars
  BY <1>4 DEF vars, CoverInv, InterruptedGoalCovered, CoveredAtRecovery, Stale, Covered, BeingResumed,
              RunsOf, Alive, Up
<1>5. CASE Crash \/ MarkInterrupted
  BY <1>5 DEF Crash, MarkInterrupted, CoverInv, InterruptedGoalCovered, CoveredAtRecovery, Up
<1>6. CASE Running
  <2>1. stage' \notin {"recover", "actions"}
    BY <1>6 DEF Running, Up
  <2> QED
    BY <1>1, <1>6, <2>1 DEF CoverInv, InterruptedGoalCovered, CoveredAtRecovery
<1>7. CASE RecoverAutomatic
  <2>1. stage' = "actions"
    BY <1>7 DEF RecoverAutomatic
  <2> QED
    BY <1>2, <1>7, <2>1 DEF CoverInv, InterruptedGoalCovered, CoveredAtRecovery, Up
<1>8. CASE CreateCheckpoints
  <2>1. stage' = "recover"
    BY <1>8 DEF CreateCheckpoints
  <2> QED
    BY <1>3, <1>8, <2>1 DEF CoverInv, InterruptedGoalCovered, CoveredAtRecovery, Up
<1>10. CASE MarkUncertain
  <2>1. UNCHANGED <<goal, run, ck, newest>> /\ stage = "actions" /\ stage' = "up"
    BY <1>10 DEF MarkUncertain
  <2>2. \A g \in Goals : goal'[g] \in {"active", "paused"} /\ Stale(g)' => Covered(g)'
    BY <2>1 DEF CoverInv, CoveredAtRecovery, Stale, Covered, RunsOf
  <2> QED
    BY <2>1, <2>2 DEF CoverInv, InterruptedGoalCovered, CoveredAtRecovery
<1>9. Running \/ UNCHANGED vars \/ Crash \/ Startup
  BY Phases
<1> QED
  BY <1>4, <1>5, <1>6, <1>7, <1>8, <1>9, <1>10 DEF Startup

-------------------------------------------------------------------------------
(* Nothing queued is left without somebody to continue it *)

\* The lease names the only task that has the conversation.
LEMMA OwnerStep == Typed /\ Rows /\ OwnerIsHolder /\ [Next]_vars => OwnerIsHolder'
<1> SUFFICES ASSUME Typed, Rows, OwnerIsHolder, [Next]_vars, NEW x \in Runs, task'[x].pc \in LeasePcs
             PROVE  owner' = x
  BY DEF OwnerIsHolder, LeasePcs
<1> USE DEF LoopPcs, dbVars, sideVars, leaseVars, serverVars, LeasePcs
<1>t. /\ task \in [Runs -> TaskStates] /\ NoRun \notin Runs /\ DownQuiet
      /\ TypeOK /\ Planning /\ ActionsOwned
  BY WorkAssumption DEF Typed, TypeOK, TaskStates, Rows, Saved
<1>h. \A y \in Runs : task[y].pc \in LeasePcs => owner = y
  BY DEF OwnerIsHolder
<1>1. CASE \E r \in Runs : TaskStep(r)
  <2> PICK r \in Runs : TaskStep(r)
    BY <1>1
  <2>1. CASE StartTurn(r) \/ Knock(r)
    <3>1. PICK t \in TaskStates : ClaimForeground(r, t)
      BY <1>t, <2>1 DEF StartTurn, Knock
    <3>2. CASE owner' = owner
      <4>1. x # r /\ task'[x] = task[x]
        BY <1>t, <3>1, <3>2 DEF ClaimForeground, TaskStates
      <4> QED
        BY <1>h, <3>2, <4>1
    <3>3. CASE owner = NoRun /\ owner' = r
      <4>1. x # r => task'[x] = task[x]
        BY <1>t, <3>1 DEF ClaimForeground
      <4> QED
        BY <1>h, <1>t, <3>3, <4>1
    <3> QED
      BY <3>1, <3>2, <3>3 DEF ClaimForeground
  <2>2. CASE Acquire(r)
    <3>1. owner = NoRun /\ owner' = r /\ (x # r => task'[x] = task[x])
      BY <1>t, <2>2 DEF Acquire, Step
    <3> QED
      BY <1>h, <1>t, <3>1
  <2>3. CASE Release(r)
    <3>1. owner = r /\ x # r /\ task'[x] = task[x]
      BY <1>t, <1>h, <2>3 DEF Release, Step, TaskStates
    <3> QED
      BY <1>h, <3>1
  <2>4. CASE GiveUpKnocking(r) \/ FailResume(r) \/ Report(r) \/ Settle(r) \/ CompleteOrigin(r)
    <3>1. owner' = owner /\ (x # r => task'[x] = task[x])
      BY <1>t, <2>4 DEF GiveUpKnocking, FailResume, Report, Settle, CompleteOrigin, Step
    <3>2. x # r
      BY <1>t, <2>4, EndedIs DEF GiveUpKnocking, FailResume, Report, Settle, CompleteOrigin, Step, TaskStates
    <3> QED
      BY <1>h, <3>1, <3>2
  <2>5. CASE \/ ClaimCheckpoint(r) \/ RunStarted(r) \/ ObserveCancel(r) \/ Final(r) \/ WaitForApproval(r)
             \/ Fail(r) \/ SaveCheckpoint(r) \/ QueueContinuation(r)
    <3>1. owner' = owner /\ task[r].pc \in LeasePcs
      BY <2>5 DEF ClaimCheckpoint, RunStarted, ObserveCancel, Final, WaitForApproval, Fail, SaveCheckpoint,
                  QueueContinuation, Step
    <3>2. x # r => task'[x] = task[x]
      BY <1>t, <2>5 DEF ClaimCheckpoint, RunStarted, ObserveCancel, Final, WaitForApproval, Fail,
                        SaveCheckpoint, QueueContinuation, Step, Return
    <3> QED
      BY <1>h, <3>1, <3>2
  <2>6. CASE LoopStep(r)
    <3>1. owner' = owner /\ task[r].pc \in LeasePcs /\ (x # r => task'[x] = task[x])
      BY <1>t, <2>6, LoopMoves DEF LoopMove, LoopKeeps
    <3> QED
      BY <1>h, <3>1
  <2> QED
    BY <2>1, <2>2, <2>3, <2>4, <2>5, <2>6 DEF TaskStep, LoopStep
<1>2. CASE ListCheckpoints \/ RequestCancel \/ Startup \/ UNCHANGED vars
  BY <1>h, <1>2 DEF ListCheckpoints, RequestCancel, Startup, MarkInterrupted, CreateCheckpoints,
                    RecoverAutomatic, MarkUncertain, vars
<1>3. ASSUME NEW c \in Runs, NEW r \in Runs, Dispatch(c, r) PROVE owner' = x
  <2>1. CASE UNCHANGED <<owner, task>>
    BY <1>h, <2>1
  <2>2. CASE owner = NoRun /\ owner' = r /\ (x # r => task'[x] = task[x])
    BY <1>h, <1>t, <2>2
  <2> QED
    BY <1>t, <1>3, <2>1, <2>2 DEF Dispatch
<1>4. CASE UserStep
  <2>1. ASSUME NEW g \in Goals, NEW r \in Runs, Resume(g, r) PROVE owner' = owner /\ task'[x] = task[x]
    BY ZenonT(60), <1>t, <2>1, ResumeMoves DEF Resume, ResumeMove
  <2>2. owner' = owner /\ task'[x] = task[x]
    BY <1>4, <2>1 DEF UserStep, Pause, CancelGoal, CancelRun, StopChat
  <2> QED
    BY <1>h, <2>2
<1>5. CASE Crash
  BY <1>t, <1>5, EndedIs DEF Crash, Alive
<1>6. CASE EventStep
  BY <1>t, <1>h, <1>6, EventMoves DEF EventMove
<1> QED
  BY <1>1, <1>2, <1>3, <1>4, <1>5, <1>6 DEF Next, EventStep

\* Until the first crash the server runs, and it runs on unless it crashes now.
LEMMA CalmSteps ==
  ASSUME Typed, NoCrash, [Next]_vars, crashes' = 0
  PROVE  crashes = 0 /\ (Running \/ UNCHANGED vars)
<1>t. crashes \in Nat
  BY DEF Typed, TypeOK
<1>1. ~Crash
  BY <1>t DEF Crash
<1>2. Startup => ~Up /\ crashes' = crashes
  BY DEF Startup, MarkInterrupted, CreateCheckpoints, RecoverAutomatic, MarkUncertain, Up, serverVars
<1>3. CASE Running
  <2>1. crashes' = crashes
    <3>1. EventStep => crashes' = crashes
      BY EventMoves DEF EventMove, Typed
    <3> QED
      BY ZenonT(60), <1>1, <1>2, <3>1 DEF Next, EventStep, TaskStep, StartTurn, Knock, GiveUpKnocking, Acquire,
           ClaimCheckpoint, RunStarted, ObserveCancel, Final, WaitForApproval, Fail, PlanGoal, LinkGoal, LoseLink,
           Propose, ExecuteOthers, SaveCheckpoint, QueueContinuation, Release, Settle,
           CompleteOrigin, Report, FailResume, ListCheckpoints, Dispatch, UserStep, Pause, CancelGoal, Resume,
           CancelRun, StopChat, RequestCancel, serverVars, vars
  <2> QED
    BY <1>3, <2>1
<1>4. CASE UNCHANGED vars
  BY <1>4 DEF vars, serverVars
<1> QED
  BY <1>1, <1>2, <1>3, <1>4, Phases DEF NoCrash

\* A task comes to wait for its row to be queued by saving its checkpoint, it
\* leaves the row it continues only when it has completed that, and it proposes
\* actions from the loop until it waits, is stopped or fails.
LEMMA PcMoves ==
  ASSUME Typed, [Next]_vars, Running, NEW x \in Runs
  PROVE  /\ task'[x].pc = "deferring" => task[x].pc = "deferring" \/ SaveCheckpoint(x)
         /\ task[x].pc = "completing" => task'[x] = task[x] \/ CompleteOrigin(x)
         /\ Proposing(x)' => Proposing(x) \/ LoopStep(x)
         /\ Proposing(x) => Proposing(x)' \/ WaitForApproval(x) \/ ObserveCancel(x) \/ Fail(x)
<1> DEFINE Goal == /\ task'[x].pc = "deferring" => task[x].pc = "deferring" \/ SaveCheckpoint(x)
                   /\ task[x].pc = "completing" => task'[x] = task[x] \/ CompleteOrigin(x)
                   /\ Proposing(x)' => Proposing(x) \/ LoopStep(x)
                   /\ Proposing(x) => Proposing(x)' \/ WaitForApproval(x) \/ ObserveCancel(x) \/ Fail(x)
<1> USE DEF Proposing, LoopPcs, dbVars, sideVars, leaseVars, serverVars
<1>t. task \in [Runs -> TaskStates] /\ TypeOK /\ Planning /\ ActionsOwned
  BY DEF Typed, TypeOK, TaskStates
<1>s. task'[x] = task[x] => Goal
  OBVIOUS
<1>1. CASE \E r \in Runs : TaskStep(r)
  <2> PICK r \in Runs : TaskStep(r)
    BY <1>1
  <2>1. CASE StartTurn(r) \/ Knock(r)
    <3>1. ClaimForeground(r, task[r]) /\ task[r].pc \in {"idle", "knocking"}
      BY <2>1 DEF StartTurn, Knock, NoTask
    <3>2. x # r => task'[x] = task[x]
      BY <1>t, <3>1 DEF ClaimForeground
    <3>3. task'[r].pc \in {"claiming", "waiting"}
      BY <1>t, <3>1 DEF ClaimForeground, TaskStates
    <3> QED
      BY <1>s, <3>1, <3>2, <3>3
  <2>2. CASE GiveUpKnocking(r) \/ FailResume(r) \/ Report(r) \/ Settle(r)
    <3>1. x # r => task'[x] = task[x]
      BY <1>t, <2>2 DEF GiveUpKnocking, FailResume, Report, Settle, Step
    <3>2. task[r].pc \notin {"completing", "asking", "executing"}
      BY <2>2 DEF GiveUpKnocking, FailResume, Report, Settle, Step
    <3>3. task'[r].pc \notin {"deferring", "asking", "executing"}
      BY <1>t, <2>2, EndedIs DEF GiveUpKnocking, FailResume, Report, Settle, Step, TaskStates
    <3> QED
      BY <1>s, <3>1, <3>2, <3>3
  <2>3. CASE Acquire(r) \/ ClaimCheckpoint(r) \/ Release(r)
    BY <1>s, <1>t, <2>3 DEF Acquire, ClaimCheckpoint, Release, Step, Return, TaskStates
  <2>4. CASE RunStarted(r)
    <3>1. PICK b \in BOOLEAN : task' = [task EXCEPT ![r].pc = "loop", ![r].open = b]
      BY <2>4 DEF RunStarted
    <3>2. task'[r].pc = "loop" /\ task[r].pc = "starting" /\ (x # r => task'[x] = task[x])
      BY <1>t, <2>4, <3>1 DEF RunStarted, TaskStates
    <3> QED
      BY <1>s, <3>2
  <2>5. CASE ObserveCancel(r) \/ WaitForApproval(r) \/ QueueContinuation(r) \/ Final(r) \/ Fail(r)
    <3>1. CASE x = r
      BY <1>t, <2>5, <3>1
         DEF ObserveCancel, WaitForApproval, QueueContinuation, Final, Fail, Return, TaskStates
    <3>2. CASE x # r
      BY <1>s, <1>t, <2>5, <3>2 DEF ObserveCancel, WaitForApproval, QueueContinuation, Final, Fail, Return
    <3> QED
      BY <3>1, <3>2
  <2>6. CASE LoopStep(r)
    BY <1>s, <1>t, <2>6, LoopMoves DEF LoopMove
  <2>7. CASE SaveCheckpoint(r)
    <3>1. task[r].pc = "loop" /\ task'[r].pc = "deferring" /\ (x # r => task'[x] = task[x])
      <4>1. PICK g \in Goals : task' = [task EXCEPT ![r].pc = "deferring", ![r].goal = g]
        BY <2>7 DEF SaveCheckpoint
      <4> QED
        BY <1>t, <2>7, <4>1 DEF SaveCheckpoint, TaskStates
    <3> QED
      BY <1>s, <2>7, <3>1
  <2>8. CASE CompleteOrigin(r)
    BY <1>s, <1>t, <2>8 DEF CompleteOrigin, Step, TaskStates
  <2> QED
    BY <2>1, <2>2, <2>3, <2>4, <2>5, <2>6, <2>7, <2>8 DEF TaskStep, LoopStep
<1>2. CASE ListCheckpoints \/ RequestCancel \/ Startup \/ UNCHANGED vars
  BY <1>s, <1>2 DEF ListCheckpoints, RequestCancel, Startup, MarkInterrupted, CreateCheckpoints,
                    RecoverAutomatic, MarkUncertain, vars
<1>3. ASSUME NEW d \in Runs, NEW r \in Runs, Dispatch(d, r) PROVE Goal
  <2>1. task'[x] = task[x] \/ (task[x].pc = "idle" /\ task'[x].pc = "claiming")
    BY <1>t, <1>3 DEF Dispatch, NoTask
  <2> QED
    BY <1>s, <2>1
<1>4. CASE UserStep
  <2>1. ASSUME NEW g \in Goals, NEW r \in Runs, Resume(g, r) PROVE Goal
    BY <1>s, <1>t, <2>1, ResumeMoves DEF ResumeMove, NoTask
  <2> QED
    BY <1>s, <1>4, <2>1 DEF UserStep, Pause, CancelGoal, CancelRun, StopChat
<1>5. CASE Crash
  BY <1>5 DEF Crash, Running, Up
<1>6. CASE EventStep
  BY <1>s, <1>t, <1>6, EventMoves DEF EventMove
<1> QED
  BY <1>1, <1>2, <1>3, <1>4, <1>5, <1>6 DEF Next, EventStep

-------------------------------------------------------------------------------
(* A row waits while there is a decision to make *)

\* Who writes a row: its own run, the run that continues it, the user, or an event.
LEMMA RowMoves ==
  ASSUME Typed, [Next]_vars, Running, NEW x \in Runs
  PROVE  \/ run'[x].status = run[x].status /\ (run[x].cancel => run'[x].cancel)
         \/ RunStarted(x) \/ ObserveCancel(x) \/ WaitForApproval(x) \/ QueueContinuation(x) \/ Report(x)
         \/ LoopStep(x)
         \/ /\ \E r \in Runs : task[r].from = x
            /\ run'[x].status \in {"cancelled", "completed"}
         \/ CancelRun(x)
         \/ \E a \in Actions : DecisionStep(a) /\ act[a].run = x
         \/ Watchdog(x)
<1> DEFINE Goal ==
         \/ run'[x].status = run[x].status /\ (run[x].cancel => run'[x].cancel)
         \/ RunStarted(x) \/ ObserveCancel(x) \/ WaitForApproval(x) \/ QueueContinuation(x) \/ Report(x)
         \/ LoopStep(x)
         \/ /\ \E r \in Runs : task[r].from = x
            /\ run'[x].status \in {"cancelled", "completed"}
         \/ CancelRun(x)
         \/ \E a \in Actions : DecisionStep(a) /\ act[a].run = x
         \/ Watchdog(x)
<1> USE DEF dbVars, sideVars, leaseVars, serverVars
<1>t. /\ run \in [Runs -> RunRows] /\ task \in [Runs -> TaskStates] /\ NoRun \notin Runs /\ CompletingFrom
      /\ TypeOK /\ Planning /\ ActionsOwned
  BY WorkAssumption DEF Typed, TypeOK, RunRows, TaskStates
<1>k. run'[x] = run[x] => Goal
  OBVIOUS
\* Another row is written.
<1>u. ASSUME NEW r \in Runs, NEW s, UpdateRun(r, s), x # r PROVE Goal
  BY <1>k, <1>t, <1>u DEF UpdateRun
<1>1. CASE \E r \in Runs : TaskStep(r)
  <2> PICK r \in Runs : TaskStep(r)
    BY <1>1
  <2>1. CASE \/ StartTurn(r) \/ Knock(r) \/ GiveUpKnocking(r) \/ Acquire(r) \/ ClaimCheckpoint(r)
             \/ Final(r) \/ Fail(r) \/ Settle(r) \/ FailResume(r)
    BY <1>k, <2>1
       DEF StartTurn, Knock, GiveUpKnocking, Acquire, ClaimCheckpoint, Final, Fail, Settle, FailResume
  <2>2. CASE RunStarted(r)
    BY <1>k, <1>t, <2>2 DEF RunStarted
  <2>3. CASE ObserveCancel(r) \/ WaitForApproval(r) \/ QueueContinuation(r)
    BY <1>u, <2>3 DEF ObserveCancel, WaitForApproval, QueueContinuation
  <2>4. CASE LoopStep(r)
    BY <1>k, <1>t, <2>4, LoopMoves DEF LoopMove
  <2>5. CASE SaveCheckpoint(r)
    <3>1. PICK g \in Goals : run' = [run EXCEPT ![r].goal = g]
      BY <2>5 DEF SaveCheckpoint
    <3> QED
      BY <1>t, <3>1 DEF RunRows
  <2>6. CASE Release(r) \/ CompleteOrigin(r)
    <3>1. \/ UNCHANGED run
          \/ /\ task[r].from # NoRun
             /\ UpdateRun(task[r].from, "cancelled") \/ UpdateRun(task[r].from, "completed")
      BY <1>t, <2>6 DEF Release, CompleteOrigin, Step, CompletingFrom
    <3>2. task[r].from \in Runs \union {NoRun}
      BY <1>t, <2>6 DEF TaskStates
    <3>3. CASE task[r].from = x /\ run' # run
      <4>1. run'[x].status \in {"cancelled", "completed"}
        BY <1>t, <3>1, <3>3 DEF UpdateRun, RunRows
      <4> QED
        BY <3>3, <4>1
    <3> QED
      BY <1>k, <1>u, <3>1, <3>2, <3>3
  <2>7. CASE Report(r)
    BY <1>k, <1>u, <2>7 DEF Report
  <2> QED
    BY <2>1, <2>2, <2>3, <2>4, <2>5, <2>6, <2>7 DEF TaskStep, LoopStep
<1>2. CASE ListCheckpoints \/ RequestCancel \/ UNCHANGED vars \/ \E d, r \in Runs : Dispatch(d, r)
  BY <1>k, <1>2 DEF ListCheckpoints, RequestCancel, vars, Dispatch
<1>3. CASE UserStep
  <2>1. ASSUME NEW g \in Goals, Pause(g) \/ CancelGoal(g) PROVE Goal
    BY <1>t, <2>1 DEF Pause, CancelGoal, SetGoal, StopRunsOf, RunRows
  <2>2. ASSUME NEW r \in Runs, CancelRun(r) PROVE Goal
    <3>1. x # r => run'[x] = run[x]
      BY <1>t, <2>2 DEF CancelRun
    <3> QED
      BY <1>k, <2>2, <3>1
  <2>3. CASE StopChat \/ \E g \in Goals, r \in Runs : Resume(g, r)
    BY <1>k, <2>3 DEF StopChat, Resume
  <2> QED
    BY <1>3, <2>1, <2>2, <2>3 DEF UserStep
<1>4. CASE Crash \/ Startup
  BY <1>4 DEF Crash, Startup, MarkInterrupted, CreateCheckpoints, RecoverAutomatic, MarkUncertain, Running, Up
<1>5. ASSUME NEW a \in Actions, DecisionStep(a) PROVE Goal
  <2>1. CASE act[a].run = x
    BY <1>5, <2>1
  <2>2. CASE act[a].run # x
    <3>1. run' = run \/ (act[a].run \in Runs /\ \E s : UpdateRun(act[a].run, s))
      BY <1>t, <1>5 DEF DecisionStep, ClaimAction, ToolStarted, ResolveAction, ToolFinished, ResolveQuietly,
                        ReadBatch, ActionResolved, AbandonAction, Decider, ActionsOwned
    <3> QED
      BY <1>k, <1>u, <2>2, <3>1
  <2> QED
    BY <2>1, <2>2
<1>6. ASSUME NEW r \in Runs, Watchdog(r) PROVE Goal
  BY <1>u, <1>6 DEF Watchdog
<1> QED
  BY <1>1, <1>2, <1>3, <1>4, <1>5, <1>6 DEF Next

\* A batch that is not resolved leaves a reason to wait.
LEMMA Reopened ==
  ASSUME Typed, ActionsOrdered, NoneLost, crashes = 0, NEW x \in Runs,
         NEW a \in Actions, request[a] = "reopening", ActionResolved(a), act[a].run = x
  PROVE  Reason(x)'
<1>t. /\ act \in [Actions -> ActionRows] /\ request \in [Actions -> Requests] /\ ActionsOwned
      /\ \A b \in Actions : Requested(b) /\ request[b] # "lost"
  BY DEF Typed, TypeOK, ActionRows, ActionsOrdered, NoneLost
<1>1. act' = act /\ \A b \in Actions \ {a} : request'[b] = request[b]
  BY <1>t DEF ActionResolved, Decider
<1>2. CASE BatchResolved(x)
  <2>1. request'[a] \in {"early", "crossed"}
    BY <1>t, <1>2 DEF ActionResolved, Decider
  <2> QED
    BY <1>1, <2>1 DEF Reason
<1>3. CASE ~BatchResolved(x)
  <2>1. PICK b \in Actions : act[b].run = x /\ act[b].status \in {"pending", "executing"}
    BY <1>3 DEF BatchResolved
  <2>2. act[b].status = "pending" \/ request[b] \in AtWork \union {"abandoned"}
    BY <1>t, <2>1 DEF Requested, AtWork
  <2>3. b # a
    BY <1>t, <2>1 DEF Requested
  <2> QED
    BY <1>1, <2>1, <2>2, <2>3 DEF Reason
<1> QED
  BY <1>2, <1>3

\* A run that has asked waits for something, unless it is to stop.
LEMMA AskedReason ==
  ASSUME Typed, ActionsOrdered, NoneLost, crashes = 0, NEW x \in Runs, Asked(x)
  PROVE  Reason(x) \/ run[x].cancel
<1>t. /\ act \in [Actions -> ActionRows] /\ request \in [Actions -> Requests]
      /\ \A b \in Actions : Requested(b) /\ request[b] # "lost"
  BY DEF Typed, TypeOK, ActionRows, ActionsOrdered, NoneLost
<1>1. PICK a \in Actions : act[a].status # "none" /\ act[a].run = x
  BY DEF Asked
<1>2. /\ request[a] \notin {"over", "crossed"}
      /\ act[a].status = "settled" /\ request[a] = "none" => run[x].cancel \/ DecidedEarly(x)
  BY <1>1 DEF Asked
<1>3. \/ act[a].status = "pending" \/ request[a] \in AtWork \union {"early", "abandoned"}
      \/ run[x].cancel \/ DecidedEarly(x)
  BY <1>t, <1>1, <1>2 DEF Requested, AtWork, Requests
<1> QED
  BY <1>1, <1>3 DEF Reason, DecidedEarly

\* What a row waits for is there until an event writes the row, or a stop.
LEMMA ReasonKept ==
  ASSUME Typed, ActionsOrdered, NoneLost, crashes = 0, ActionsMove, Running, NEW x \in Runs, Reason(x),
         run'[x].status = "waiting_for_approval"
  PROVE  Reason(x)' \/ run'[x].cancel
<1>t. act \in [Actions -> ActionRows] /\ run \in [Runs -> RunRows] /\ TypeOK /\ ActionsOwned
  BY DEF Typed, TypeOK, ActionRows, RunRows
<1>1. PICK a \in Actions : /\ act[a].run = x
                           /\ \/ act[a].status = "pending"
                              \/ request[a] \in AtWork \union {"early", "crossed", "abandoned"}
  BY DEF Reason
<1>2. act[a].status # "none" /\ act'[a].run = x
  <2>1. act[a].status # "none"
    BY <1>t, <1>1 DEF ActionsOwned, AtWork
  <2> QED
    BY <1>t, <1>1, <2>1, ActionOwner
<1>3. CASE act'[a] = act[a] /\ request'[a] = request[a]
  BY <1>1, <1>3 DEF Reason
<1>4. CASE Rejected(a)
  BY <1>1, <1>4 DEF Rejected, Live
<1>5. CASE DecisionStep(a) /\ Decided(a)
  <2>1. request'[a] \in AtWork \union {"early", "crossed", "abandoned", "over"}
    BY <1>1, <1>5 DEF Decided, AtWork
  <2>2. CASE request'[a] = "over"
    <3>1. ActionResolved(a)
      BY <1>5, <2>2 DEF DecisionStep, ClaimAction, ToolStarted, ResolveAction, ToolFinished, ResolveQuietly,
                        ReadBatch, AbandonAction, Decider, TypeOK, Typed
    <3>2. UpdateRun(x, "completed") => run'[x].status = "completed"
      BY <1>t DEF UpdateRun, RunRows
    <3>3. request[a] = "reopening"
      BY <1>1, <3>1, <3>2 DEF ActionResolved, Decider
    <3> QED
      BY <1>1, <3>1, <3>3, Reopened
  <2> QED
    BY <1>2, <2>1, <2>2 DEF Reason
<1>6. ~Proposed(a) /\ ~Lost(a) /\ ~Doubted(a)
  BY <1>2 DEF Proposed, Lost, Doubted, Crash, Running, Up
<1> QED
  BY <1>3, <1>4, <1>5, <1>6 DEF ActionsMove

LEMMA WaitingStep ==
  Typed /\ Rows /\ NoCrash /\ WaitingHasReason /\ ProposalsAsked /\ NoneLost /\ [Next]_vars => WaitingHasReason'
<1> SUFFICES ASSUME Typed, Rows, NoCrash, WaitingHasReason, ProposalsAsked, NoneLost, [Next]_vars, crashes' = 0,
                    NEW x \in Runs, run'[x].status = "waiting_for_approval", ~Proposing(x)', ~run'[x].cancel
             PROVE  Reason(x)'
  BY DEF WaitingHasReason
<1> USE DEF dbVars, sideVars, leaseVars, serverVars
<1>t. /\ run \in [Runs -> RunRows] /\ task \in [Runs -> TaskStates] /\ TypeOK /\ ActionsOrdered /\ ActionsMove
  BY ActionsMoveStep DEF Typed, TypeOK, RunRows, TaskStates, Rows
<1>c. crashes = 0 /\ (Running \/ UNCHANGED vars)
  BY CalmSteps
<1>1. CASE UNCHANGED vars
  BY <1>1, <1>c DEF vars, WaitingHasReason, Proposing, Reason
<1>2. CASE Running
  <2>1. CASE WaitForApproval(x) \/ ObserveCancel(x) \/ Fail(x)
    <3>1. task[x].pc \in {"executing"} \/ Fail(x) \/ ObserveCancel(x)
      BY <2>1 DEF WaitForApproval
    <3>2. CASE Proposing(x)
      <4>1. Asked(x)
        BY <1>c, <3>2 DEF ProposalsAsked
      <4>2. run'[x].cancel = run[x].cancel
        BY <1>t, <2>1 DEF WaitForApproval, ObserveCancel, Fail, UpdateRun, RunRows
      <4>3. Reason(x)
        BY <1>c, <1>t, <4>1, <4>2, AskedReason
      <4> QED
        BY <1>c, <1>t, <1>2, <4>3, ReasonKept
    <3>3. CASE ~Proposing(x)
      <4>1. run'[x] = run[x]
        BY <1>t, <2>1, <3>3 DEF WaitForApproval, ObserveCancel, Fail, UpdateRun, RunRows, Proposing
      <4>2. Reason(x)
        BY <1>c, <3>3, <4>1 DEF WaitingHasReason
      <4> QED
        BY <1>c, <1>t, <1>2, <4>2, ReasonKept
    <3> QED
      BY <3>2, <3>3
  <2>2. CASE ~WaitForApproval(x) /\ ~ObserveCancel(x) /\ ~Fail(x)
    <3>1. ~Proposing(x)
      BY <1>2, <2>2, PcMoves
    <3>2. CASE run'[x].status = run[x].status /\ (run[x].cancel => run'[x].cancel)
      <4>1. Reason(x)
        BY <1>c, <3>1, <3>2 DEF WaitingHasReason
      <4> QED
        BY <1>c, <1>t, <1>2, <4>1, ReasonKept
    <3>3. CASE LoopStep(x)
      <4>1. ~(\E a \in Actions : Propose(x, a)) /\ ~ExecuteOthers(x)
        <5>1. task' = [task EXCEPT ![x].pc = "asking"] \/ task' = [task EXCEPT ![x].pc = "executing"] => Proposing(x)'
          BY <1>t DEF Proposing, TaskStates
        <5> QED
          BY <5>1 DEF Propose, ExecuteOthers
      <4>2. run'[x].status = run[x].status /\ run'[x].cancel = run[x].cancel
        BY <1>t, <3>3, <4>1 DEF LoopStep, PlanGoal, LinkGoal, LoseLink, RunRows
      <4> QED
        BY <3>2, <4>2
    <3>4. ~RunStarted(x) /\ ~QueueContinuation(x) /\ ~CancelRun(x) /\ ~Watchdog(x)
      BY <1>t DEF RunStarted, QueueContinuation, CancelRun, Watchdog, UpdateRun, RunRows
    <3>5. CASE Report(x)
      <4>1. run'[x] = run[x]
        BY <1>t, <3>5 DEF Report, UpdateRun, RunRows
      <4> QED
        BY <3>2, <4>1
    <3>6. ASSUME NEW a \in Actions, DecisionStep(a), act[a].run = x PROVE Reason(x)'
      <4>1. CASE run'[x] = run[x]
        BY <3>2, <4>1
      <4>2. CASE run'[x] # run[x]
        <5>1. ActionResolved(a) /\ request[a] = "reopening"
          BY <1>t, <3>6, <4>2 DEF DecisionStep, ClaimAction, ToolStarted, ResolveAction, ToolFinished, ResolveQuietly,
             ReadBatch, ActionResolved, AbandonAction, Decider, UpdateRun, RunRows
        <5> QED
          BY <1>c, <1>t, <3>6, <5>1, Reopened
      <4> QED
        BY <4>1, <4>2
    <3> QED
      BY <1>2, <2>2, <3>2, <3>3, <3>4, <3>5, <3>6, RowMoves
  <2> QED
    BY <2>1, <2>2
<1> QED
  BY <1>c, <1>1, <1>2

\* While a run proposes its batch no decision is over.
LEMMA AskedStep ==
  Typed /\ Rows /\ NoCrash /\ ProposalsAsked /\ [Next]_vars => ProposalsAsked'
<1> SUFFICES ASSUME Typed, Rows, NoCrash, ProposalsAsked, [Next]_vars, crashes' = 0,
                    NEW x \in Runs, Proposing(x)'
             PROVE  Asked(x)'
  BY DEF ProposalsAsked
<1> USE DEF dbVars, sideVars, leaseVars, serverVars
<1>t. /\ run \in [Runs -> RunRows] /\ task \in [Runs -> TaskStates] /\ act \in [Actions -> ActionRows]
      /\ TypeOK /\ Planning /\ ActionsOwned /\ ActionsOrdered /\ ActionsMove /\ Unsaved /\ FromSaved
      /\ NoRun \notin Runs
  BY WorkAssumption, ActionsMoveStep DEF Typed, TypeOK, RunRows, TaskStates, ActionRows, Rows, Saved
<1>c. crashes = 0 /\ (Running \/ UNCHANGED vars)
  BY CalmSteps
<1>1. CASE UNCHANGED vars
  BY <1>1, <1>c DEF vars, ProposalsAsked, Proposing, Asked, DecidedEarly
\* The first action of the batch.
<1>2. CASE Running /\ ~Proposing(x)
  <2>1. LoopStep(x) /\ task[x].pc \in {"loop", "linking"}
    BY <1>t, <1>2, PcMoves, LoopMoves DEF LoopMove, LoopPcs, Proposing
  <2>2. PICK a \in Actions : Propose(x, a)
    <3>2. ~ExecuteOthers(x)
      BY <2>1 DEF ExecuteOthers
    <3>3. ~LinkGoal(x) /\ ~LoseLink(x)
      BY <1>t DEF LinkGoal, LoseLink, Proposing, TaskStates
    <3>4. ~\E g \in Goals, st \in PlanStatuses : PlanGoal(x, g, st)
      BY <1>t DEF PlanGoal, Proposing, TaskStates
    <3> QED
      BY <2>1, <3>2, <3>3, <3>4 DEF LoopStep
  <2>3. /\ act'[a] = [status |-> "pending", run |-> x] /\ request' = request
        /\ \A b \in Actions \ {a} : act'[b] = act[b]
    BY <1>t, <2>2 DEF Propose
  <2>4. \A b \in Actions : act[b].status # "none" => act[b].run # x
    BY <1>t, <2>1 DEF ActionsOrdered
  <2>5. run'[x].status = "waiting_for_approval" /\ request[a] = "none"
    BY <1>t, <2>2 DEF Propose, UpdateRun, RunRows, ActionsOwned
  <2> QED
    BY <2>3, <2>4, <2>5 DEF Asked
\* The batch goes on.
<1>3. CASE Running /\ Proposing(x)
  <2>a. Asked(x)
    BY <1>c, <1>3 DEF ProposalsAsked
  <2>o. ck[x].status = "none"
    BY <1>t, <1>3 DEF Unsaved, Proposing, LoopPcs
  <2>e. DecidedEarly(x) => DecidedEarly(x)'
    <3>1. ASSUME NEW a \in Actions, act[a].run = x, request[a] = "early" PROVE act'[a].run = x /\ request'[a] = "early"
      <4>1. act[a].status # "none"
        BY <1>t, <3>1 DEF ActionsOwned
      <4>2. act'[a].run = x
        BY <1>t, <3>1, <4>1, ActionOwner
      <4>3. request'[a] = "early"
        BY <1>t, <1>3, <3>1, <4>1 DEF ActionsMove, Proposed, Rejected, Decided, Lost, Doubted, AtWork
      <4> QED
        BY <4>2, <4>3
    <3> QED
      BY <3>1 DEF DecidedEarly
  \* Who writes the row.
  <2>r. run[x].cancel \/ DecidedEarly(x) => run'[x].cancel \/ DecidedEarly(x)'
    <3>1. CASE run[x].cancel
      <4>1. ~RunStarted(x) /\ ~QueueContinuation(x) /\ ~Report(x)
        BY <1>3 DEF RunStarted, QueueContinuation, Report, Proposing
      <4>2. UpdateRun(x, "cancelled") \/ UpdateRun(x, "waiting_for_approval") \/ UpdateRun(x, "failed")
              \/ UpdateRun(x, "completed") \/ UpdateRun(x, "running") => run'[x].cancel = run[x].cancel
        BY <1>t DEF UpdateRun, RunRows
      <4>3. LoopStep(x) => run'[x].cancel = run[x].cancel
        BY <1>t, LoopMoves DEF LoopMove
      <4>4. ~\E r \in Runs : task[r].from = x
        BY <1>t, <2>o DEF FromSaved
      <4>5. CancelRun(x) => run'[x].cancel
        BY <1>t DEF CancelRun, RunRows
      <4>6. ASSUME NEW a \in Actions, DecisionStep(a), act[a].run = x PROVE run'[x].cancel
        <5>1. \/ run' = run \/ UpdateRun(x, "running") \/ UpdateRun(x, "completed")
              \/ UpdateRun(x, "waiting_for_approval")
          BY <4>6 DEF DecisionStep, ClaimAction, ToolStarted, ResolveAction, ToolFinished, ResolveQuietly,
             ReadBatch, ActionResolved, AbandonAction
        <5> QED
          BY <3>1, <4>2, <5>1
      <4> QED
        BY <1>3, <3>1, <4>1, <4>2, <4>3, <4>4, <4>5, <4>6, RowMoves DEF ObserveCancel, WaitForApproval, Watchdog
    <3> QED
      BY <2>e, <3>1
  <2>1. \E a \in Actions : act'[a].status # "none" /\ act'[a].run = x
    BY <1>t, <2>a, ActionOwner DEF Asked
  <2>2. run'[x].status \in {"running", "waiting_for_approval"} \/ run'[x].cancel \/ DecidedEarly(x)'
    <3> DEFINE Goal == run'[x].status \in {"running", "waiting_for_approval"} \/ run'[x].cancel \/ DecidedEarly(x)'
    <3>1. run'[x].status = run[x].status => Goal
      BY <2>a, <2>r DEF Asked
    <3>2. ~RunStarted(x) /\ ~QueueContinuation(x) /\ ~Report(x) /\ ~Watchdog(x)
      BY <1>3 DEF RunStarted, QueueContinuation, Report, Watchdog, Alive, Proposing
    <3>3. ~ObserveCancel(x) /\ ~WaitForApproval(x)
      BY <1>t DEF ObserveCancel, WaitForApproval, Return, Proposing, TaskStates
    <3>4. LoopStep(x) => Goal
      BY <1>t, <3>1, LoopMoves DEF LoopMove
    <3>5. ~\E r \in Runs : task[r].from = x
      BY <1>t, <2>o DEF FromSaved
    <3>6. CancelRun(x) => Goal
      BY <1>t DEF CancelRun, RunRows
    <3>7. ASSUME NEW a \in Actions, DecisionStep(a), act[a].run = x PROVE Goal
      <4>1. CASE ActionResolved(a)
        <5>1. request'[a] = "early" /\ act' = act
          BY <1>t, <1>3, <3>7, <4>1 DEF ActionResolved, Decider, Proposing, TypeOK
        <5> QED
          BY <3>7, <5>1 DEF DecidedEarly
      <4>2. CASE ToolStarted(a) \/ ToolFinished(a)
        BY <1>t, <3>7, <4>2 DEF ToolStarted, ToolFinished, UpdateRun, RunRows
      <4>3. CASE run' = run
        BY <3>1, <4>3
      <4> QED
        BY <3>7, <4>1, <4>2, <4>3 DEF DecisionStep, ClaimAction, ResolveAction, ResolveQuietly, ReadBatch, AbandonAction
    <3> QED
      BY <1>3, <3>1, <3>2, <3>3, <3>4, <3>5, <3>6, <3>7, RowMoves
  <2>3. ASSUME NEW a \in Actions, act'[a].status # "none", act'[a].run = x
        PROVE  /\ request'[a] \notin {"over", "crossed"}
               /\ act'[a].status = "settled" /\ request'[a] = "none" => run'[x].cancel \/ DecidedEarly(x)'
    <3>1. CASE act[a].status = "none"
      <4>1. Proposed(a)
        BY <1>t, <1>3, <2>3, <3>1 DEF ActionsMove, Rejected, Decided, Lost, Doubted, ActionsOwned, AtWork
      <4>2. request'[a] = "none" /\ act'[a].status = "pending"
        BY <1>t, <3>1, <4>1 DEF Proposed, ActionsOwned
      <4> QED
        BY <4>2
    <3>2. CASE act[a].status # "none"
      <4>1. act[a].run = x
        BY <1>t, <2>3, <3>2, ActionOwner
      <4>2. /\ request[a] \notin {"over", "crossed"}
            /\ act[a].status = "settled" /\ request[a] = "none" => run[x].cancel \/ DecidedEarly(x)
        BY <2>a, <3>2, <4>1 DEF Asked
      <4>3. CASE act'[a] = act[a] /\ request'[a] = request[a]
        BY <2>r, <4>2, <4>3
      <4>4. CASE Rejected(a)
        <5>1. run'[x].cancel \/ (run[x].status \notin Live)
          BY <4>1, <4>4 DEF Rejected
        <5>2. run'[x].cancel \/ DecidedEarly(x)'
          BY <2>a, <2>r, <5>1 DEF Asked, Live
        <5> QED
          BY <4>2, <4>4, <5>2 DEF Rejected
      <4>5. CASE DecisionStep(a) /\ Decided(a)
        <5>1. ActionResolved(a) => request'[a] = "early"
          BY <1>t, <1>3, <4>1 DEF ActionResolved, Decider, Proposing, TypeOK
        <5>2. ~ActionResolved(a) => request'[a] \in AtWork \union {"abandoned"}
          BY <1>t, <4>5 DEF DecisionStep, ClaimAction, ToolStarted, ResolveAction, ToolFinished, ResolveQuietly,
             ReadBatch, AbandonAction, Decider, TypeOK, AtWork
        <5> QED
          BY <5>1, <5>2 DEF AtWork
      <4>6. ~Proposed(a) /\ ~Lost(a) /\ ~Doubted(a)
        BY <1>3, <3>2 DEF Proposed, Lost, Doubted, Crash, Running, Up
      <4> QED
        BY <1>t, <4>3, <4>4, <4>5, <4>6 DEF ActionsMove
    <3> QED
      BY <3>1, <3>2
  <2> QED
    BY <2>1, <2>2, <2>3 DEF Asked
<1> QED
  BY <1>c, <1>1, <1>2, <1>3

LEMMA LostStep == Typed /\ NoCrash /\ NoneLost /\ [Next]_vars => NoneLost'
<1> SUFFICES ASSUME Typed, NoCrash, NoneLost, [Next]_vars, crashes' = 0, NEW a \in Actions, request'[a] = "lost"
             PROVE  FALSE
  BY DEF NoneLost
<1>1. ActionsMove /\ ActionsOwned /\ crashes = 0
  BY ActionsMoveStep, CalmSteps DEF Typed
<1>2. ~Lost(a)
  BY <1>1 DEF Lost, Crash, Typed, TypeOK
<1>3. request[a] # "lost"
  BY <1>1 DEF NoneLost
<1> QED
  BY <1>1, <1>2, <1>3 DEF ActionsMove, Proposed, Rejected, Decided, Doubted

-------------------------------------------------------------------------------
(* Claims, until the first crash *)

\* A run that continues a checkpoint does so until it settles.
LEMMA HolderKept ==
  ASSUME Typed, Rows, [Next]_vars, Running, NEW y \in Runs, NEW c \in Runs, Continues(y, c)
  PROVE  Settle(y) \/ Continues(y, c)'
<1> USE DEF LoopPcs, dbVars, sideVars, leaseVars, serverVars
<1>t. task \in [Runs -> TaskStates] /\ TypeOK /\ Planning /\ ActionsOwned /\ OutOpen
  BY DEF Typed, TypeOK, TaskStates, Rows, Saved
<1>y. /\ task[y].from = c /\ task[y].out # "refused"
      /\ task[y].pc \in {"starting", "deferring", "returned", "settling"} \union LoopPcs
  BY DEF Continues
<1>s. task'[y] = task[y] => Continues(y, c)'
  BY <1>y DEF Continues
<1>1. CASE \E r \in Runs : TaskStep(r)
  <2> PICK r \in Runs : TaskStep(r)
    BY <1>1
  <2>1. CASE StartTurn(r) \/ Knock(r)
    <3>1. ClaimForeground(r, task[r]) /\ task[r].pc \in {"idle", "knocking"}
      BY <2>1 DEF StartTurn, Knock, NoTask
    <3> QED
      BY <1>s, <1>t, <1>y, <3>1 DEF ClaimForeground
  <2>2. CASE GiveUpKnocking(r) \/ FailResume(r) \/ Report(r)
    BY <1>s, <1>t, <1>y, <2>2 DEF GiveUpKnocking, FailResume, Report
  <2>3. CASE Acquire(r) \/ CompleteOrigin(r)
    BY <1>s, <1>t, <1>y, <2>3 DEF Acquire, CompleteOrigin, Step
  <2>4. CASE ClaimCheckpoint(r)
    BY <1>s, <1>t, <1>y, <2>4 DEF ClaimCheckpoint, Step, Return
  <2>5. CASE RunStarted(r)
    <3>1. PICK b \in BOOLEAN : task' = [task EXCEPT ![r].pc = "loop", ![r].open = b]
      BY <2>5 DEF RunStarted
    <3> QED
      BY <1>t, <1>y, <3>1 DEF Continues, TaskStates
  <2>6. CASE ObserveCancel(r) \/ WaitForApproval(r) \/ QueueContinuation(r) \/ Final(r) \/ Fail(r)
    BY <1>t, <1>y, <2>6
       DEF ObserveCancel, WaitForApproval, QueueContinuation, Final, Fail, Return, Continues, TaskStates
  <2>7. CASE LoopStep(r)
    BY <1>s, <1>t, <1>y, <2>7, LoopMoves DEF LoopMove, Continues
  <2>8. CASE SaveCheckpoint(r)
    <3>1. PICK g \in Goals : task' = [task EXCEPT ![r].pc = "deferring", ![r].goal = g]
      BY <2>8 DEF SaveCheckpoint
    <3> QED
      BY <1>t, <1>y, <3>1 DEF Continues, TaskStates
  <2>9. CASE Release(r)
    BY <1>t, <1>y, <2>9 DEF Release, Step, Continues, TaskStates
  <2>10. CASE Settle(r)
    BY <1>s, <1>t, <2>10 DEF Settle, Step
  <2> QED
    BY <2>1, <2>2, <2>3, <2>4, <2>5, <2>6, <2>7, <2>8, <2>9, <2>10 DEF TaskStep, LoopStep
<1>2. CASE ListCheckpoints \/ RequestCancel \/ Startup \/ UNCHANGED vars
  BY <1>s, <1>2 DEF ListCheckpoints, RequestCancel, Startup, MarkInterrupted, CreateCheckpoints,
                    RecoverAutomatic, MarkUncertain, vars
<1>3. ASSUME NEW d \in Runs, NEW r \in Runs, Dispatch(d, r) PROVE task'[y] = task[y]
  BY <1>t, <1>y, <1>3 DEF Dispatch, NoTask
<1>4. CASE UserStep
  <2>1. ASSUME NEW g \in Goals, NEW r \in Runs, Resume(g, r) PROVE task'[y] = task[y]
    BY <1>t, <1>y, <2>1, ResumeMoves DEF ResumeMove, NoTask
  <2> QED
    BY <1>s, <1>4, <2>1 DEF UserStep, Pause, CancelGoal, CancelRun, StopChat
<1>5. CASE Crash
  BY <1>5 DEF Crash, Running, Up
<1>6. CASE EventStep
  BY <1>s, <1>t, <1>6, EventMoves DEF EventMove
<1> QED
  BY <1>s, <1>1, <1>2, <1>3, <1>4, <1>5, <1>6 DEF Next, EventStep

CheckpointsCalm == ClaimHeld /\ DeferringAvailable /\ QueuedBacked

\* Which checkpoints a step of the running server writes.
CheckpointsWritten ==
  \/ ck' = ck
  \/ \E r \in Runs :
       \/ ClaimCheckpoint(r) /\ task'[r].pc = "starting" /\ task[r].from \in Runs
          /\ ck[task[r].from].status = "available"
          /\ ck' = [ck EXCEPT ![task[r].from] = [status |-> "claimed", by |-> r]]
       \/ SaveCheckpoint(r) /\ ck' = [ck EXCEPT ![r] = [status |-> "available", by |-> NoRun]]
       \/ Settle(r) /\ task[r].from \in Runs
          /\ ck[task[r].from] = [status |-> "claimed", by |-> r]
          /\ \/ /\ ck' = [ck EXCEPT ![task[r].from].status = "consumed"]
                /\ task'[r].pc = "completing" /\ task'[r].from = task[r].from
             \/ ck' = [ck EXCEPT ![task[r].from] = [status |-> "available", by |-> NoRun]]

LEMMA CheckpointsWrittenStep == Typed /\ [Next]_vars /\ Running => CheckpointsWritten
<1> SUFFICES ASSUME Typed, [Next]_vars, Running PROVE CheckpointsWritten
  OBVIOUS
<1> USE DEF dbVars, sideVars, leaseVars, serverVars
<1>t. task \in [Runs -> TaskStates] /\ NoRun \notin Runs
  BY WorkAssumption DEF Typed, TypeOK, TaskStates
<1>f. \A r \in Runs : task[r].from \in Runs \union {NoRun}
  BY <1>t DEF TaskStates
<1>1. ASSUME NEW r \in Runs, ClaimCheckpoint(r) PROVE CheckpointsWritten
  <2>1. CASE ck' = ck
    BY <2>1 DEF CheckpointsWritten
  <2>2. CASE ck' # ck
    <3>1. /\ task[r].from # NoRun /\ ck[task[r].from].status = "available"
          /\ task' = [task EXCEPT ![r].pc = "starting"]
          /\ ck' = [ck EXCEPT ![task[r].from] = [status |-> "claimed", by |-> r]]
      BY <1>1, <2>2 DEF ClaimCheckpoint, Step
    <3>2. task'[r].pc = "starting"
      BY <1>t, <3>1 DEF TaskStates
    <3> QED
      BY <1>1, <1>f, <3>1, <3>2 DEF CheckpointsWritten
  <2> QED
    BY <2>1, <2>2
<1>2. ASSUME NEW r \in Runs, SaveCheckpoint(r) PROVE CheckpointsWritten
  BY <1>2 DEF SaveCheckpoint, CheckpointsWritten
<1>3. ASSUME NEW r \in Runs, Settle(r) PROVE CheckpointsWritten
  <2>1. CASE ck' = ck
    BY <2>1 DEF CheckpointsWritten
  <2>2. CASE ck' # ck
    <3>1. task[r].from # NoRun /\ ck[task[r].from] = [status |-> "claimed", by |-> r]
      BY <1>3, <2>2 DEF Settle
    <3>2. \/ /\ ck' = [ck EXCEPT ![task[r].from].status = "consumed"]
             /\ task' = [task EXCEPT ![r].pc = "completing"]
          \/ ck' = [ck EXCEPT ![task[r].from] = [status |-> "available", by |-> NoRun]]
      BY <1>3, <2>2, <3>1 DEF Settle, Step
    <3>3. task' = [task EXCEPT ![r].pc = "completing"] =>
            task'[r].pc = "completing" /\ task'[r].from = task[r].from
      BY <1>t DEF TaskStates
    <3> QED
      BY <1>3, <1>f, <3>1, <3>2, <3>3 DEF CheckpointsWritten
  <2> QED
    BY <2>1, <2>2
<1>4. EventStep => ck' = ck
  BY EventMoves DEF EventMove, Typed
<1>5. \/ \E r \in Runs : ClaimCheckpoint(r) \/ SaveCheckpoint(r) \/ Settle(r)
      \/ ck' = ck
  BY ZenonT(60), <1>4 DEF Next, EventStep, TaskStep, StartTurn, Knock, GiveUpKnocking, Acquire, RunStarted, ObserveCancel,
         Final, WaitForApproval, Fail, PlanGoal, LinkGoal, LoseLink, Propose, ExecuteOthers, QueueContinuation, Release, CompleteOrigin, Report, FailResume,
         ListCheckpoints, Dispatch, UserStep, Pause, CancelGoal, Resume, CancelRun, StopChat,
         RequestCancel, Crash, Startup, MarkInterrupted, CreateCheckpoints, RecoverAutomatic, MarkUncertain,
         vars, Running, Up
<1> QED
  BY <1>1, <1>2, <1>3, <1>5 DEF CheckpointsWritten

\* The completion of the row that a run continues takes that out of the queue.
LEMMA CompletedNotQueued ==
  ASSUME Typed, NEW r \in Runs, CompleteOrigin(r), NEW c \in Runs, run'[c].status = "queued"
  PROVE  task[r].from # c
BY DEF Typed, TypeOK, CompleteOrigin, UpdateRun

\* Only a run that has saved its checkpoint queues its row.
LEMMA QueuedWritten ==
  ASSUME Typed, [Next]_vars, Running, NEW c \in Runs, run'[c].status = "queued"
  PROVE  run[c].status = "queued" \/ QueueContinuation(c)
<1>t. /\ run \in [Runs -> RunRows] /\ TypeOK /\ Planning /\ ActionsOwned
  BY DEF Typed, TypeOK, RunRows
<1>1. ASSUME NEW r \in Runs, NEW status \in RunStatuses \ {"queued"}, UpdateRun(r, status)
      PROVE  run[c].status = "queued"
  BY <1>t, <1>1 DEF UpdateRun, RunRows
<1>2. ~RunStarted(c)
  BY <1>t DEF RunStarted
<1>3. CASE ObserveCancel(c) \/ WaitForApproval(c)
  BY <1>1, <1>3 DEF ObserveCancel, WaitForApproval, RunStatuses, Live
<1>4. CASE Report(c)
  BY <1>1, <1>4 DEF Report, RunStatuses
<1>5. CASE LoopStep(c)
  BY <1>t, <1>5, LoopMoves DEF LoopMove
<1>6. CASE CancelRun(c)
  BY <1>t, <1>6 DEF CancelRun, RunRows
<1>7. CASE EventStep
  <2>1. EventMove
    BY <1>t, <1>7, EventMoves
  <2> QED
    BY <1>1, <2>1 DEF EventMove, RunStatuses, Live
<1> QED
  BY <1>2, <1>3, <1>4, <1>5, <1>6, <1>7, RowMoves DEF EventStep

\* Until the first crash the run that a claim names continues the checkpoint.
LEMMA HeldStep == Typed /\ Rows /\ NoCrash /\ ClaimHeld /\ [Next]_vars => ClaimHeld'
<1> SUFFICES ASSUME Typed, Rows, NoCrash, ClaimHeld, [Next]_vars, crashes' = 0,
                    NEW c \in Runs, NEW y, ck'[c].status = "claimed", y = ck'[c].by
             PROVE  Continues(y, c)'
  BY DEF ClaimHeld, Continues
<1>t. /\ TypeOK /\ ck \in [Runs -> Checkpoints] /\ task \in [Runs -> TaskStates]
      /\ NoRun \notin Runs /\ OutOpen
  BY WorkAssumption DEF Typed, TypeOK, Checkpoints, TaskStates, Rows, Saved
<1>c. crashes = 0 /\ (Running \/ UNCHANGED vars)
  BY <1>t, CalmSteps
<1>h. ck[c].status = "claimed" => Continues(ck[c].by, c)
  BY <1>c DEF ClaimHeld
<1>1. CASE UNCHANGED vars
  BY <1>1, <1>h DEF vars, dbVars, Continues
<1>2. CASE Running
  <2>w. CheckpointsWritten
    BY <1>2, CheckpointsWrittenStep
  <2>s. ASSUME Settle(y), ck[c] = [status |-> "claimed", by |-> y], Continues(y, c) PROVE FALSE
    <3>1. task[y].from = c /\ task[y].out # "refused" /\ y \in Runs
      BY <2>s DEF Continues
    <3>2. \/ ck' = [ck EXCEPT ![c].status = "consumed"]
          \/ ck' = [ck EXCEPT ![c] = [status |-> "available", by |-> NoRun]]
      BY <1>t, <2>s, <3>1 DEF Settle
    <3> QED
      BY <1>t, <3>2 DEF Checkpoints
  <2>1. CASE ck'[c] = ck[c]
    <3>1. y \in Runs /\ Continues(y, c) /\ ck[c] = [status |-> "claimed", by |-> y]
      BY <1>h, <1>t, <2>1 DEF Continues, Checkpoints
    <3>2. ~Settle(y)
      BY <2>s, <3>1
    <3>3. Settle(y) \/ Continues(y, c)'
      BY <1>2, <3>1, HolderKept
    <3> QED
      BY <3>2, <3>3
  <2>2. CASE ck'[c] # ck[c]
    <3>a. ASSUME NEW r \in Runs, ck' = [ck EXCEPT ![r] = [status |-> "available", by |-> NoRun]] PROVE FALSE
      BY <1>t, <2>2, <3>a
    <3>b. ASSUME NEW r \in Runs, ck' = [ck EXCEPT ![r].status = "consumed"] PROVE FALSE
      BY <1>t, <2>2, <3>b DEF Checkpoints
    <3>1. PICK r \in Runs :
            /\ ClaimCheckpoint(r) /\ task'[r].pc = "starting" /\ task[r].from \in Runs
            /\ ck[task[r].from].status = "available"
            /\ ck' = [ck EXCEPT ![task[r].from] = [status |-> "claimed", by |-> r]]
      BY <2>2, <2>w, <3>a, <3>b DEF CheckpointsWritten
    <3>2. c = task[r].from /\ y = r
      BY <1>t, <2>2, <3>1
    <3>3. task[r].out = "none"
      BY <1>t, <3>1 DEF OutOpen, Early, ClaimCheckpoint, Step
    <3>4. task' = [task EXCEPT ![r].pc = "starting"]
      BY <1>t, <3>1 DEF ClaimCheckpoint, Step, Return, TaskStates
    <3>5. task'[r].from = task[r].from /\ task'[r].out = task[r].out
      BY <1>t, <3>4 DEF TaskStates
    <3> QED
      BY <3>1, <3>2, <3>3, <3>5 DEF Continues
  <2> QED
    BY <2>1, <2>2
<1> QED
  BY <1>c, <1>1, <1>2

\* Only the dispatcher could take the checkpoint of a run that still has the conversation.
LEMMA DeferringStep ==
  Typed /\ Rows /\ OwnerIsHolder /\ NoCrash /\ DeferringAvailable /\ [Next]_vars => DeferringAvailable'
<1> SUFFICES ASSUME Typed, OwnerIsHolder, NoCrash, DeferringAvailable, [Next]_vars, crashes' = 0,
                    NEW c \in Runs, task'[c].pc = "deferring"
             PROVE  ck'[c].status = "available"
  BY DEF DeferringAvailable
<1>t. /\ TypeOK /\ ck \in [Runs -> Checkpoints] /\ task \in [Runs -> TaskStates] /\ NoRun \notin Runs
  BY WorkAssumption DEF Typed, TypeOK, Checkpoints, TaskStates
<1>c. crashes = 0 /\ (Running \/ UNCHANGED vars)
  BY <1>t, CalmSteps
<1>h. task[c].pc = "deferring" => ck[c].status = "available" /\ owner = c
  BY <1>c DEF DeferringAvailable, OwnerIsHolder, LeasePcs
<1>1. CASE UNCHANGED vars
  BY <1>1, <1>h DEF vars, dbVars
<1>2. CASE Running
  <2>1. CASE SaveCheckpoint(c)
    BY <1>t, <2>1 DEF SaveCheckpoint
  <2>2. CASE task[c].pc = "deferring"
    <3>1. CheckpointsWritten
      BY <1>2, CheckpointsWrittenStep
    <3>2. ASSUME NEW r \in Runs, ClaimCheckpoint(r), task[r].from = c PROVE FALSE
      <4>1. task[r].pc = "claiming" /\ owner = r
        BY <3>2 DEF ClaimCheckpoint, Step, OwnerIsHolder, LeasePcs
      <4> QED
        BY <1>h, <2>2, <4>1
    <3>3. ASSUME NEW r \in Runs, SaveCheckpoint(r) PROVE c # r
      BY <2>2, <3>3 DEF SaveCheckpoint
    <3>4. ck'[c] = ck[c]
      <4>1. CASE ck' = ck
        BY <4>1
      <4>2. ASSUME NEW r \in Runs, c # task[r].from, task[r].from \in Runs,
                   ck' = [ck EXCEPT ![task[r].from] = [status |-> "claimed", by |-> r]]
            PROVE  ck'[c] = ck[c]
        BY <1>t, <4>2
      <4>3. ASSUME NEW r \in Runs, ck[task[r].from] = [status |-> "claimed", by |-> r] PROVE c # task[r].from
        BY <1>h, <2>2, <4>3
      <4> QED
        BY <1>t, <3>1, <3>2, <3>3, <4>1, <4>2, <4>3 DEF CheckpointsWritten
    <3> QED
      BY <1>h, <2>2, <3>4
  <2> QED
    BY <1>2, <2>1, <2>2, PcMoves
<1> QED
  BY <1>c, <1>1, <1>2

\* Until the first crash a queued row has its checkpoint, or a task that is
\* about to complete it.
LEMMA QueuedStep ==
  Typed /\ NoCrash /\ DeferringAvailable /\ QueuedBacked /\ ConsumedBy /\ [Next]_vars => QueuedBacked'
<1> SUFFICES ASSUME Typed, NoCrash, DeferringAvailable, QueuedBacked, ConsumedBy, [Next]_vars, crashes' = 0,
                    NEW c \in Runs, run'[c].status = "queued", ck'[c].status \notin {"available", "claimed"}
             PROVE  \A y : y = ck'[c].by =>
                      ck'[c].status = "consumed" /\ task'[y].from = c /\ task'[y].pc = "completing"
  BY DEF QueuedBacked
<1>t. /\ TypeOK /\ ck \in [Runs -> Checkpoints] /\ task \in [Runs -> TaskStates] /\ NoRun \notin Runs
  BY WorkAssumption DEF Typed, TypeOK, Checkpoints, TaskStates
<1>c. crashes = 0 /\ (Running \/ UNCHANGED vars)
  BY <1>t, CalmSteps
<1>h. /\ task[c].pc = "deferring" => ck[c].status = "available"
      /\ run[c].status = "queued" =>
           \/ ck[c].status \in {"available", "claimed"}
           \/ ck[c].status = "consumed" /\ task[ck[c].by].from = c /\ task[ck[c].by].pc = "completing"
  BY <1>c DEF DeferringAvailable, QueuedBacked
<1>1. CASE UNCHANGED vars
  BY <1>1, <1>h DEF vars, dbVars
<1>2. CASE Running
  <2>w. CheckpointsWritten
    BY <1>2, CheckpointsWrittenStep
  <2>q. \/ ck[c].status \in {"available", "claimed"}
        \/ /\ run[c].status = "queued" /\ ck[c].status = "consumed"
           /\ task[ck[c].by].from = c /\ task[ck[c].by].pc = "completing"
    BY <1>2, <1>h, QueuedWritten DEF QueueContinuation
  <2>1. CASE ck'[c] # ck[c]
    <3>1. PICK r \in Runs :
            /\ task[r].from \in Runs /\ ck[task[r].from] = [status |-> "claimed", by |-> r]
            /\ ck' = [ck EXCEPT ![task[r].from].status = "consumed"]
            /\ task'[r].pc = "completing" /\ task'[r].from = task[r].from
      BY <1>t, <2>1, <2>w DEF CheckpointsWritten, Checkpoints
    <3>2. task[r].from = c
      BY <1>t, <2>1, <3>1
    <3>3. ck'[c].by = r /\ ck'[c].status = "consumed"
      BY <1>t, <3>1, <3>2 DEF Checkpoints
    <3> QED
      BY <3>1, <3>2, <3>3
  <2>2. CASE ck'[c] = ck[c]
    <3>1. /\ ck[c].status = "consumed" /\ task[ck[c].by].from = c /\ task[ck[c].by].pc = "completing"
      BY <2>2, <2>q
    <3>2. PICK y \in Runs : y = ck[c].by
      BY <3>1 DEF ConsumedBy
    <3>3. ~CompleteOrigin(y)
      BY <3>1, <3>2, CompletedNotQueued
    <3>4. task'[y] = task[y]
      BY <1>2, <3>1, <3>2, <3>3, PcMoves
    <3> QED
      BY <2>2, <3>1, <3>2, <3>4
  <2> QED
    BY <2>1, <2>2
<1> QED
  BY <1>c, <1>1, <1>2

-------------------------------------------------------------------------------
(* The second invariant *)

LEMMA Initially == Init => GoalsInv /\ CoverInv /\ CalmInv
<1> SUFFICES ASSUME Init PROVE GoalsInv /\ CoverInv /\ CalmInv
  OBVIOUS
<1>1. /\ \A r \in Runs : task[r] = NoTask /\ run[r].status = "none" /\ ck[r].status = "none"
      /\ \A g \in Goals : newest[g] = {}
      /\ \A a \in Actions : request[a] = "none"
      /\ stage = "up"
  BY DEF Init
<1>2. GoalsInv
  BY <1>1 DEF GoalsInv, AliveRows, SavedHasGoal, GoalOfFrom, BegunNotStale, Begun, NoTask, LoopPcs
<1>3. CoverInv
  BY <1>1 DEF CoverInv, InterruptedGoalCovered, CoveredAtRecovery, Stale
<1>4. CalmInv
  BY <1>1 DEF CalmInv, OwnerIsHolder, WaitingHasReason, ProposalsAsked, Proposing, NoneLost, NoCrash, Up,
              ClaimHeld, DeferringAvailable, QueuedBacked, LeasePcs, LoopPcs, NoTask
<1> QED
  BY <1>2, <1>3, <1>4

LEMMA CalmStep == Typed /\ Rows /\ ConsumedBy /\ CalmInv /\ [Next]_vars => CalmInv'
<1> SUFFICES ASSUME Typed, Rows, ConsumedBy, CalmInv, [Next]_vars PROVE CalmInv'
  OBVIOUS
<1>1. NoCrash'
  BY CalmSteps DEF CalmInv, NoCrash, Running, Up, vars, serverVars
<1> QED
  BY <1>1, OwnerStep, WaitingStep, AskedStep, LostStep, HeldStep, DeferringStep, QueuedStep DEF CalmInv

LEMMA AlsoInductive == Spec => [](IInv /\ GoalsInv /\ CoverInv /\ CalmInv)
<1>1. IInv /\ IInv' /\ GoalsInv /\ CoverInv /\ CalmInv /\ [Next]_vars => (GoalsInv /\ CoverInv /\ CalmInv)'
  BY GoalsStep, CoverStep, CalmStep DEF IInv
<1> QED
  BY <1>1, Initially, Inductive, PTL DEF Spec

-------------------------------------------------------------------------------
(* The theorems *)

\* Every reachable state of durable work is well typed.
THEOREM TypeCorrect == Spec => []TypeOK
<1>1. IInv => TypeOK
  BY DEF IInv, Typed
<1> QED
  BY <1>1, Inductive, PTL

\* No two runs ever work from one checkpoint: the compare-and-set of the claim
\* suffices against the dispatcher, resumes and the recovery (work.rs 775-827).
THEOREM ClaimIsExclusive == Spec => []ClaimExclusive
<1>1. IInv => ClaimExclusive
  BY DEF IInv
<1> QED
  BY <1>1, Inductive, PTL

\* Errors, preemptions, stops and crashes never use a checkpoint up
\* (run.rs 97-170).
THEOREM ConsumedWasCarriedOn == Spec => []ConsumedIsCarriedOn
<1>1. IInv => ConsumedIsCarriedOn
  BY DEF IInv
<1> QED
  BY <1>1, Inductive, PTL

\* A row shown as running, once the server is up, has a task at work, or a request
\* that executes what the run proposed or that stopped on the way: nothing else
\* leaves a row so (events.rs 241-569, handlers/actions.rs 180-235, work.rs 700-727).
THEOREM RunningHasTask == Spec => []RunningRowHasTask
<1>1. IInv => RunningRowHasTask
  BY DEF IInv, Rows, Saved, Unsaved, Early, OverNotRunning, RunningRowHasTask, Alive, Up
<1> QED
  BY <1>1, Inductive, PTL

\* One run at a time works in the conversation: the lease names every task that
\* is between its claim and its release (run.rs 6-9, 87).
THEOREM OneRunAtATime == Spec => []OwnerIsHolder
<1>1. CalmInv => OwnerIsHolder
  BY DEF CalmInv
<1> QED
  BY <1>1, AlsoInductive, PTL

\* Recovery forgets no interrupted goal: whatever crashes, controls and turns
\* came before, an active goal whose last work was interrupted can be continued
\* or is being resumed (work.rs 728-762, 858-913).
THEOREM InterruptedIsCovered == Spec => []InterruptedGoalCovered
<1>1. CoverInv => InterruptedGoalCovered
  BY DEF CoverInv
<1> QED
  BY <1>1, AlsoInductive, PTL

\* Until a crash, an active goal that nobody works for, decides on or stops can
\* be continued by the dispatcher or by the user, unless a decision on an action of
\* one of its runs has left the row of that open (run.rs 596-611, events.rs 423-459,
\* work.rs 663-726, 775-856).
THEOREM NobodyIsStranded == Spec => [](crashes = 0 => NotStranded)
<1>1. IInv /\ CalmInv => (crashes = 0 => NotStranded)
  <2> SUFFICES ASSUME IInv, CalmInv, crashes = 0, NEW g \in Goals, Up, goal[g] = "active",
                      \A r \in Runs : ~Alive(r), \A a \in Actions : ~Undecided(a),
                      \A r \in RunsOf(g) : ~run[r].cancel /\ ~LeftOpen(r),
                      NEW c \in RunsOf(g), run[c].status \in Live
               PROVE  Dispatchable(c)
    BY DEF NotStranded
  <2>1. \A r \in RunsOf(g) : r \in Runs /\ run[r].goal = g
    BY DEF RunsOf
  <2>2. \A r \in RunsOf(g) : run[r].status # "running"
    <3> SUFFICES ASSUME NEW r \in RunsOf(g), run[r].status = "running" PROVE FALSE
      OBVIOUS
    <3>1. LeftRunning(r)
      BY <2>1 DEF IInv, Rows, Saved, Unsaved, Early, OverNotRunning, Alive, Up
    <3> QED
      BY <3>1 DEF LeftRunning, InHand, Undecided, LeftOpen
  <2>3. \A r \in RunsOf(g) : run[r].status # "waiting_for_approval"
    <3> SUFFICES ASSUME NEW r \in RunsOf(g), run[r].status = "waiting_for_approval" PROVE FALSE
      OBVIOUS
    <3>1. Reason(r)
      BY <2>1 DEF CalmInv, WaitingHasReason, Proposing, Alive
    <3> QED
      BY <3>1 DEF Reason, Undecided, LeftOpen
  <2>4. run[c].status = "queued"
    BY <2>2, <2>3 DEF Live
  <2>5. ck[c].status = "available"
    <3>1. ck[c].status # "claimed"
      BY <2>1 DEF CalmInv, ClaimHeld, Continues, Alive, LoopPcs
    <3>2. ck[c].status # "consumed"
      <4>1. ASSUME ck[c].status = "consumed" PROVE ck[c].by \in Runs
        BY <2>1, <4>1 DEF IInv, ConsumedBy
      <4> QED
        BY <2>1, <2>4, <4>1 DEF CalmInv, QueuedBacked, Alive
    <3> QED
      BY <2>1, <2>4, <3>1, <3>2 DEF CalmInv, QueuedBacked
  <2> QED
    BY <2>1, <2>2, <2>3, <2>4, <2>5 DEF Dispatchable, Undecided
<1> QED
  BY <1>1, AlsoInductive, PTL

===============================================================================
