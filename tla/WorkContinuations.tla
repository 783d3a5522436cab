--------------------------- MODULE WorkContinuations ---------------------------
(***************************************************************************)
(* Durable work of one conversation: the work-run rows, the checkpoints    *)
(* that continue a run in a later one, the goals they serve, and what      *)
(* moves them: the agent-loop wrapper (jossie-server/src/agent/run.rs),    *)
(* the continuation dispatcher (agent/continuations.rs), the goal and run  *)
(* controls (handlers/work.rs) and the recovery at startup                 *)
(* (src/main.rs 66-89).  The SQL is crates/jossie-db/src/work.rs.  The      *)
(* requests that decide the actions a run proposes (handlers/actions.rs)   *)
(* are here with what they do to rows; ActionApproval has all they do.     *)
(*                                                                         *)
(* The ownership of the conversation is the abstract lock that             *)
(* ConversationRuns implements.  A statement or a transaction of the       *)
(* database is one step; so is a run of statements nothing else can tell   *)
(* apart.  Time is abstract: a deferred retry (updated_at in the future)   *)
(* may come due at once.                                                   *)
(***************************************************************************)
EXTENDS Naturals, FiniteSets

CONSTANTS
  Goals,
  Runs,         \* work-run ids; each is used once
  Turns,        \* the ids that users' turns use; resumes and continuations use the others
  Actions,      \* external actions that need an approval; each is proposed once
  NoGoal, NoRun,
  PlanStatuses, \* the goal statuses that update_work_plan writes
  MaxCrashes,   \* bound on server crashes
  MaxControls   \* bound on the user's stops, pauses, resumes and decisions

ASSUME WorkAssumption ==
  /\ NoGoal \notin Goals
  /\ NoRun \notin Runs
  /\ Turns \subseteq Runs
  /\ PlanStatuses \subseteq {"active", "blocked", "paused", "completed", "cancelled"}
  /\ MaxCrashes \in Nat /\ MaxControls \in Nat

VARIABLES
  goal,       \* goals.status, or "absent"
  run,        \* work_runs: status, goal_id, cancel_requested
  ck,         \* work_run_checkpoints by run_id: status, resumed_by_run_id
  newest,     \* newest[g]: the runs whose rows were the last written as g's
  act,        \* pending_actions: status, and the run that proposed it
  request,    \* request[a]: how far the request that decides a has come
  left,       \* goals made active by somebody who then left them (history)
  task,       \* the tokio task that executes each run
  owner,      \* who holds the conversation's lease
  preempted,  \* background runs whose lease is cancelled by a waiting turn
  flag,       \* AppState.cancelled_conversations contains the conversation
  owed,       \* control handlers whose request_cancel is still to come
  listed,     \* what is left of the dispatcher's list of checkpoints
  stage,      \* "up", or the startup step that comes next
  crashes,
  controls

sideVars == <<act, request, left>>   \* the actions, and what no step of a run reads
dbVars == <<goal, run, ck, newest, sideVars>>
leaseVars == <<owner, preempted, flag>>
serverVars == <<owed, listed, stage, crashes, controls>>
vars == <<dbVars, task, leaseVars, serverVars>>

Live == {"queued", "running", "waiting_for_approval"}
RunStatuses == Live \union {"none", "completed", "failed", "cancelled", "interrupted"}
GoalStatuses == {"active", "blocked", "paused", "completed", "cancelled"}
Kinds == {"turn", "resume", "continuation"}

LoopPcs == {"loop", "linking", "asking", "executing"}
\* before the lease, with the lease, after the lease
Pcs == {"idle", "knocking", "waiting"}
       \union {"claiming", "starting", "deferring", "returned"} \union LoopPcs
       \union {"settling", "completing", "reporting", "failing", "done"}
Outcomes == {"none", "final", "approval", "deferred", "error", "refused"}
Succeeded == {"final", "approval", "deferred"}

\* A request has claimed its action, and ends in one of four ways: it went
\* through, it published its decision before the run waited for one, it wrote
\* that the run waits on after the last action was settled, or it stopped where
\* it was (a crash makes it "lost").
AtWork == {"claimed", "started", "executed", "finishing", "closing", "reopening"}
Requests == AtWork \union {"none", "over", "early", "crossed", "abandoned", "lost"}

NoTask == [pc |-> "idle", kind |-> "turn", goal |-> NoGoal, from |-> NoRun,
           open |-> FALSE, plan |-> NoGoal, out |-> "none"]
Alive(r) == task[r].pc \notin {"idle", "done"}
RunsOf(g) == {r \in Runs : run[r].goal = g}
Up == stage = "up"

Step(r, from, to) == Up /\ task[r].pc = from /\ task' = [task EXCEPT ![r].pc = to]
Return(r, out) ==
  task' = [task EXCEPT ![r].pc = "returned", ![r].plan = NoGoal, ![r].out = out]
Ended(t) == [NoTask EXCEPT !.pc = "done", !.out = t.out]

\* Writing the rows S gives all of them the same, newest updated_at.
Touch(S) ==
  newest' = [g \in Goals |-> LET T == {r \in S : run'[r].goal = g}
                             IN IF T = {} THEN newest[g] ELSE T]
UpdateRun(r, status) ==
  run' = [run EXCEPT ![r].status = status] /\ Touch({r})

Init ==
  /\ goal \in [Goals -> {"absent", "active"}]
  /\ run = [r \in Runs |-> [status |-> "none", goal |-> NoGoal, cancel |-> FALSE]]
  /\ ck = [r \in Runs |-> [status |-> "none", by |-> NoRun]]
  /\ newest = [g \in Goals |-> {}]
  /\ act = [a \in Actions |-> [status |-> "none", run |-> NoRun]]
  /\ request = [a \in Actions |-> "none"] /\ left = {}
  /\ task = [r \in Runs |-> NoTask]
  /\ owner = NoRun /\ preempted = {} /\ flag = FALSE /\ owed = 0
  /\ listed = {} /\ stage = "up" /\ crashes = 0 /\ controls = 0

-------------------------------------------------------------------------------
(* Getting the conversation *)

NobodyWaits == \A r \in Runs : task[r].pc # "waiting"

\* claim_foreground for the task that will execute r.
ClaimForeground(r, t) ==
  /\ NobodyWaits
  /\ \/ /\ owner = NoRun
        /\ owner' = r
        /\ task' = [task EXCEPT ![r] = [t EXCEPT !.pc = "claiming"]]
        /\ UNCHANGED preempted
     \/ /\ owner # NoRun /\ task[owner].kind = "continuation"
        /\ preempted' = preempted \union {owner}
        /\ task' = [task EXCEPT ![r] = [t EXCEPT !.pc = "waiting"]]
        /\ UNCHANGED owner
  /\ UNCHANGED flag

\* A user's message; a busy conversation refuses it (no step).
StartTurn(r) ==
  /\ Up /\ r \in Turns /\ task[r] = NoTask
  /\ ClaimForeground(r, NoTask)
  /\ UNCHANGED <<dbVars, serverVars>>

\* run_agent_loop_when_available asks again while the conversation is busy,
\* and gives up after its last attempt.
Knock(r) ==
  /\ Up /\ task[r].pc = "knocking"
  /\ ClaimForeground(r, task[r])
  /\ UNCHANGED <<dbVars, serverVars>>

GiveUpKnocking(r) ==
  /\ Up /\ task[r].pc = "knocking"
  /\ ~NobodyWaits \/ (owner # NoRun /\ task[owner].kind # "continuation")
  /\ goal' = [goal EXCEPT ![task[r].goal] = "paused"]
  /\ task' = [task EXCEPT ![r] = Ended(@)]
  /\ UNCHANGED <<run, ck, newest, sideVars, leaseVars, serverVars>>

Acquire(r) ==
  /\ owner = NoRun
  /\ Step(r, "waiting", "claiming")
  /\ owner' = r
  /\ UNCHANGED <<dbVars, preempted, flag, serverVars>>

\* Mutant of ClaimCheckpoint: the claim does not ask for 'available'.
ClaimCheckpointBlindly(r) ==
  LET c == task[r].from IN
  /\ Step(r, "claiming", "starting")
  /\ ck' = IF c = NoRun THEN ck ELSE [ck EXCEPT ![c] = [status |-> "claimed", by |-> r]]
  /\ flag' = FALSE
  /\ UNCHANGED <<goal, run, newest, sideVars, owner, preempted, serverVars>>

\* claim_conversation or the dispatcher clears a stop asked for earlier; then
\* claim_work_run_checkpoint compares and sets on 'available'.
ClaimCheckpoint(r) ==
  LET c == task[r].from IN
  /\ \/ /\ c = NoRun
        /\ Step(r, "claiming", "starting")
        /\ UNCHANGED ck
     \/ /\ c # NoRun /\ ck[c].status = "available"
        /\ Step(r, "claiming", "starting")
        /\ ck' = [ck EXCEPT ![c] = [status |-> "claimed", by |-> r]]
     \/ /\ c # NoRun /\ ck[c].status # "available"
        /\ Up /\ task[r].pc = "claiming"
        /\ Return(r, "refused")
        /\ UNCHANGED ck
  /\ flag' = FALSE
  /\ UNCHANGED <<goal, run, newest, sideVars, owner, preempted, serverVars>>

-------------------------------------------------------------------------------
(* A run *)

\* RunStarted and annotate_work_run; the tracker reads the goal.
RunStarted(r) ==
  LET g == task[r].goal IN
  /\ Up /\ task[r].pc = "starting"
  /\ run' = [run EXCEPT ![r] = [status |-> "running", goal |-> g, cancel |-> FALSE]]
  /\ Touch({r})
  /\ task' = [task EXCEPT ![r].pc = "loop", ![r].open = (g # NoGoal /\ goal[g] = "active")]
  /\ UNCHANGED <<goal, ck, sideVars, leaseVars, serverVars>>

\* ensure_run_not_cancelled, also after the calls of a batch: RunCancelled, then
\* the error.
ObserveCancel(r) ==
  /\ Up /\ task[r].pc \in {"loop", "executing"}
  /\ flag \/ r \in preempted
  /\ UpdateRun(r, "cancelled")
  /\ Return(r, "error")
  /\ UNCHANGED <<goal, ck, sideVars, leaseVars, serverVars>>

\* update_work_plan overwrites the status of the goal.  The goal of a resume or
\* a continuation is locked.
PlanGoal(r, g, status) ==
  /\ Up /\ task[r].pc = "loop"
  /\ task[r].kind = "turn" \/ task[r].goal = g
  /\ goal' = [goal EXCEPT ![g] = status]
  /\ task' = [task EXCEPT ![r].pc = "linking", ![r].plan = g]
  /\ UNCHANGED <<run, ck, newest, sideVars, leaseVars, serverVars>>

\* It reads the goal back; link_work_run_goal binds the run to it.
LinkGoal(r) ==
  LET g == task[r].plan IN
  /\ Up /\ task[r].pc = "linking"
  /\ run' = [run EXCEPT ![r].goal = g]
  /\ Touch({r})
  /\ task' = [task EXCEPT ![r].pc = "loop", ![r].goal = g, ![r].plan = NoGoal,
                          ![r].open = (goal[g] = "active")]
  /\ UNCHANGED <<goal, ck, sideVars, leaseVars, serverVars>>

\* The read fails: the model is told that its plan could not be updated.
LoseLink(r) ==
  /\ Up /\ task[r].pc = "linking"
  /\ task' = [task EXCEPT ![r].pc = "loop", ![r].plan = NoGoal]
  /\ left' = left \union {task[r].plan}
  /\ UNCHANGED <<goal, run, ck, newest, act, request, leaseVars, serverVars>>

\* The final reply is withheld while the run's own goal is active.
Final(r) ==
  /\ Up /\ task[r].pc = "loop" /\ ~task[r].open
  /\ Return(r, "final")
  /\ UNCHANGED <<dbVars, leaseVars, serverVars>>

\* A call of the batch needs an approval: create_pending_action, then
\* ActionApprovalRequired.
Propose(r, a) ==
  /\ Up /\ task[r].pc \in {"loop", "asking"}
  /\ act[a].status = "none"
  /\ act' = [act EXCEPT ![a] = [status |-> "pending", run |-> r]]
  /\ UpdateRun(r, "waiting_for_approval")
  /\ task' = [task EXCEPT ![r].pc = "asking"]
  /\ UNCHANGED <<goal, ck, request, left, leaseVars, serverVars>>

\* The calls that need none: ToolStarted and ToolFinished, if there are any.
ExecuteOthers(r) ==
  /\ Up /\ task[r].pc \in {"asking", "executing"}
  /\ task' = [task EXCEPT ![r].pc = "executing"]
  /\ UpdateRun(r, "running") \/ UNCHANGED <<run, newest>>
  /\ UNCHANGED <<goal, ck, sideVars, leaseVars, serverVars>>

\* RunWaitingForApproval, whatever has been decided by now.
WaitForApproval(r) ==
  /\ Up /\ task[r].pc = "executing"
  /\ UpdateRun(r, "waiting_for_approval")
  /\ Return(r, "approval")
  /\ UNCHANGED <<goal, ck, sideVars, leaseVars, serverVars>>

\* The model or a statement fails, or the loop panics.
Fail(r) ==
  /\ Up /\ task[r].pc \in LoopPcs
  /\ Return(r, "error")
  /\ left' = left \union ({task[r].plan} \intersect Goals)
  /\ UNCHANGED <<goal, run, ck, newest, act, request, leaseVars, serverVars>>

\* defer_run_with_checkpoint, until the checkpoint is saved: a run without a
\* goal creates one.
SaveCheckpoint(r) ==
  /\ Up /\ task[r].pc = "loop"
  /\ \E g \in Goals :
       /\ \/ task[r].goal = g /\ UNCHANGED goal
          \/ /\ task[r].goal = NoGoal /\ goal[g] = "absent"
             /\ goal' = [goal EXCEPT ![g] = "active"]
       /\ run' = [run EXCEPT ![r].goal = g]
       /\ task' = [task EXCEPT ![r].pc = "deferring", ![r].goal = g]
  /\ Touch({r})
  /\ ck' = [ck EXCEPT ![r] = [status |-> "available", by |-> NoRun]]
  /\ UNCHANGED <<sideVars, leaseVars, serverVars>>

\* Mutant of QueueContinuation: the row is paused, as it was before the
\* continuation queue existed.
PauseRun(r) ==
  /\ Up /\ task[r].pc = "deferring"
  /\ UpdateRun(r, "paused")
  /\ Return(r, "deferred")
  /\ UNCHANGED <<goal, ck, sideVars, leaseVars, serverVars>>

\* RunDeferred
QueueContinuation(r) ==
  /\ Up /\ task[r].pc = "deferring"
  /\ UpdateRun(r, "queued")
  /\ Return(r, "deferred")
  /\ UNCHANGED <<goal, ck, sideVars, leaseVars, serverVars>>

-------------------------------------------------------------------------------
(* After the loop: run_agent_loop_with_lease *)

\* Mutant of Release: a run that is deferred returns before it releases its lease.
ReleaseUnlessDeferred(r) ==
  /\ Step(r, "returned", "settling")
  /\ owner' = IF task[r].out = "deferred" THEN owner ELSE NoRun
  /\ preempted' = preempted \ {r}
  /\ flag' = FALSE
  /\ UNCHANGED <<goal, run, newest, ck, sideVars, serverVars>>

\* An explicit stop ends the run the checkpoint belongs to as well;
\* release_conversation.
Release(r) ==
  LET c == task[r].from IN
  /\ Step(r, "returned", "settling")
  /\ IF flag /\ c # NoRun /\ task[r].out # "refused"
     THEN UpdateRun(c, "cancelled") ELSE UNCHANGED <<run, newest>>
  /\ owner' = NoRun
  /\ preempted' = preempted \ {r}
  /\ flag' = FALSE
  /\ UNCHANGED <<goal, ck, sideVars, serverVars>>

\* Mutant of Settle: every outcome uses the checkpoint up.
SettleAlways(r) ==
  LET c == task[r].from
      mine == c # NoRun /\ ck[c] = [status |-> "claimed", by |-> r]
  IN
  /\ Step(r, "settling", IF c = NoRun THEN "reporting" ELSE "completing")
  /\ ck' = IF mine THEN [ck EXCEPT ![c].status = "consumed"] ELSE ck
  /\ UNCHANGED <<goal, run, newest, sideVars, leaseVars, serverVars>>

\* consume_work_run_checkpoint after a success, release_work_run_checkpoint_claim
\* after an error; both act only on r's own claim.
Settle(r) ==
  LET c == task[r].from
      mine == c # NoRun /\ ck[c] = [status |-> "claimed", by |-> r]
  IN
  /\ \/ /\ task[r].out \in Succeeded
        /\ Step(r, "settling", IF c = NoRun THEN "reporting" ELSE "completing")
        /\ ck' = IF mine THEN [ck EXCEPT ![c].status = "consumed"] ELSE ck
     \/ /\ task[r].out = "error"
        /\ Step(r, "settling", "reporting")
        /\ ck' = IF mine THEN [ck EXCEPT ![c] = [status |-> "available", by |-> NoRun]] ELSE ck
     \/ /\ task[r].out = "refused"
        /\ Up /\ task[r].pc = "settling"
        /\ task' = [task EXCEPT ![r] =
                      IF @.kind = "resume" THEN [@ EXCEPT !.pc = "failing"] ELSE Ended(@)]
        /\ UNCHANGED ck
  /\ UNCHANGED <<goal, run, newest, sideVars, leaseVars, serverVars>>

\* "Continued in a new run"
CompleteOrigin(r) ==
  /\ Step(r, "completing", "reporting")
  /\ UpdateRun(task[r].from, "completed")
  /\ UNCHANGED <<goal, ck, sideVars, leaseVars, serverVars>>

\* RunCompleted or Error, unless the row already says otherwise.
Report(r) ==
  LET failed == task[r].out = "error" IN
  /\ Up /\ task[r].pc = "reporting"
  /\ task' = [task EXCEPT ![r] =
                IF failed /\ @.kind = "resume" THEN [@ EXCEPT !.pc = "failing"] ELSE Ended(@)]
  /\ CASE ~failed /\ run[r].status \notin {"waiting_for_approval", "queued"} ->
            UpdateRun(r, "completed")
       [] failed /\ run[r].status \notin {"cancelled", "completed", "failed"} ->
            UpdateRun(r, "failed")
       [] OTHER -> UNCHANGED <<run, newest>>
  /\ UNCHANGED <<goal, ck, sideVars, leaseVars, serverVars>>

\* "Resume attempt could not start": the goal is paused, whatever its status.
FailResume(r) ==
  /\ Up /\ task[r].pc = "failing"
  /\ task' = [task EXCEPT ![r] = Ended(@)]
  /\ goal' = [goal EXCEPT ![task[r].goal] = "paused"]
  /\ UNCHANGED <<run, ck, newest, sideVars, leaseVars, serverVars>>

-------------------------------------------------------------------------------
(* The dispatcher *)

\* list_queued_work_checkpoints
Dispatchable(c) ==
  LET g == run[c].goal IN
  /\ ck[c].status = "available"
  /\ run[c].status = "queued"
  /\ ~run[c].cancel
  /\ goal[g] \in {"active", "completed", "blocked"}
  /\ \A r \in RunsOf(g) : run[r].status \notin {"running", "waiting_for_approval"}
  /\ \A a \in Actions : act[a].status \notin {"pending", "uncertain"}

ListCheckpoints ==
  /\ Up /\ listed = {}
  /\ listed' = {c \in Runs : Dispatchable(c)}
  /\ UNCHANGED <<dbVars, task, leaseVars, owed, stage, crashes, controls>>

\* claim_background; an owned or reserved conversation skips the checkpoint.
Dispatch(c, r) ==
  /\ Up /\ c \in listed
  /\ listed' = listed \ {c}
  /\ \/ /\ owner = NoRun /\ NobodyWaits
        /\ r \notin Turns /\ task[r] = NoTask
        /\ owner' = r
        /\ task' = [task EXCEPT ![r] = [pc |-> "claiming", kind |-> "continuation",
                      goal |-> run[c].goal, from |-> c, open |-> FALSE, plan |-> NoGoal, out |-> "none"]]
     \/ /\ ~(owner = NoRun /\ NobodyWaits)
        /\ UNCHANGED <<owner, task>>
  /\ UNCHANGED <<dbVars, preempted, flag, owed, stage, crashes, controls>>

-------------------------------------------------------------------------------
(* The user: control_goal, cancel_run, /cancel, a decision on an action.  A    *)
(* control handler ends with request_cancel, an await after its transaction.  *)

Control == Up /\ controls < MaxControls /\ controls' = controls + 1

\* set_goal_control_state marks the runs whether or not the goal changes.
StopRunsOf(g) ==
  LET S == {r \in RunsOf(g) : run[r].status \in Live} IN
  /\ run' = [r \in Runs |-> IF r \in S THEN [run[r] EXCEPT !.cancel = TRUE] ELSE run[r]]
  /\ Touch(S)

\* The actions that nobody has decided on.
RejectActionsOf(S) ==
  act' = [a \in Actions |->
            IF act[a].status = "pending" /\ act[a].run \in S
            THEN [act[a] EXCEPT !.status = "settled"] ELSE act[a]]

\* A refused transition answers 400, without request_cancel.
SetGoal(g, from, status) ==
  LET ok == goal[g] \in from IN
  /\ Control /\ goal[g] # "absent"
  /\ goal' = IF ok THEN [goal EXCEPT ![g] = status] ELSE goal
  /\ StopRunsOf(g)
  /\ owed' = IF ok THEN owed + 1 ELSE owed

Pause(g) ==
  /\ SetGoal(g, {"active", "blocked"}, "paused")
  /\ UNCHANGED <<ck, sideVars, task, leaseVars, listed, stage, crashes>>

CancelGoal(g) ==
  /\ SetGoal(g, {"active", "blocked", "paused"}, "cancelled")
  /\ RejectActionsOf(RunsOf(g))
  /\ UNCHANGED <<ck, request, left, task, leaseVars, listed, stage, crashes>>

\* A paused or blocked goal becomes active; an active one is continued when no
\* run of it is live.  The task starts from an available checkpoint if there is
\* one (the code takes the newest); a goal with a linked schedule is left to it.
Resume(g, r) ==
  LET saved == {c \in RunsOf(g) : ck[c].status = "available"} IN
  /\ Control /\ r \notin Turns /\ task[r] = NoTask
  /\ \/ goal[g] \in {"paused", "blocked"}
     \/ goal[g] = "active" /\ \A x \in RunsOf(g) : run[x].status \notin Live
  /\ goal' = [goal EXCEPT ![g] = "active"]
  /\ \/ /\ \E c \in IF saved = {} THEN {NoRun} ELSE saved :
             task' = [task EXCEPT ![r] = [NoTask EXCEPT !.pc = "knocking", !.kind = "resume",
                                                        !.goal = g, !.from = c]]
        /\ UNCHANGED left
     \/ left' = left \union {g} /\ UNCHANGED task
  /\ UNCHANGED <<run, ck, newest, act, request, leaseVars, owed, listed, stage, crashes>>

\* A run that only waits ends at once, with its actions.
CancelRun(r) ==
  LET ends == run[r].status # "running" IN
  /\ Control /\ run[r].status \in Live
  /\ run' = [run EXCEPT ![r].cancel = TRUE, ![r].status = IF ends THEN "cancelled" ELSE @]
  /\ Touch({r})
  /\ IF ends THEN RejectActionsOf({r}) ELSE UNCHANGED act
  /\ owed' = owed + 1
  /\ UNCHANGED <<goal, ck, request, left, task, leaseVars, listed, stage, crashes>>

RequestCancel ==
  /\ Up /\ owed > 0
  /\ owed' = owed - 1
  /\ flag' = TRUE
  /\ UNCHANGED <<dbVars, task, owner, preempted, listed, stage, crashes, controls>>

\* /cancel in a chat that is active: request_cancel alone.
StopChat ==
  /\ Control /\ owner # NoRun
  /\ flag' = TRUE
  /\ UNCHANGED <<dbVars, task, owner, preempted, owed, listed, stage, crashes>>

-------------------------------------------------------------------------------
(* A request that decides an action (handlers/actions.rs 109-251), one          *)
(* statement at a time.  It writes the row of a run that may be over.  The run  *)
(* it spawns when its batch is resolved is a turn.                              *)

Decider(a, from, to) ==
  /\ Up /\ request[a] = from /\ request' = [request EXCEPT ![a] = to]
  /\ UNCHANGED <<goal, ck, left, task, leaseVars, owed, listed, stage, crashes>>
SettleAction(a) == act' = [act EXCEPT ![a].status = "settled"]

\* claim_pending_action_at_revision
ClaimAction(a) ==
  /\ Control /\ act[a].status = "pending"
  /\ act' = [act EXCEPT ![a].status = "executing"]
  /\ Decider(a, "none", "claimed")
  /\ UNCHANGED <<run, newest>>

\* Approved: ToolStarted, then the call, its answer and resolve_pending_action.
ToolStarted(a) ==
  /\ Decider(a, "claimed", "started")
  /\ UpdateRun(act[a].run, "running")
  /\ UNCHANGED <<act, controls>>

ResolveAction(a) ==
  /\ Decider(a, "started", "executed")
  /\ SettleAction(a)
  /\ UNCHANGED <<run, newest, controls>>

ToolFinished(a) ==
  /\ Decider(a, "executed", "finishing")
  /\ UpdateRun(act[a].run, "running")
  /\ UNCHANGED <<act, controls>>

\* Rejected, or a reply of the secretary, whose call is no tool.
ResolveQuietly(a) ==
  /\ Decider(a, "claimed", "finishing")
  /\ SettleAction(a)
  /\ UNCHANGED <<run, newest, controls>>

\* pending_action_batch_is_resolved: a run proposes one batch.
BatchResolved(r) ==
  \A a \in Actions : act[a].run = r => act[a].status \notin {"pending", "executing"}

\* ActionResolved reads the batch ...
ReadBatch(a) ==
  /\ Decider(a, "finishing", IF BatchResolved(act[a].run) THEN "closing" ELSE "reopening")
  /\ UNCHANGED <<act, run, newest, controls>>

\* Mutant of ActionResolved: the row is left to the run that goes on.
PublishOnly(a) ==
  /\ request[a] \in {"closing", "reopening"}
  /\ Decider(a, request[a], "over")
  /\ UNCHANGED <<act, run, newest, controls>>

\* Mutant of ActionResolved: a row whose batch is resolved waits as well.
ReopenAlways(a) ==
  /\ Decider(a, "closing", "over")
  /\ UpdateRun(act[a].run, "waiting_for_approval")
  /\ UNCHANGED <<act, controls>>

\* ... then writes the row.
ActionResolved(a) ==
  LET r == act[a].run
      early == task[r].pc \in {"asking", "executing"}
  IN
  \/ /\ Decider(a, "closing", IF early THEN "early" ELSE "over")
     /\ UpdateRun(r, "completed")
     /\ UNCHANGED <<act, controls>>
  \/ /\ Decider(a, "reopening", IF early THEN "early"
                                ELSE IF BatchResolved(r) THEN "crossed" ELSE "over")
     /\ UpdateRun(r, "waiting_for_approval")
     /\ UNCHANGED <<act, controls>>

\* A statement of it fails, or its client goes away.
AbandonAction(a) ==
  /\ request[a] \in AtWork
  /\ Decider(a, request[a], "abandoned")
  /\ UNCHANGED <<act, run, newest, controls>>

DecisionStep(a) ==
  \/ ClaimAction(a) \/ ToolStarted(a) \/ ResolveAction(a) \/ ToolFinished(a)
  \/ ResolveQuietly(a) \/ ReadBatch(a) \/ ActionResolved(a) \/ AbandonAction(a)

\* run_work_watchdog: a row that is running, with no worker in its conversation and
\* nothing written to it for longer than any call may take; then request_cancel.
\* A task that is past its lease writes the row in less time.
Watchdog(r) ==
  /\ Up /\ owner = NoRun /\ ~Alive(r)
  /\ run[r].status = "running"
  /\ UpdateRun(r, "failed")
  /\ owed' = owed + 1
  /\ UNCHANGED <<goal, ck, sideVars, task, leaseVars, listed, stage, crashes, controls>>

-------------------------------------------------------------------------------
(* Crash and startup *)

Crash ==
  /\ crashes < MaxCrashes
  /\ crashes' = crashes + 1
  /\ stage' = "mark"
  /\ task' = [r \in Runs |-> IF Alive(r) THEN Ended(task[r]) ELSE task[r]]
  /\ request' = [a \in Actions |-> IF request[a] \in AtWork THEN "lost" ELSE request[a]]
  /\ owner' = NoRun /\ preempted' = {} /\ flag' = FALSE /\ owed' = 0
  /\ listed' = {}
  /\ UNCHANGED <<goal, run, ck, newest, act, left, controls>>

\* mark_running_work_interrupted
MarkInterrupted ==
  LET S == {r \in Runs : run[r].status \in {"running", "waiting_for_approval"}} IN
  /\ stage = "mark" /\ stage' = "checkpoint"
  /\ run' = [r \in Runs |-> IF r \in S THEN [run[r] EXCEPT !.status = "interrupted"] ELSE run[r]]
  /\ Touch(S)
  /\ UNCHANGED <<goal, ck, sideVars, task, leaseVars, owed, listed, crashes, controls>>

\* Mutant of Uncovered: a checkpoint that is used up counts as cover.
NeverCheckpointed(g) ==
  /\ goal[g] \in {"active", "paused"}
  /\ \A c \in RunsOf(g) : ck[c].status = "none"

\* create_checkpoints_for_interrupted_runs: for a goal whose newest run was
\* interrupted and that has no checkpoint to continue from.
Uncovered(g) ==
  /\ goal[g] \in {"active", "paused"}
  /\ \A c \in RunsOf(g) : ck[c].status \notin {"available", "claimed"}

\* The runs of g with the largest updated_at; a turn may have bound the last
\* one to another goal, and the order of the others is not kept.
Latest(g) ==
  LET still == newest[g] \intersect RunsOf(g)
  IN IF still # {} THEN {still} ELSE {N \in SUBSET RunsOf(g) : N = {} => RunsOf(g) = {}}

CreateCheckpoints ==
  /\ stage = "checkpoint" /\ stage' = "recover"
  /\ \E S \in SUBSET Runs :
       /\ \A g \in Goals : \E N \in Latest(g) :
            LET cand == {r \in N : run[r].status = "interrupted" /\ Uncovered(g)}
            IN IF cand = {} THEN S \intersect RunsOf(g) = {}
               ELSE S \intersect RunsOf(g) \in {{r} : r \in cand}
       /\ S \subseteq UNION {RunsOf(g) : g \in Goals}
       /\ ck' = [r \in Runs |-> IF r \in S THEN [status |-> "available", by |-> NoRun] ELSE ck[r]]
  /\ UNCHANGED <<goal, run, newest, sideVars, task, leaseVars, owed, listed, crashes, controls>>

\* recover_automatic_work_continuations
RecoverAutomatic ==
  LET orphaned(c) == /\ ck[c].status = "claimed"
                     /\ run[ck[c].by].status \in {"interrupted", "cancelled", "failed"}
      requeued == {r \in Runs :
                     /\ run[r].status = "interrupted" /\ ~run[r].cancel
                     /\ ck'[r].status = "available"
                     /\ goal[run[r].goal] = "active"}
  IN
  /\ stage = "recover" /\ stage' = "actions"
  /\ ck' = [c \in Runs |-> IF orphaned(c) THEN [status |-> "available", by |-> NoRun] ELSE ck[c]]
  /\ run' = [r \in Runs |-> IF r \in requeued THEN [run[r] EXCEPT !.status = "queued"] ELSE run[r]]
  /\ Touch(requeued)
  /\ UNCHANGED <<goal, sideVars, task, leaseVars, owed, listed, crashes, controls>>

\* mark_interrupted_actions_uncertain
MarkUncertain ==
  /\ stage = "actions" /\ stage' = "up"
  /\ act' = [a \in Actions |-> IF act[a].status = "executing"
                               THEN [act[a] EXCEPT !.status = "uncertain"] ELSE act[a]]
  /\ UNCHANGED <<goal, run, ck, newest, request, left, task, leaseVars, owed, listed>>
  /\ UNCHANGED <<crashes, controls>>

-------------------------------------------------------------------------------

TaskStep(r) ==
  \/ StartTurn(r) \/ Knock(r) \/ GiveUpKnocking(r) \/ Acquire(r)
  \/ ClaimCheckpoint(r) \/ RunStarted(r)
  \/ ObserveCancel(r) \/ Final(r) \/ Fail(r)
  \/ (\E g \in Goals, s \in PlanStatuses : PlanGoal(r, g, s))
  \/ LinkGoal(r) \/ LoseLink(r)
  \/ (\E a \in Actions : Propose(r, a)) \/ ExecuteOthers(r) \/ WaitForApproval(r)
  \/ SaveCheckpoint(r) \/ QueueContinuation(r)
  \/ Release(r) \/ Settle(r) \/ CompleteOrigin(r) \/ Report(r)
  \/ FailResume(r)

UserStep ==
  \/ \E g \in Goals : Pause(g) \/ CancelGoal(g) \/ \E r \in Runs : Resume(g, r)
  \/ \E r \in Runs : CancelRun(r)
  \/ StopChat

Startup == MarkInterrupted \/ CreateCheckpoints \/ RecoverAutomatic \/ MarkUncertain

Next ==
  \/ \E r \in Runs : TaskStep(r)
  \/ ListCheckpoints \/ \E c, r \in Runs : Dispatch(c, r)
  \/ UserStep \/ RequestCancel
  \/ \E a \in Actions : DecisionStep(a)
  \/ \E r \in Runs : Watchdog(r)
  \/ Crash \/ Startup

Spec == Init /\ [][Next]_vars

\* What the runtime does on its own: the dispatcher polls, tasks go on, the
\* server restarts.  Turns, the user and crashes are the environment; a run
\* leaves the loop, its iterations and its time are bounded.
LoopExit(r) ==
  ObserveCancel(r) \/ Final(r) \/ WaitForApproval(r) \/ Fail(r) \/ SaveCheckpoint(r)

Fairness ==
  /\ \A r \in Runs :
       /\ WF_vars(Knock(r) \/ GiveUpKnocking(r)) /\ WF_vars(Acquire(r))
       /\ WF_vars(ClaimCheckpoint(r)) /\ WF_vars(RunStarted(r)) /\ WF_vars(LoopExit(r))
       /\ WF_vars(QueueContinuation(r)) /\ WF_vars(Release(r)) /\ WF_vars(Settle(r))
       /\ WF_vars(CompleteOrigin(r)) /\ WF_vars(Report(r)) /\ WF_vars(FailResume(r))
  /\ WF_vars(ListCheckpoints) /\ \A c \in Runs : WF_vars(\E r \in Runs : Dispatch(c, r))
  /\ WF_vars(RequestCancel) /\ WF_vars(Startup)

FairSpec == Spec /\ Fairness

-------------------------------------------------------------------------------
(* Properties *)

TypeOK ==
  /\ goal \in [Goals -> GoalStatuses \union {"absent"}]
  /\ run \in [Runs -> [status : RunStatuses, goal : Goals \union {NoGoal}, cancel : BOOLEAN]]
  /\ ck \in [Runs -> [status : {"none", "available", "claimed", "consumed"},
                      by : Runs \union {NoRun}]]
  /\ newest \in [Goals -> SUBSET Runs]
  /\ act \in [Actions -> [status : {"none", "pending", "executing", "settled", "uncertain"},
                           run : Runs \union {NoRun}]]
  /\ request \in [Actions -> Requests] /\ left \subseteq Goals
  /\ task \in [Runs -> [pc : Pcs, kind : Kinds, goal : Goals \union {NoGoal},
                        from : Runs \union {NoRun}, open : BOOLEAN,
                        plan : Goals \union {NoGoal}, out : Outcomes]]
  /\ owner \in Runs \union {NoRun} /\ preempted \subseteq Runs /\ flag \in BOOLEAN
  /\ owed \in Nat
  /\ listed \subseteq Runs
  /\ stage \in {"up", "mark", "checkpoint", "recover", "actions"}
  /\ crashes \in 0..MaxCrashes /\ controls \in 0..MaxControls

\* From its claim until it settles, a run that continues a checkpoint is the
\* one the checkpoint names, so no two runs ever work from one checkpoint
\* (work.rs 775-827): not two ticks of the dispatcher, nor a tick and a resume,
\* nor a resume and the recovery after a crash.
ClaimExclusive ==
  \A r \in Runs :
    /\ task[r].from # NoRun
    /\ task[r].pc \in {"starting", "deferring", "returned", "settling"} \union LoopPcs
    /\ task[r].out # "refused"
    => ck[task[r].from] = [status |-> "claimed", by |-> r]

\* A checkpoint is consumed only when the work went on: the run that claimed it
\* answered, asked for an approval, or left a checkpoint of its own.  Errors,
\* preemptions and crashes never use one up (run.rs 97-170).
ConsumedIsCarriedOn ==
  \A c \in Runs : ck[c].status = "consumed" =>
    LET r == ck[c].by IN
    /\ task[r].out \in Succeeded
    /\ task[r].out = "deferred" => ck[r].status # "none"

\* A row that is shown as running has a task that executes it, or a request
\* that executes what the run proposed, or one that stopped on the way: nothing
\* else that events, controls, the watchdog and crashes write to the row leaves it
\* running (events.rs 241-569).
InHand(a) == request[a] \in AtWork \ {"claimed"}
LeftRunning(r) == \E a \in Actions : act[a].run = r /\ (InHand(a) \/ request[a] = "abandoned")

RunningRowHasTask ==
  Up => \A r \in Runs : run[r].status = "running" => Alive(r) \/ LeftRunning(r)

\* An interrupted goal is never forgotten: while the server is up, an active
\* goal whose last work was interrupted has a checkpoint to continue from, or
\* somebody has just asked to resume it or planned it anew, as when it was blocked
\* or done at the crash and so passed over by the recovery (work.rs 728-762,
\* 858-913).  A goal that was left by whoever made it active is the exception.
Stale(g) == \E r \in newest[g] : run[r].goal = g /\ run[r].status = "interrupted"
Covered(g) == \E c \in RunsOf(g) : ck[c].status \in {"available", "claimed"}
BeingResumed(g) ==
  \E r \in Runs : Alive(r) /\ (task[r].plan = g \/ (task[r].kind = "resume" /\ task[r].goal = g))

InterruptedGoalCovered ==
  Up => \A g \in Goals \ left : goal[g] = "active" /\ Stale(g) => Covered(g) \/ BeingResumed(g)

\* An active goal is never stuck in between: with nothing at work on it and
\* nothing to decide or to stop, either the dispatcher can continue it or the
\* user can (Resume answers "Goal is already being worked on" while a run of it
\* is live).  The exceptions are a run that keeps a stop nobody observed, and a
\* run whose row was left open by a decision on its actions: one published before
\* the run waited for it, one that crossed another, or one that stopped on the way.
Undecided(a) == act[a].status \in {"pending", "uncertain"} \/ request[a] \in AtWork
LeftOpen(r) ==
  /\ run[r].status \in {"running", "waiting_for_approval"}
  /\ \E a \in Actions : act[a].run = r /\ request[a] \in {"early", "crossed", "abandoned"}

NotStranded ==
  \A g \in Goals :
    /\ Up /\ goal[g] = "active"
    /\ \A r \in Runs : ~Alive(r)
    /\ \A a \in Actions : ~Undecided(a)
    /\ \A r \in RunsOf(g) : ~run[r].cancel /\ ~LeftOpen(r)
    => \/ \E c \in RunsOf(g) : Dispatchable(c)
       \/ \A r \in RunsOf(g) : run[r].status \notin Live

\* Queued work is continued unless the user stops it or has an action to decide:
\* whatever turns come in between, the dispatcher gets to claim the checkpoint
\* (given a fresh run id).
QueuedWorkContinues ==
  \A c \in Runs :
    Dispatchable(c) ~>
      \/ ck[c].status # "available"
      \/ run[c].cancel \/ run[c].status = "cancelled"
      \/ \E a \in Actions : Undecided(a)
      \/ run[c].goal # NoGoal /\ goal[run[c].goal] \in {"paused", "cancelled"}
      \/ \A r \in Runs \ Turns : task[r] # NoTask

\* "Startup recovers abandoned checkpoint claims" (WORK_COMPLETION_REVIEW.md 39).
\* Fails: README section 5; not part of a run.
ClaimsRecovered ==
  Up => \A c \in Runs : ck[c].status = "claimed" => Alive(ck[c].by)

\* "Explicit user stops/pauses ... remain under user control"
\* (WORK_COMPLETION_REVIEW.md 39): a run that a pause of its goal has told to
\* stop does not take the goal out of the pause.
PauseHolds ==
  [][\A g \in Goals :
       goal[g] = "paused" /\ goal'[g] # "paused" /\ controls' = controls
       => ~(owner # NoRun /\ run[owner].goal = g /\ run[owner].cancel)]_vars
===============================================================================
