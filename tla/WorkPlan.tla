-------------------------------- MODULE WorkPlan --------------------------------
(***************************************************************************)
(* update_work_plan: the model writes the plan of a goal as a whole, and   *)
(* the run stores it one statement at a time (agent/tools.rs               *)
(* process_work_plan_updates, work.rs).  Meanwhile the user pauses,        *)
(* resumes or cancels the goal.  One run at a time writes the plan of a    *)
(* goal: it has the conversation.                                          *)
(*                                                                         *)
(* A task of a plan names a task of the goal by its id, or none.           *)
(***************************************************************************)
EXTENDS Integers, Sequences, FiniteSets

CONSTANTS
  Plans,      \* what the model writes: [status, tasks], a task [id, status], id 0 for none
  MaxCalls,   \* bound: calls of update_work_plan
  MaxFaults,  \* bound: statements that fail
  MaxControls \* bound: requests of the user

GoalStates == {"active", "blocked", "paused", "completed", "cancelled"}
TaskStates == {"pending", "in_progress", "waiting", "blocked", "completed", "failed", "cancelled"}

PlanAssumption == Plans \subseteq [status : GoalStates, tasks : Seq([id : Nat, status : TaskStates])]

VARIABLES
  goal,      \* status of the goal, "none" before it is created
  task,      \* its rows in the order they were created: [position, status]
  writer,    \* the call that is being stored
  told,      \* what the last call was answered
  torn,      \* a call failed halfway and none was stored since
  counts     \* calls, faults, controls

planVars == <<goal, task, writer, told, torn, counts>>

Idle == [at |-> "idle", plan |-> [status |-> "none", tasks |-> <<>>], existing |-> <<>>, next |-> 1, rows |-> <<>>]

Init ==
  /\ goal = "none" /\ task = <<>> /\ writer = Idle /\ told = "none" /\ torn = FALSE
  /\ counts = [calls |-> 0, faults |-> 0, controls |-> 0]

Counts(what, bound) == counts[what] < bound /\ counts' = [counts EXCEPT ![what] = @ + 1]

Finished == {"completed", "cancelled"}
Unfinished == {i \in DOMAIN task : task[i].status \notin Finished}

-------------------------------------------------------------------------------
(* process_work_plan_updates *)

At(place) == writer.at = place
Goes(place) == writer' = [writer EXCEPT !.at = place] /\ UNCHANGED told
Answers(answer) == writer' = Idle /\ told' = answer

Valid(plan) ==
  /\ plan.tasks # <<>>
  /\ plan.status = "completed" => \A n \in DOMAIN plan.tasks : plan.tasks[n].status \in Finished

\* The goal is found or created.
Call(plan) ==
  /\ At("idle") /\ Counts("calls", MaxCalls)
  /\ IF Valid(plan)
     THEN /\ writer' = [Idle EXCEPT !.at = "list", !.plan = plan]
          /\ goal' = IF goal = "none" THEN "active" ELSE goal
          /\ told' = "none"
     ELSE Answers("error") /\ UNCHANGED goal
  /\ UNCHANGED <<task, torn>>

\* ORDER BY position, created_at: the rows that come before one
Before(i) ==
  {j \in DOMAIN task : task[j].position < task[i].position \/ (task[j].position = task[i].position /\ j < i)}

\* list_goal_tasks
List ==
  /\ At("list")
  /\ writer' = [writer EXCEPT !.at = "store",
       !.existing = [n \in DOMAIN task |-> CHOOSE i \in DOMAIN task : Cardinality(Before(i)) = n - 1]]
  /\ UNCHANGED <<goal, task, told, torn, counts>>

\* Mutant of Effective: a task that is not named is new.
EffectiveOrNew(n) ==
  LET id == writer.plan.tasks[n].id
  IN IF \E k \in DOMAIN writer.existing : writer.existing[k] = id THEN id ELSE 0

\* effective_plan_task_id: the task named, or the one at this position, or a new one.
Effective(n) ==
  LET id == writer.plan.tasks[n].id
  IN CASE \E k \in DOMAIN writer.existing : writer.existing[k] = id -> id
       [] OTHER -> IF n \in DOMAIN writer.existing THEN writer.existing[n] ELSE 0

\* upsert_goal_task
Store ==
  LET n == writer.next
      row == IF Effective(n) = 0 THEN Len(task) + 1 ELSE Effective(n)
      value == [position |-> n, status |-> writer.plan.tasks[n].status]
  IN
  /\ At("store") /\ n <= Len(writer.plan.tasks)
  /\ task' = IF row \in DOMAIN task THEN [task EXCEPT ![row] = value] ELSE Append(task, value)
  /\ writer' = [writer EXCEPT !.next = @ + 1, !.rows = Append(@, row)]
  /\ UNCHANGED <<goal, told, torn, counts>>

\* Mutant of Count: it relies on the tasks of the plan.
CountsNothing ==
  /\ At("store") /\ writer.next > Len(writer.plan.tasks)
  /\ Goes("write")
  /\ UNCHANGED <<goal, task, torn, counts>>

\* update_goal_metadata counts the unfinished tasks, and then writes the status.
Count ==
  /\ At("store") /\ writer.next > Len(writer.plan.tasks)
  /\ IF writer.plan.status = "completed" /\ Unfinished # {}
     THEN Answers("error") /\ torn' = TRUE
     ELSE Goes("write") /\ UNCHANGED torn
  /\ UNCHANGED <<goal, task, counts>>

Write ==
  /\ At("write") /\ goal' = writer.plan.status
  /\ Goes("report")
  /\ torn' = FALSE
  /\ UNCHANGED <<task, counts>>

\* get_goal_with_tasks, link_work_run_goal; the run continues.
Report ==
  /\ At("report") /\ Answers("stored")
  /\ UNCHANGED <<goal, task, torn, counts>>

\* A statement fails, or the server ends.
Fails ==
  /\ ~At("idle") /\ Counts("faults", MaxFaults)
  /\ Answers("error")
  /\ torn' = (torn \/ At("store") \/ At("write"))
  /\ UNCHANGED <<goal, task>>

-------------------------------------------------------------------------------
(* set_goal_control_state: one transaction each *)

Controls == Counts("controls", MaxControls) /\ UNCHANGED <<writer, told, torn>>

Pause ==
  /\ goal \in {"active", "blocked"} /\ goal' = "paused"
  /\ Controls /\ UNCHANGED task

\* The user resumes; a resumed run that cannot start pauses the goal again.
Resume ==
  /\ goal \in {"paused", "blocked"} /\ goal' \in {"active", "paused"}
  /\ Controls /\ UNCHANGED task

Cancel ==
  /\ goal \notin Finished \union {"none"} /\ goal' = "cancelled"
  /\ task' = [i \in DOMAIN task |-> IF i \in Unfinished THEN [task[i] EXCEPT !.status = "cancelled"] ELSE task[i]]
  /\ Controls

Next == (\E plan \in Plans : Call(plan)) \/ List \/ Store \/ Count \/ Write \/ Report \/ Fails \/ Pause \/ Resume \/ Cancel
Spec == Init /\ [][Next]_planVars

-------------------------------------------------------------------------------
(* Properties *)

TypeOK ==
  /\ goal \in GoalStates \union {"none"}
  /\ writer.at \in {"idle", "list", "store", "write", "report"}
  /\ \A k \in DOMAIN writer.existing : writer.existing[k] \in DOMAIN task
  /\ told \in {"none", "stored", "error"}

\* A goal that is completed has no unfinished task, whatever was paused, cancelled or resumed in
\* between, unless a later plan was only stored in part (work.rs 237-245).
CompletedIsDone == (goal = "completed" /\ ~torn /\ ~At("store") /\ ~At("write")) => Unfinished = {}

\* When the model is told that its plan was stored each of its tasks has a row, at its position
\* and with its status unless it was cancelled meanwhile; but where two tasks of the plan took
\* the same row the earlier one is gone.
PlanStored ==
  At("report") =>
    \A n \in DOMAIN writer.plan.tasks :
      (\A k \in n + 1 .. Len(writer.rows) : writer.rows[k] # writer.rows[n]) =>
        /\ task[writer.rows[n]].position = n
        /\ task[writer.rows[n]].status \in {writer.plan.tasks[n].status, "cancelled"}

\* A plan that is written again, after a failure or as it goes on, finds its tasks: the goal has
\* never more of them than its longest plan (tools.rs 885-897).
TasksFoundAgain == task # <<>> => \E plan \in Plans : Len(task) <= Len(plan.tasks)

PlanKept == CompletedIsDone /\ PlanStored /\ TasksFoundAgain
===============================================================================
