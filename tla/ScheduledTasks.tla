---------------------------- MODULE ScheduledTasks ----------------------------
(***************************************************************************)
(* The schedule (jossie-integration-scheduler, repositories/scheduler.rs,  *)
(* src/event_loop/scheduler.rs, handlers/scheduler.rs).                    *)
(*                                                                         *)
(* Tools of the agent store tasks.  The event loop lists the due ones,     *)
(* claims one after the other and spawns an executor for each, which       *)
(* stores the prompt of the task as a message of the conversation, runs    *)
(* the agent in it and settles the task.  Executors, the user's            *)
(* cancellations and other turns of the conversation interleave; a         *)
(* statement may fail, the server may stop at any point.                   *)
(***************************************************************************)
EXTENDS Naturals

CONSTANTS
  Tasks,      \* ids of tasks, all of one conversation
  Repeating,  \* those with an interval or a cron expression
  MaxRuns,    \* max_runs of each task, or NoLimit
  NoLimit,
  Wish,       \* what a task asks for: its schedule and its normalized prompt
  RunBound,   \* bound on the runs of a task without a limit
  MaxTurns,   \* bound on the other claims of the conversation
  MaxFaults,  \* bound on failing statements
  MaxCrashes  \* bound on server crashes

ASSUME ScheduleAssumption ==
  /\ Repeating \subseteq Tasks
  /\ NoLimit \notin Nat /\ MaxRuns \in [Tasks -> Nat \union {NoLimit}]
  /\ \A t \in Tasks \ Repeating : MaxRuns[t] = 1
  /\ RunBound \in Nat \ {0} /\ MaxTurns \in Nat /\ MaxFaults \in Nat /\ MaxCrashes \in Nat
  /\ Tasks \intersect {"nobody", "turn", "background"} = {}

VARIABLES
  status, due, runCount,  \* scheduled_tasks: status, next_run_at has come, run_count
  looping,     \* the scheduler's part of the loop: "down" before the recovery at startup
  listed,      \* the rest of its list
  executor,    \* where the executor of each task stands
  owner,       \* who owns the conversation
  unanswered,  \* the prompt of the task stands in the conversation and no run has read it
  ran,         \* runs of the agent that began for each task
  turns, faults, crashes

rowVars == <<status, due, runCount>>
historyVars == <<unanswered, ran>>
vars == <<rowVars, looping, listed, executor, owner, historyVars, turns, faults, crashes>>

Settled == {"completed", "failed", "cancelled"}
Active(t) == status[t] \in {"pending", "running"}

Init ==
  /\ status = [t \in Tasks |-> "absent"]
  /\ due = [t \in Tasks |-> FALSE]
  /\ runCount = [t \in Tasks |-> 0]
  /\ looping = "idle" /\ listed = {}
  /\ executor = [t \in Tasks |-> "none"]
  /\ owner = "nobody"
  /\ unanswered = [t \in Tasks |-> FALSE]
  /\ ran = [t \in Tasks |-> 0]
  /\ turns = 0 /\ faults = 0 /\ crashes = 0

Fault == faults < MaxFaults /\ faults' = faults + 1
NoFault == UNCHANGED <<turns, faults, crashes>>
Executor(t, from, to) == executor[t] = from /\ executor' = [executor EXCEPT ![t] = to]

-------------------------------------------------------------------------------
(* The statements on a row.  All but the first two look at the status. *)

\* create_scheduled_task
CreateRow(t) ==
  /\ status' = [status EXCEPT ![t] = "pending"]
  /\ UNCHANGED <<due, runCount>>

\* cancel_active_scheduled_task
CancelRow(t) ==
  /\ status' = [status EXCEPT ![t] = IF Active(t) THEN "cancelled" ELSE @]
  /\ UNCHANGED <<due, runCount>>

\* mark_task_running_if_pending
ClaimRow(t) ==
  /\ status' = [status EXCEPT ![t] = IF @ = "pending" THEN "running" ELSE @]
  /\ UNCHANGED <<due, runCount>>

\* Mutant of NextRun: the status is not looked at.
NextRunAnyway(t, counted) ==
  /\ status' = [status EXCEPT ![t] = "pending"]
  /\ due' = [due EXCEPT ![t] = FALSE]
  /\ runCount' = [runCount EXCEPT ![t] = IF counted THEN @ + 1 ELSE @]

\* update_task_next_run
NextRun(t, counted) ==
  IF status[t] = "running"
  THEN /\ status' = [status EXCEPT ![t] = "pending"]
       /\ due' = [due EXCEPT ![t] = FALSE]
       /\ runCount' = [runCount EXCEPT ![t] = IF counted THEN @ + 1 ELSE @]
  ELSE UNCHANGED rowVars

\* mark_task_completed, mark_task_failed
Finish(t, outcome) ==
  /\ status' = [status EXCEPT ![t] = IF @ = "running" THEN outcome ELSE @]
  /\ UNCHANGED <<due, runCount>>

\* Mutant of InterruptRows: interrupted tasks are tried again.
RetryRows ==
  /\ status' = [t \in Tasks |-> IF status[t] = "running" THEN "pending" ELSE status[t]]
  /\ UNCHANGED <<due, runCount>>

\* mark_running_scheduled_tasks_interrupted: not retried.
InterruptRows ==
  /\ status' = [t \in Tasks |-> IF status[t] = "running" THEN "failed" ELSE status[t]]
  /\ UNCHANGED <<due, runCount>>

-------------------------------------------------------------------------------
(* The agent's tools and the user *)

\* find_existing_agent_run_task: the same wish is not stored twice.
Existing(t) == \E u \in Tasks : Active(u) /\ Wish[u] = Wish[t]

\* schedule_task, schedule_recurring_task and schedule_cron_task.
Schedule(t) ==
  /\ looping # "down"
  /\ status[t] = "absent"
  /\ ~Existing(t)
  /\ CreateRow(t)
  /\ UNCHANGED <<looping, listed, executor, owner, historyVars>> /\ NoFault

\* cancel_scheduled_task of the agent, and the user's request.
Cancel(t) ==
  /\ looping # "down"
  /\ Active(t)
  /\ CancelRow(t)
  /\ UNCHANGED <<looping, listed, executor, owner, historyVars>> /\ NoFault

\* Time passes until next_run_at.
FallsDue(t) ==
  /\ status[t] = "pending" /\ ~due[t]
  /\ MaxRuns[t] = NoLimit => runCount[t] < RunBound
  /\ due' = [due EXCEPT ![t] = TRUE]
  /\ UNCHANGED <<status, runCount, looping, listed, executor, owner, historyVars>> /\ NoFault

\* Another turn, which reads what stands in the conversation, or background work claims
\* the conversation and releases it.
OtherClaims(w) ==
  /\ looping # "down"
  /\ owner = "nobody" /\ turns < MaxTurns
  /\ owner' = w /\ turns' = turns + 1
  /\ unanswered' = [t \in Tasks |-> w = "background" /\ unanswered[t]]
  /\ UNCHANGED <<rowVars, looping, listed, executor, ran, faults, crashes>>

OtherReleases ==
  /\ owner \in {"turn", "background"}
  /\ owner' = "nobody"
  /\ UNCHANGED <<rowVars, looping, listed, executor, historyVars>> /\ NoFault

-------------------------------------------------------------------------------
(* The loop: process_scheduled_tasks *)

\* list_pending_scheduled_tasks
List ==
  /\ looping = "idle"
  /\ \E t \in Tasks : status[t] = "pending" /\ due[t]
  /\ looping' = "claiming"
  /\ listed' = {t \in Tasks : status[t] = "pending" /\ due[t]}
  /\ UNCHANGED <<rowVars, executor, owner, historyVars>> /\ NoFault

\* The list is done with.
EndList ==
  /\ looping = "claiming" /\ listed = {}
  /\ looping' = "idle"
  /\ UNCHANGED <<rowVars, listed, executor, owner, historyVars>> /\ NoFault

\* A task that nobody has changed is claimed; one that has used up its runs is
\* completed, another one gets an executor.
Claim(t) ==
  /\ looping = "claiming" /\ t \in listed
  /\ ClaimRow(t)
  /\ listed' = listed \ {t}
  /\ IF status[t] # "pending" THEN UNCHANGED <<looping, executor>>
     ELSE IF MaxRuns[t] # NoLimit /\ runCount[t] >= MaxRuns[t]
     THEN /\ looping' = "completing"
          /\ executor' = [executor EXCEPT ![t] = "used up"]
     ELSE /\ UNCHANGED looping
          /\ executor' = [executor EXCEPT ![t] = "started"]
  /\ UNCHANGED <<owner, historyVars>> /\ NoFault

\* The loop itself completes a task that has used up its runs.
Complete(t) ==
  /\ looping = "completing"
  /\ Executor(t, "used up", "none")
  /\ Finish(t, "completed")
  /\ looping' = "claiming"
  /\ UNCHANGED <<listed, owner, historyVars>> /\ NoFault

\* A failing statement ends the tick; a task that was to be completed stays running.
TickFails ==
  /\ looping \in {"claiming", "completing"} /\ listed \union {t \in Tasks : executor[t] = "used up"} # {}
  /\ Fault
  /\ looping' = "idle" /\ listed' = {}
  /\ executor' = [t \in Tasks |-> IF executor[t] = "used up" THEN "none" ELSE executor[t]]
  /\ UNCHANGED <<rowVars, owner, historyVars, turns, crashes>>

-------------------------------------------------------------------------------
(* The executor of a task: execute_scheduled_task *)

\* A conversation that is busy defers the task by 30 seconds.
DeferBusy(t) ==
  /\ owner # "nobody"
  /\ Executor(t, "started", "none")
  /\ NextRun(t, FALSE)
  /\ UNCHANGED <<looping, listed, owner, historyVars>> /\ NoFault

FoundFree(t) ==
  /\ owner = "nobody"
  /\ Executor(t, "started", "posting")
  /\ UNCHANGED <<rowVars, looping, listed, owner, historyVars>> /\ NoFault

\* The prompt becomes a message of the conversation.
PostPrompt(t) ==
  /\ Executor(t, "posting", "claiming")
  /\ unanswered' = [unanswered EXCEPT ![t] = TRUE]
  /\ UNCHANGED <<rowVars, looping, listed, owner, ran>> /\ NoFault

\* The run claims the conversation; background work yields to it.
BeginRun(t) ==
  /\ owner \in {"nobody", "background"}
  /\ Executor(t, "claiming", "running")
  /\ owner' = t
  /\ ran' = [ran EXCEPT ![t] = @ + 1]
  /\ unanswered' = [u \in Tasks |-> FALSE]
  /\ UNCHANGED <<rowVars, looping, listed>> /\ NoFault

\* Somebody was faster: the prompt stays in the conversation, the task is deferred.
DeferRace(t) ==
  /\ owner \notin {"nobody", "background"}
  /\ Executor(t, "claiming", "none")
  /\ NextRun(t, FALSE)
  /\ UNCHANGED <<looping, listed, owner, historyVars>> /\ NoFault

\* The run answers, asks for an approval or defers itself; or it fails or is stopped.
EndRun(t) ==
  /\ executor[t] = "running"
  /\ \E next \in {"settling", "failing"} : executor' = [executor EXCEPT ![t] = next]
  /\ owner' = "nobody"
  /\ UNCHANGED <<rowVars, looping, listed, historyVars>> /\ NoFault

\* The answer cannot be sent to Telegram.
ReplyFails(t) ==
  /\ Executor(t, "settling", "failing")
  /\ UNCHANGED <<rowVars, looping, listed, owner, historyVars>> /\ NoFault

\* A task for one time is completed, another one waits for its next time.
Settle(t) ==
  /\ Executor(t, "settling", "none")
  /\ IF t \in Repeating THEN NextRun(t, TRUE) ELSE Finish(t, "completed")
  /\ UNCHANGED <<looping, listed, owner, historyVars>> /\ NoFault

\* The spawned task stores the error.
StoreFailure(t) ==
  /\ Executor(t, "failing", "none")
  /\ Finish(t, "failed")
  /\ UNCHANGED <<looping, listed, owner, historyVars>> /\ NoFault

\* A statement of the executor fails; the error of the last one is dropped.
StatementFails(t) ==
  /\ executor[t] \in {"posting", "settling", "failing"}
  /\ Fault
  /\ executor' = [executor EXCEPT ![t] = IF @ = "failing" THEN "none" ELSE "failing"]
  /\ UNCHANGED <<rowVars, looping, listed, owner, historyVars, turns, crashes>>

-------------------------------------------------------------------------------
(* Crash and restart *)

Crash ==
  /\ looping # "down"
  /\ crashes < MaxCrashes
  /\ crashes' = crashes + 1
  /\ looping' = "down" /\ listed' = {}
  /\ executor' = [t \in Tasks |-> "none"]
  /\ owner' = "nobody"
  /\ UNCHANGED <<rowVars, historyVars, turns, faults>>

\* main.rs, before the event loop starts.
Restart ==
  /\ looping = "down"
  /\ InterruptRows
  /\ looping' = "idle"
  /\ UNCHANGED <<listed, executor, owner, historyVars>> /\ NoFault

Loop == List \/ EndList \/ TickFails \/ \E t \in Tasks : Claim(t) \/ Complete(t)

Execute(t) ==
  \/ DeferBusy(t) \/ FoundFree(t) \/ PostPrompt(t) \/ BeginRun(t) \/ DeferRace(t)
  \/ EndRun(t) \/ ReplyFails(t) \/ Settle(t) \/ StoreFailure(t) \/ StatementFails(t)

Next ==
  \/ \E t \in Tasks : Schedule(t) \/ Cancel(t) \/ FallsDue(t) \/ Execute(t)
  \/ Loop
  \/ \E w \in {"turn", "background"} : OtherClaims(w)
  \/ OtherReleases
  \/ Crash \/ Restart

Spec == Init /\ [][Next]_vars

\* The loop ticks, executors go on, time passes, runs and turns end.
Fairness ==
  /\ WF_vars(Loop) /\ WF_vars(OtherReleases) /\ WF_vars(Restart)
  /\ \A t \in Tasks : WF_vars(Execute(t)) /\ WF_vars(FallsDue(t))

FairSpec == Spec /\ Fairness

-------------------------------------------------------------------------------
(* Properties *)

TypeOK ==
  /\ status \in [Tasks -> {"absent", "pending", "running"} \union Settled]
  /\ due \in [Tasks -> BOOLEAN]
  /\ runCount \in [Tasks -> Nat]
  /\ looping \in {"down", "idle", "claiming", "completing"}
  /\ listed \subseteq Tasks
  /\ executor \in [Tasks -> {"none", "used up", "started", "posting", "claiming", "running",
                             "settling", "failing"}]
  /\ owner \in Tasks \union {"nobody", "turn", "background"}
  /\ unanswered \in [Tasks -> BOOLEAN]
  /\ ran \in [Tasks -> Nat]
  /\ turns \in 0..MaxTurns
  /\ faults \in 0..MaxFaults /\ crashes \in 0..MaxCrashes

\* A task runs once per occurrence and never more often than it was asked to, whatever
\* is deferred, cancelled, fails or is interrupted: a run that is not counted (it
\* goes on, failed, was cancelled or interrupted) is the last one.
RunsAsScheduled ==
  \A t \in Tasks :
    /\ ran[t] <= runCount[t] + 1
    /\ MaxRuns[t] # NoLimit => ran[t] <= MaxRuns[t]
    /\ status[t] = "pending" /\ executor[t] = "none" => ran[t] = runCount[t]

\* A row that is running is in the hands of an executor or of the loop, and an executor at
\* work has a row that is running or was cancelled; only a failing statement leaves a
\* row behind, until the next start.
RunningHasExecutor ==
  \A t \in Tasks :
    /\ executor[t] # "none" => status[t] \in {"running", "cancelled"}
    /\ status[t] = "running" => executor[t] # "none" \/ looping = "down" \/ faults > 0

\* Together: rows, executors and runs of a task tell the same story.
ScheduleKept == RunsAsScheduled /\ RunningHasExecutor

\* A task that was cancelled, has failed or is completed stays so, whatever its executor
\* still does ("cancel future executions without interrupting an already claimed run"), and
\* no executor is spawned for it.
ScheduleSettles ==
  [][\A t \in Tasks : status[t] \in Settled =>
       /\ status'[t] = status[t]
       /\ executor[t] = "none" => executor'[t] = "none"]_vars

\* A prompt that was stored before the conversation turned out to be busy is read by a run
\* in the end, unless its task is settled or left behind by a failing statement.
Answered(t) == ~unanswered[t] \/ status[t] \in Settled \/ faults > 0
PromptAnswered == \A t \in Tasks : ~Answered(t) ~> Answered(t)
===============================================================================
