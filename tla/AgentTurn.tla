-------------------------------- MODULE AgentTurn --------------------------------
(***************************************************************************)
(* The runs of the agent in one conversation: what a run asks of the       *)
(* model, what it does with the reply, what it stores, and how it ends     *)
(* (agent/run.rs, streaming.rs, goal_tracking.rs and tools.rs).            *)
(*                                                                         *)
(* Between two statements of a run other tasks store messages: the user,   *)
(* the schedule, the outbox, and the requests that decide the actions a    *)
(* run has asked approval for.  Which run has the conversation is the      *)
(* subject of ConversationRuns; here there is one run at a time.           *)
(***************************************************************************)
EXTENDS ContextWindow

CONSTANTS
  Replies,        \* what the model may answer: sequences of tools, <<>> for a text
  Optimised,      \* openai_optimizations: requests are chained by response id
  MaxIterations,  \* max_agent_iterations
  MaxWindow,      \* max_context_messages
  Budget          \* bounds: of runs, messages, notes, faults, crashes

ASSUME TurnAssumption ==
  /\ Replies \subseteq Seq(STRING)
  /\ MaxIterations \in Nat \ {0} /\ MaxWindow \in Nat \ {0} /\ Optimised \in BOOLEAN

VARIABLES
  transcript,  \* the messages of the conversation
  goals,       \* its goals
  actions,     \* pending_actions that are not settled, and those a request is settling
  row,         \* work_runs.status of each run
  wanted,      \* the runs somebody is about to start
  saved,       \* the available checkpoints of deferred runs
  run,         \* the current or last run
  context,     \* messages: the full context of the run
  chained,     \* chained_messages: what happened since the last response
  tracker,     \* GoalTracker
  cancel,      \* a stop is requested
  issued,      \* tool calls the model has made
  spoiled,     \* a tool task panicked, a plan was stored halfway
  used         \* of the budget

durable == <<transcript, goals, actions, row, wanted, saved>>
vars == <<durable, run, context, chained, tracker, cancel, issued, spoiled, used>>

-------------------------------------------------------------------------------
(* Messages, tools and replies *)

Plain(role, name) == [role |-> role, calls |-> {}, of |-> 0, size |-> 1, name |-> name]
UserSays == Plain("user", "message")
Says == Plain("assistant", "text")
System(name) == Plain("system", name)
Asks(calls) == [Says EXCEPT !.calls = calls]
Answers(call) == [Plain("tool", "result") EXCEPT !.of = call]
Warns(call) == [Plain("tool", "warning") EXCEPT !.of = call]

Plans == {"plan_open", "plan_more", "plan_done"}
Planned(plan) == [status |-> IF plan = "plan_done" THEN "completed" ELSE "active",
                  done |-> IF plan = "plan_open" THEN 0 ELSE 1]

\* The calls of a reply, with their ids.
Numbered(reply) == [n \in DOMAIN reply |-> [id |-> issued + n, tool |-> reply[n], ok |-> TRUE]]
Ids(calls) == {calls[n].id : n \in DOMAIN calls}
Has(tools) == \E n \in DOMAIN run.reply : run.reply[n].tool \in tools

-------------------------------------------------------------------------------
(* The state of a run *)

NoTracker == [goal |-> 0, open |-> FALSE, done |-> 0, batch |-> <<>>, repeats |-> 0, work |-> {}, reads |-> {}]
Idle(outcome) == [phase |-> "idle", from |-> {}, scheduled |-> FALSE, iteration |-> 0, reflected |-> FALSE, premature |-> 0,
                  previous |-> FALSE, asked |-> {}, reply |-> <<>>, left |-> <<>>, approval |-> FALSE,
                  outcome |-> outcome]

Init ==
  /\ transcript = <<>> /\ goals = <<>> /\ actions = {} /\ row = <<>> /\ wanted = {} /\ saved = {}
  /\ run = Idle("none") /\ context = <<>> /\ chained = <<>> /\ tracker = NoTracker
  /\ cancel = FALSE /\ issued = 0 /\ spoiled = {}
  /\ used = [messages |-> 0, notes |-> 0, faults |-> 0, crashes |-> 0]

May(what) == used[what] < Budget[what]
Uses(what) == May(what) /\ used' = [used EXCEPT ![what] = @ + 1]

Row(status) == row' = [row EXCEPT ![Len(row)] = status]
Pending == \E a \in actions : a.status \in {"pending", "uncertain"}

\* The checkpoint a run has claimed is available again.
Released == saved' = saved \union run.from

\* A run ends; what it kept in memory is gone.
Ends(outcome) ==
  /\ run' = [Idle(outcome) EXCEPT !.scheduled = run.scheduled] /\ context' = <<>> /\ chained' = <<>> /\ cancel' = FALSE
  /\ UNCHANGED issued

-------------------------------------------------------------------------------
(* Other tasks *)

\* A message of the user, unless an action is to be decided first; the prompt of a scheduled
\* task.
Write(reason) ==
  /\ Uses("messages") /\ reason \in {"message", "schedule"}
  /\ reason = "message" => \A a \in actions : a.status # "pending"
  /\ transcript' = Append(transcript, UserSays)
  /\ wanted' = wanted \union {reason}
  /\ UNCHANGED <<goals, actions, row, saved, run, context, chained, tracker, cancel, issued, spoiled>>

\* A note of the outbox or of an event is told in the conversation.
StoreNote ==
  /\ Uses("notes")
  /\ transcript' = Append(transcript, Says)
  /\ UNCHANGED <<goals, actions, row, wanted, saved, run, context, chained, tracker, cancel, issued, spoiled>>

\* A run that finds the conversation taken is given up; schedules and continuations wait.
TurnedAway(reason) ==
  /\ run.phase # "idle" /\ reason \in wanted \intersect {"message", "approval"}
  /\ wanted' = wanted \ {reason}
  /\ UNCHANGED <<transcript, goals, actions, row, saved, run, context, chained, tracker, cancel, issued, spoiled, used>>

\* Where the request that decides an action stands, and what becomes of an action whose request
\* is given up: it stays "executing" in the database, or it is settled and the run never resumed.
\* After ActionResolved ("told") it writes no row any more.
AtWork == {"executing", "answered", "resolved", "finished"}
GivenUp == {"abandoned", "dropped"}
Executing == {"executing", "answered", "abandoned"}

\* The ids of a finite set, each once.
InAnyOrder(S) == {ids \in [1 .. Cardinality(S) -> S] : \A m, n \in DOMAIN ids : ids[m] = ids[n] => m = n}

Becomes(a, status) == actions' = (actions \ {a}) \union {[a EXCEPT !.status = status]}

\* decide_action: the claim, and for an approved action ToolStarted.
ClaimAction(a, approved) ==
  /\ a.status = "pending"
  /\ actions' = (actions \ {a}) \union {[a EXCEPT !.status = "executing", !.approved = approved]}
  /\ row' = IF approved THEN [row EXCEPT ![a.run] = "running"] ELSE row
  /\ UNCHANGED <<transcript, goals, wanted, saved, run, context, chained, tracker, cancel, issued, spoiled, used>>

\* Its answer is stored, whatever the conversation is doing.
StoreAnswer(a) ==
  /\ a.status = "executing" /\ Becomes(a, "answered")
  /\ transcript' = Append(transcript, Answers(a.call))
  /\ UNCHANGED <<goals, row, wanted, saved, run, context, chained, tracker, cancel, issued, spoiled, used>>

\* resolve_pending_action
ResolveAction(a) ==
  /\ a.status = "answered" /\ Becomes(a, "resolved")
  /\ UNCHANGED <<transcript, goals, row, wanted, saved, run, context, chained, tracker, cancel, issued, spoiled, used>>

\* ToolFinished, which writes the row of the run again.
ToolFinished(a) ==
  /\ a.status = "resolved" /\ a.approved /\ Becomes(a, "finished")
  /\ row' = [row EXCEPT ![a.run] = "running"]
  /\ UNCHANGED <<transcript, goals, wanted, saved, run, context, chained, tracker, cancel, issued, spoiled, used>>

\* pending_action_batch_is_resolved
BatchResolved(a) == \A b \in actions \ {a} : b.run = a.run => b.status \notin {"pending"} \union Executing

ActionResolved(a) ==
  /\ a.status = IF a.approved THEN "finished" ELSE "resolved"
  /\ Becomes(a, "told")
  /\ row' = [row EXCEPT ![a.run] = IF BatchResolved(a) THEN "completed" ELSE "waiting_for_approval"]
  /\ UNCHANGED <<transcript, goals, wanted, saved, run, context, chained, tracker, cancel, issued, spoiled, used>>

\* The last one of a run resumes it.
ResumeBatch(a) ==
  /\ a.status = "told" /\ actions' = actions \ {a}
  /\ wanted' = IF BatchResolved(a) THEN wanted \union {"approval"} ELSE wanted
  /\ UNCHANGED <<transcript, goals, row, saved, run, context, chained, tracker, cancel, issued, spoiled, used>>

\* A statement of the request fails, or its client goes away.
AbandonAction(a) ==
  /\ a.status \in AtWork \union {"told"} /\ Uses("faults")
  /\ Becomes(a, IF a.status \in Executing THEN "abandoned" ELSE "dropped")
  /\ UNCHANGED <<transcript, goals, row, wanted, saved, run, context, chained, tracker, cancel, issued, spoiled>>

Decides(a) ==
  \/ ClaimAction(a, TRUE) \/ ClaimAction(a, FALSE) \/ StoreAnswer(a) \/ ResolveAction(a)
  \/ ToolFinished(a) \/ ActionResolved(a) \/ ResumeBatch(a) \/ AbandonAction(a)

Stop ==
  /\ run.phase # "idle" /\ ~cancel /\ Uses("notes")
  /\ cancel' = TRUE
  /\ UNCHANGED <<durable, run, context, chained, tracker, issued, spoiled>>

\* The server ends and starts again: mark_running_work_interrupted; executing actions are
\* uncertain and their calls answered by a warning, whether or not they were answered before;
\* nobody starts the runs of requests that are gone.
Crash ==
  /\ Uses("crashes")
  /\ Ends("interrupted")
  /\ row' = [r \in DOMAIN row |-> IF row[r] \in {"running", "waiting_for_approval"} THEN "interrupted" ELSE row[r]]
  /\ actions' = {a \in actions : a.status \in {"pending", "uncertain"}}
                \union {[a EXCEPT !.status = "uncertain"] : a \in {b \in actions : b.status \in Executing}}
  /\ \E calls \in InAnyOrder({a.call : a \in {b \in actions : b.status \in Executing}}) :
       transcript' = transcript \o [n \in DOMAIN calls |-> Warns(calls[n])]
  /\ wanted' = wanted \ {"message", "approval"}
  /\ Released
  /\ UNCHANGED <<goals, tracker, spoiled>>

-------------------------------------------------------------------------------
(* A run begins *)

\* prepare_run_context
Prepared(continues, scheduled) ==
  LET window == SubSeq(transcript, Max({1, Len(transcript) - MaxWindow + 1}), Len(transcript))
      Extra(b, name) == IF b THEN <<System(name)>> ELSE <<>>
  IN <<System("prompt")>>
       \o Extra(scheduled, "scheduled_execution_mode")
       \o Extra(continues, "run_checkpoint")
       \o Bounded(Sanitized(WithoutFinished(Sanitized(window))))
       \o Extra(continues, "goal_tracker")

Starts(from, scheduled) ==
  /\ run.phase = "idle" /\ Len(row) < Budget.runs
  /\ row' = Append(row, "running")
  /\ run' = [Idle("none") EXCEPT !.phase = "top", !.from = from, !.scheduled = scheduled]
  /\ context' = Prepared(from # {}, scheduled)
  /\ spoiled' = {}
  /\ UNCHANGED <<transcript, goals, actions, chained, cancel, issued, used>>

\* A run that is not bound to a goal looks at an active one of the conversation, if there is one.
Begin(reason) ==
  LET active == {g \in DOMAIN goals : goals[g].status = "active"} IN
  /\ reason \in wanted
  /\ wanted' = wanted \ {reason}
  /\ \E done \in IF active = {} THEN {0} ELSE {goals[g].done : g \in active} :
       tracker' = [NoTracker EXCEPT !.done = done]
  /\ Starts({}, reason = "schedule")
  /\ UNCHANGED saved

\* A continuation is bound to the goal of its checkpoint.
Continue(checkpoint) ==
  /\ checkpoint \in saved /\ ~Pending
  /\ saved' = saved \ {checkpoint}
  /\ LET goal == goals[checkpoint.goal] IN
     tracker' = [NoTracker EXCEPT !.goal = checkpoint.goal, !.open = goal.status = "active",
                                  !.done = goal.done, !.reads = checkpoint.reads]
  /\ Starts({checkpoint}, checkpoint.scheduled)
  /\ UNCHANGED wanted

-------------------------------------------------------------------------------
(* The goal of a run *)

\* Mutant of Withheld: what the run did counts, not its goal.
WithheldIfWorked == ~run.scheduled /\ Cardinality(tracker.work) >= 2

\* active_goal_continuation_message: a reply now would leave work behind.
Withheld ==
  /\ ~run.scheduled
  /\ IF tracker.goal = 0 THEN Cardinality(tracker.work) >= 2 ELSE tracker.open

\* defer_run_with_checkpoint: under the goal of the run, or one that is made for it.
Defer ==
  LET goal == IF tracker.goal # 0 THEN tracker.goal ELSE Len(goals) + 1 IN
  /\ goals' = IF tracker.goal # 0 THEN goals ELSE Append(goals, [status |-> "active", done |-> 0])
  /\ saved' = saved \union {[goal |-> goal, reads |-> tracker.reads, scheduled |-> run.scheduled]}
  /\ Row("queued") /\ Ends("deferred")
  /\ UNCHANGED <<transcript, actions, wanted, tracker, spoiled, used>>

\* ensure_run_not_cancelled
Cancelled ==
  /\ cancel
  /\ Row("cancelled") /\ Ends("cancelled")
  /\ UNCHANGED <<transcript, goals, actions, wanted, saved, tracker, spoiled, used>>

\* An error ends the run; a row that is completed already may stay so.
Fail ==
  /\ Uses("faults")
  /\ Row("failed") \/ (row[Len(row)] = "completed" /\ UNCHANGED row)
  /\ Released /\ Ends("failed")
  /\ UNCHANGED <<transcript, goals, actions, wanted, tracker, spoiled>>

-------------------------------------------------------------------------------
(* A request to the model *)

At(phase) == run.phase = phase
Iterates == run' = [run EXCEPT !.phase = "top", !.iteration = @ + 1, !.reply = <<>>]

\* The iterations or the time of the run are used up.
RunOut ==
  /\ At("top") /\ run.iteration > 0
  /\ run.iteration < MaxIterations => ~cancel
  /\ Defer

StopAtTop == At("top") /\ run.iteration < MaxIterations /\ Cancelled

\* inject_goal_tracking_message: at the second place, and once.
Tracked(s) ==
  LET others == Selected(s, {i \in DOMAIN s : s[i] # System("goal_tracker")})
  IN <<others[1], System("goal_tracker")>> \o Tail(others)

Think ==
  /\ At("top") /\ run.iteration < MaxIterations /\ ~cancel
  /\ run' = [run EXCEPT !.phase = IF Optimised /\ run.previous THEN "chained" ELSE "full"]
  /\ IF run.iteration = 0 THEN UNCHANGED <<context, chained>>
     ELSE /\ context' = Bounded(Tracked(context))
          /\ chained' = Append(chained, System("goal_tracker"))
  /\ Row("running")
  /\ UNCHANGED <<transcript, goals, actions, wanted, saved, tracker, cancel, issued, spoiled, used>>

\* The request that continues the last response fails before anything was shown: the whole
\* context is sent instead.
ChainBreaks ==
  /\ At("chained") /\ Uses("faults")
  /\ run' = [run EXCEPT !.phase = "full"]
  /\ UNCHANGED <<durable, context, chained, tracker, cancel, issued, spoiled>>

Reply(reply) ==
  /\ run.phase \in {"chained", "full"} /\ reply \in Replies
  /\ run' = [run EXCEPT !.phase = IF reply = <<>> THEN "text" ELSE "batch", !.reply = Numbered(reply),
                        !.previous = TRUE, !.asked = Ids(Numbered(reply))]
  /\ chained' = <<>>
  /\ issued' = issued + Len(reply)
  /\ UNCHANGED <<durable, context, tracker, cancel, spoiled, used>>

NoReply == run.phase \in {"chained", "full"} /\ (Cancelled \/ Fail)

-------------------------------------------------------------------------------
(* A reply without tool calls *)

Revises(name) ==
  /\ context' = context \o <<Says, System(name)>>
  /\ chained' = Append(chained, System(name))
  /\ UNCHANGED <<durable, tracker, cancel, issued, spoiled, used>>

\* self_reflect finds the answer wanting, at most once.
Reflect ==
  /\ At("text") /\ ~run.reflected
  /\ run' = [run EXCEPT !.phase = "top", !.iteration = @ + 1, !.reflected = TRUE]
  /\ Revises("feedback")

\* The goal is still open; the third time the run is deferred.
Withhold ==
  /\ At("text") /\ Withheld /\ run.premature < 2
  /\ run' = [run EXCEPT !.phase = "top", !.iteration = @ + 1, !.premature = @ + 1]
  /\ Revises("active_goal_continuation")

GiveUp == At("text") /\ Withheld /\ run.premature = 2 /\ Defer

\* persist_final_assistant_response, RunCompleted
Stores ==
  /\ transcript' = Append(transcript, Says)
  /\ Row("completed") /\ Ends("final")
  /\ UNCHANGED <<goals, actions, wanted, saved, tracker, spoiled, used>>

Finish == At("text") /\ ~Withheld /\ Stores

-------------------------------------------------------------------------------
(* A reply with tool calls *)

Batch == [n \in DOMAIN run.reply |-> run.reply[n].tool]
Repeats == IF tracker.batch = Batch THEN tracker.repeats + 1 ELSE 1
Noted == [tracker EXCEPT !.batch = Batch, !.repeats = Repeats]

\* Mutant of Warn: the next request continues the response whose calls nobody answers.
WarnChained ==
  /\ At("batch") /\ Repeats = 2
  /\ tracker' = Noted
  /\ Iterates
  /\ context' = context \o <<Says, System("loop_guard")>>
  /\ UNCHANGED <<durable, chained, cancel, issued, spoiled, used>>

\* The same batch for the second time: it is not executed, and as its calls stay unanswered
\* the next request does not continue this response.
Warn ==
  /\ At("batch") /\ Repeats = 2
  /\ tracker' = Noted
  /\ run' = [run EXCEPT !.phase = "top", !.iteration = @ + 1, !.reply = <<>>, !.previous = FALSE]
  /\ context' = context \o <<Says, System("loop_guard")>>
  /\ UNCHANGED <<durable, chained, cancel, issued, spoiled, used>>

\* For the third time: the run is deferred, or says that it is stuck.
Stuck ==
  /\ At("batch") /\ Repeats >= 3
  /\ IF Withheld THEN Defer ELSE Stores

Record ==
  /\ At("batch") /\ Repeats = 1
  /\ tracker' = Noted
  /\ transcript' = Append(transcript, Asks(Ids(run.reply)))
  /\ context' = Append(context, Asks(Ids(run.reply)))
  /\ run' = [run EXCEPT !.phase = "tools"]
  /\ UNCHANGED <<goals, actions, row, wanted, saved, chained, cancel, issued, spoiled, used>>

\* No call counts as done of a batch that plans or activates.
Early == [n \in DOMAIN run.reply |-> [run.reply[n] EXCEPT !.ok = FALSE]]

WillAnswer(calls) == [run EXCEPT !.phase = "answers", !.reply = <<>>, !.left = calls]

\* process_work_plan_updates: the first plan of the batch is stored, the other calls are
\* answered that they come too early.  The goal is the run's own, one the model names, or new.
Plan ==
  LET plan == Planned(run.reply[Min({n \in DOMAIN run.reply : run.reply[n].tool \in Plans})].tool)
      known == IF run.from # {} THEN {tracker.goal}
               ELSE DOMAIN goals \union (IF Len(goals) < Budget.goals THEN {Len(goals) + 1} ELSE {})
  IN
  /\ At("tools") /\ Has(Plans)
  /\ \E goal \in known :
       /\ goals' = IF goal \in DOMAIN goals THEN [goals EXCEPT ![goal] = plan] ELSE Append(goals, plan)
       /\ tracker' = [tracker EXCEPT !.goal = goal, !.open = plan.status = "active", !.done = plan.done]
       /\ run' = [WillAnswer(Early) EXCEPT !.premature = IF plan.done > tracker.done THEN 0 ELSE @]
  /\ UNCHANGED <<transcript, actions, row, wanted, saved, context, chained, cancel, issued, spoiled, used>>

\* One of its statements fails: the call is answered with the error, what was stored stays.
PlanFails ==
  /\ At("tools") /\ Has(Plans) /\ Uses("faults")
  /\ goals' \in {goals, Append(goals, [status |-> "active", done |-> 0])}
  /\ spoiled' = spoiled \union {"plan"}
  /\ run' = WillAnswer(Early)
  /\ UNCHANGED <<transcript, actions, row, wanted, saved, context, chained, tracker, cancel, issued>>

\* process_capability_activation: other calls are answered that they come too early.
Activate ==
  /\ At("tools") /\ ~Has(Plans) /\ Has({"activate"})
  /\ run' = WillAnswer(Early)
  /\ UNCHANGED <<durable, context, chained, tracker, cancel, issued, spoiled, used>>

Executed(calls, waits) == [WillAnswer(calls) EXCEPT !.phase = "executed", !.approval = waits]

\* partition_authorized_calls, split_repeated_reads, execute_tool_batch: calls that need
\* approval wait, reads that succeeded before are answered from memory, and after the others.
\* A call may fail or time out; the task of a concurrent one may panic and leave no result.
Execute ==
  LET waits == {n \in DOMAIN run.reply : run.reply[n].tool = "approve"}
      again == {n \in DOMAIN run.reply : run.reply[n].tool \in tracker.reads}
      runs == DOMAIN run.reply \ (waits \union again)
      Results(bad, lost) ==
        [n \in 1 .. Len(Selected(run.reply, runs \ lost)) |->
           LET c == Selected(run.reply, runs \ lost)[n] IN [c EXCEPT !.ok = c.id \notin bad]]
        \o Selected(run.reply, again)
      Asked == {[call |-> run.reply[n].id, run |-> Len(row), status |-> "pending", approved |-> FALSE] : n \in waits}
  IN
  /\ At("tools") /\ ~Has(Plans \union {"activate"})
  /\ actions' = actions \union Asked
  /\ \/ run' = Executed(Results({}, {}), waits # {}) /\ UNCHANGED <<spoiled, used>>
     \/ \E n \in runs :
          /\ Uses("faults")
          /\ \/ run' = Executed(Results({run.reply[n].id}, {}), waits # {})
                /\ UNCHANGED spoiled
             \/ run.reply[n].tool = "read"
                /\ run' = Executed(Results({}, {n}), waits # {})
                /\ spoiled' = spoiled \union {"tool"}
  /\ row' = [row EXCEPT ![Len(row)] = IF runs = {} /\ waits # {} THEN "waiting_for_approval" ELSE "running"]
  /\ UNCHANGED <<transcript, goals, wanted, saved, context, chained, tracker, cancel, issued>>

\* A stop during the execution: no result is stored.
StopTools == At("executed") /\ Cancelled

Collect ==
  /\ At("executed") /\ ~cancel
  /\ run' = [run EXCEPT !.phase = "answers"]
  /\ UNCHANGED <<durable, context, chained, tracker, cancel, issued, spoiled, used>>

\* The next result is stored.
Answer ==
  LET c == Head(run.left)
      work == IF c.ok /\ c.tool \in {"read", "write"} THEN tracker.work \union {c.tool} ELSE tracker.work
  IN
  /\ At("answers") /\ run.left # <<>>
  /\ transcript' = Append(transcript, Answers(c.id))
  /\ context' = Append(context, Answers(c.id))
  /\ chained' = Append(chained, Answers(c.id))
  /\ tracker' = [tracker EXCEPT !.work = work, !.reads = IF c.ok /\ c.tool = "read" THEN @ \union {"read"} ELSE @]
  /\ run' = [run EXCEPT !.left = Tail(@), !.premature = IF work # tracker.work THEN 0 ELSE @]
  /\ Row("running")
  /\ UNCHANGED <<goals, actions, wanted, saved, cancel, issued, spoiled, used>>

\* RunWaitingForApproval, or the next iteration.
Answered ==
  /\ At("answers") /\ run.left = <<>>
  /\ IF run.approval
     THEN /\ Row("waiting_for_approval") /\ Ends("waiting")
          /\ UNCHANGED <<transcript, goals, actions, wanted, saved, tracker, spoiled, used>>
     ELSE Iterates /\ UNCHANGED <<durable, context, chained, tracker, cancel, issued, spoiled, used>>

\* A message cannot be stored.
StoreFails == run.phase \in {"text", "batch", "answers"} /\ Fail

-------------------------------------------------------------------------------
(* The specification *)

Others ==
  \/ \E reason \in {"message", "schedule"} : Write(reason) \/ TurnedAway(reason)
  \/ TurnedAway("approval") \/ StoreNote \/ Stop \/ Crash
  \/ \E a \in actions : Decides(a)

Begins == (\E reason \in {"message", "schedule", "approval"} : Begin(reason)) \/ (\E c \in saved : Continue(c))

Asking == Think \/ ChainBreaks \/ NoReply \/ \E reply \in Replies : Reply(reply)
Texts == Reflect \/ Withhold \/ GiveUp \/ Finish
Tools == Warn \/ Stuck \/ Record \/ Plan \/ PlanFails \/ Activate \/ Execute \/ StopTools \/ Collect \/ Answer \/ Answered
Runs == RunOut \/ StopAtTop \/ Asking \/ Texts \/ Tools \/ StoreFails

Next == Others \/ Begins \/ Runs

\* A run that goes on ends, whatever the model answers.
Spec == Init /\ [][Next]_vars /\ WF_vars(Runs)

-------------------------------------------------------------------------------
(* Properties *)

Phases == {"idle", "top", "chained", "full", "text", "batch", "tools", "executed", "answers"}
Statuses == {"running", "waiting_for_approval", "completed", "queued", "cancelled", "failed", "interrupted"}

\* The types of the variables.
TypeOK ==
  /\ run.phase \in Phases /\ run.iteration \in 0..MaxIterations /\ run.premature \in 0..2
  /\ \A r \in DOMAIN row : row[r] \in Statuses
  /\ tracker.goal \in 0..Len(goals)
  /\ \A a \in actions : a.status \in {"pending", "uncertain", "told"} \union AtWork \union GivenUp /\ a.run \in DOMAIN row
  /\ \A c \in saved : c.goal \in DOMAIN goals

\* What the model is asked is well formed, whatever was stored in between: of the full context
\* every call is answered directly after it, and a request that continues a response answers
\* exactly its calls, each once; unless the task of a tool panicked (run.rs, streaming.rs).
RequestsWhole ==
  LET tools == {n \in DOMAIN chained : chained[n].role = "tool"}
  IN "tool" \notin spoiled =>
       /\ run.phase = "full" => Paired(context)
       /\ run.phase = "chained" =>
            /\ {chained[n].of : n \in tools} = run.asked
            /\ \A m, n \in tools : chained[m].of = chained[n].of => m = n

\* No call has two answers, though the run and the requests that decide its actions both store
\* them, unless the server ended after the answer to an action was stored and before the action
\* was settled: then a warning follows the answer, once, and the action is uncertain (tools.rs,
\* handlers/actions.rs, files_actions.rs).
AnsweredOnce ==
  \A i, j \in DOMAIN transcript :
    (i < j /\ transcript[i].role = "tool" /\ transcript[j].role = "tool" /\ transcript[i].of = transcript[j].of) =>
      /\ transcript[i].name = "result" /\ transcript[j].name = "warning"
      /\ \E a \in actions : a.call = transcript[j].of /\ a.status = "uncertain"

\* A run that answers the user has not left the goal it is bound to open, unless it is the run
\* of a schedule or a plan was stored halfway (run.rs 328-377, 393-430).
FinalGoalClosed ==
  (run.outcome = "final" /\ ~run.scheduled /\ "plan" \notin spoiled /\ tracker.goal # 0)
    => goals[tracker.goal].status # "active"

\* A row says that a run is running only as long as the run goes on or a request decides an
\* action of it, or if such a request was given up (events.rs).
RunningIsTrue ==
  \A r \in DOMAIN row : row[r] = "running" =>
    \/ run.phase # "idle" /\ r = Len(row)
    \/ \E a \in actions : a.run = r /\ a.status \in AtWork \union GivenUp

\* What the runs of a conversation keep, whatever the model answers and others do meanwhile.
TurnKept == RequestsWhole /\ AnsweredOnce /\ FinalGoalClosed /\ RunningIsTrue

\* A run ends.
RunsEnd == run.phase # "idle" ~> run.phase = "idle"
===============================================================================
