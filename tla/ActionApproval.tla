----------------------------- MODULE ActionApproval -----------------------------
(***************************************************************************)
(* The approval of external actions: one batch of tool calls that a run    *)
(* proposes, the requests that decide them, and the run that goes on       *)
(* afterwards (jossie-server/src/handlers/actions.rs, agent/tools.rs       *)
(* 1049-1103, jossie-db/src/repositories/files_actions.rs 441-605).        *)
(*                                                                         *)
(* An action is shown as soon as its row exists, so requests decide while  *)
(* the run still proposes, or still executes the calls that need no        *)
(* approval.  Every request goes through its statements one at a time; it  *)
(* ends early when a statement fails or its client goes away.              *)
(***************************************************************************)
EXTENDS Naturals

CONSTANTS
  Actions,     \* the calls of the batch that need approval
  Deciders,    \* requests: approve_action, reject_action, a reply, a Telegram button
  NoAction,
  MaxCrashes   \* bound on server crashes

\* A run waits for an approval when some call of its batch needs one.
ASSUME ApprovalAssumption ==
  /\ Actions # {} /\ NoAction \notin Actions
  /\ MaxCrashes \in Nat

VARIABLES
  act,        \* pending_actions.status
  answers,    \* tool messages with the call's id in the transcript
  executed,   \* how often the external system saw the call
  row,        \* work_runs.status of the run that proposed the batch
  loop,       \* the proposing run: pc and whether it ends well
  busy,       \* the conversation has a foreground owner
  flag,       \* a stop is requested for the conversation
  decider,    \* the requests
  canceller,  \* cancel_run: the status it read, then "done"
  crashes

runVars == <<row, loop, busy, flag>>
actionVars == <<act, answers, executed>>
vars == <<act, answers, executed, row, loop, busy, flag, decider, canceller, crashes>>

Settled == {"completed", "failed", "rejected", "uncertain"}
Statuses == {"none", "pending", "executing"} \union Settled
Rows == {"running", "waiting_for_approval", "completed", "failed", "cancelled", "interrupted"}

Idle == [pc |-> "idle", action |-> NoAction, approve |-> FALSE, batch |-> FALSE]
Alive(d) == decider[d].pc \notin {"idle", "open", "busy", "resumed", "abandoned"}
Move(d, from, to) == decider[d].pc = from /\ decider' = [decider EXCEPT ![d].pc = to]

\* Mutant of BatchResolved: declined and failed actions keep the batch open.
BatchCompleted == \A a \in Actions : act[a] \in {"none", "completed"}

\* pending_action_batch_is_resolved
BatchResolved == \A a \in Actions : act[a] \notin {"pending", "executing"}

Init ==
  /\ act = [a \in Actions |-> "none"]
  /\ answers = [a \in Actions |-> 0]
  /\ executed = [a \in Actions |-> 0]
  /\ row = "running" /\ loop = [pc |-> "proposing", ok |-> TRUE]
  /\ busy = TRUE /\ flag = FALSE
  /\ decider = [d \in Deciders |-> Idle]
  /\ canceller = "idle" /\ crashes = 0

-------------------------------------------------------------------------------
(* The run that proposes the batch *)

\* create_pending_action, then ActionApprovalRequired
Propose(a) ==
  /\ loop.pc = "proposing" /\ act[a] = "none"
  /\ act' = [act EXCEPT ![a] = "pending"]
  /\ row' = "waiting_for_approval"
  /\ UNCHANGED <<answers, executed, loop, busy, flag, decider, canceller, crashes>>

\* The calls that need no approval: ToolStarted, ToolFinished.
ExecuteOthers ==
  /\ loop.pc = "proposing" /\ \E a \in Actions : act[a] # "none"
  /\ loop' = [loop EXCEPT !.pc = "executing"]
  /\ row' \in {row, "running"}
  /\ UNCHANGED <<actionVars, busy, flag, decider, canceller, crashes>>

\* ensure_run_not_cancelled after the calls; a stop writes RunCancelled.
CheckCancelled ==
  /\ loop.pc = "executing"
  /\ loop' = IF flag THEN [pc |-> "leaving", ok |-> FALSE] ELSE [loop EXCEPT !.pc = "asking"]
  /\ row' = IF flag THEN "cancelled" ELSE row
  /\ UNCHANGED <<actionVars, busy, flag, decider, canceller, crashes>>

\* RunWaitingForApproval, whatever has been decided by now.
WaitForApproval ==
  /\ loop.pc = "asking"
  /\ row' = "waiting_for_approval"
  /\ loop' = [loop EXCEPT !.pc = "leaving"]
  /\ UNCHANGED <<actionVars, busy, flag, decider, canceller, crashes>>

\* A statement fails.
FailRun ==
  /\ loop.pc \in {"proposing", "executing", "asking"}
  /\ loop' = [pc |-> "leaving", ok |-> FALSE]
  /\ UNCHANGED <<actionVars, row, busy, flag, decider, canceller, crashes>>

\* release_conversation
Release ==
  /\ loop.pc = "leaving"
  /\ loop' = [loop EXCEPT !.pc = "reporting"]
  /\ busy' = FALSE /\ flag' = FALSE
  /\ UNCHANGED <<actionVars, row, decider, canceller, crashes>>

\* RunCompleted or Error, unless the row already says otherwise.
Report ==
  /\ loop.pc = "reporting"
  /\ loop' = [loop EXCEPT !.pc = "over"]
  /\ row' = CASE loop.ok /\ row # "waiting_for_approval" -> "completed"
              [] ~loop.ok /\ row \notin {"cancelled", "completed", "failed"} -> "failed"
              [] OTHER -> row
  /\ UNCHANGED <<actionVars, busy, flag, decider, canceller, crashes>>

-------------------------------------------------------------------------------
(* A request that decides an action *)

\* Mutant of Claim: the update does not ask for 'pending'.
ClaimAnyStatus(d, a, approve) ==
  /\ decider[d] = Idle /\ act[a] # "none"
  /\ act' = [act EXCEPT ![a] = "executing"]
  /\ decider' = [decider EXCEPT ![d] =
                   [pc |-> "claimed", action |-> a, approve |-> approve, batch |-> FALSE]]
  /\ UNCHANGED <<answers, executed, runVars, canceller, crashes>>

\* claim_pending_action_at_revision; an action that is not pending is refused
\* (no step).
Claim(d, a, approve) ==
  /\ decider[d] = Idle /\ act[a] = "pending"
  /\ act' = [act EXCEPT ![a] = "executing"]
  /\ decider' = [decider EXCEPT ![d] =
                   [pc |-> "claimed", action |-> a, approve |-> approve, batch |-> FALSE]]
  /\ UNCHANGED <<answers, executed, runVars, canceller, crashes>>

\* ToolStarted
Announce(d) ==
  /\ decider[d].approve
  /\ Move(d, "claimed", "started")
  /\ row' = "running"
  /\ UNCHANGED <<actionVars, loop, busy, flag, canceller, crashes>>

\* registry.execute: from here the effect may have happened.
Execute(d) ==
  /\ Move(d, "started", "executed")
  /\ executed' = [executed EXCEPT ![decider[d].action] = @ + 1]
  /\ UNCHANGED <<act, answers, runVars, canceller, crashes>>

\* The tool message: the result, or that the user did not approve.
Record(d) ==
  /\ \/ Move(d, "executed", "recorded")
     \/ ~decider[d].approve /\ Move(d, "claimed", "recorded")
  /\ answers' = [answers EXCEPT ![decider[d].action] = @ + 1]
  /\ UNCHANGED <<act, executed, runVars, canceller, crashes>>

\* Mutant of Resolve: a failed call is stored with the status of its result.
ResolveAsError(d) ==
  /\ Move(d, "recorded", "resolved")
  /\ act' = [act EXCEPT ![decider[d].action] = IF decider[d].approve THEN "error" ELSE "rejected"]
  /\ row' = IF decider[d].approve THEN "running" ELSE row
  /\ UNCHANGED <<answers, executed, loop, busy, flag, canceller, crashes>>

\* resolve_pending_action writes whatever the status is; after an execution
\* ToolFinished.
Resolve(d) ==
  /\ Move(d, "recorded", "resolved")
  /\ \E s \in IF decider[d].approve THEN {"completed", "failed"} ELSE {"rejected"} :
       act' = [act EXCEPT ![decider[d].action] = s]
  /\ row' = IF decider[d].approve THEN "running" ELSE row
  /\ UNCHANGED <<answers, executed, loop, busy, flag, canceller, crashes>>

\* ActionResolved reads the batch, then writes the row of the run.
ReadBatch(d) ==
  /\ decider[d].pc = "resolved"
  /\ decider' = [decider EXCEPT ![d].pc = "publishing", ![d].batch = BatchResolved]
  /\ UNCHANGED <<actionVars, runVars, canceller, crashes>>

WriteRow(d) ==
  /\ Move(d, "publishing", "published")
  /\ row' = IF decider[d].batch THEN "completed" ELSE "waiting_for_approval"
  /\ UNCHANGED <<actionVars, loop, busy, flag, canceller, crashes>>

CheckBatch(d) ==
  /\ Move(d, "published", IF BatchResolved THEN "resuming" ELSE "open")
  /\ UNCHANGED <<actionVars, runVars, canceller, crashes>>

\* resume_batch_when_ready asks once more; Telegram does not.
StopResume(d) ==
  /\ ~BatchResolved
  /\ Move(d, "resuming", "open")
  /\ UNCHANGED <<actionVars, runVars, canceller, crashes>>

\* run_agent_loop claims the conversation, or fails with ConversationBusy: the
\* error is logged.
Resume(d) ==
  /\ Move(d, "resuming", IF busy THEN "busy" ELSE "running")
  /\ busy' = TRUE
  /\ flag' = IF busy THEN flag ELSE FALSE
  /\ UNCHANGED <<actionVars, row, loop, canceller, crashes>>

EndResumed(d) ==
  /\ Move(d, "running", "resumed")
  /\ busy' = FALSE /\ flag' = FALSE
  /\ UNCHANGED <<actionVars, row, loop, canceller, crashes>>

\* A statement fails, or the request's future is dropped.
Abandon(d) ==
  /\ Alive(d) /\ decider[d].pc # "running"
  /\ decider' = [decider EXCEPT ![d].pc = "abandoned"]
  /\ UNCHANGED <<actionVars, runVars, canceller, crashes>>

-------------------------------------------------------------------------------
(* Stops, the watchdog and restarts *)

\* cancel_run reads the row and marks it; the rest goes by the status it read.
CancelRun ==
  /\ canceller = "idle" /\ row \in {"running", "waiting_for_approval"}
  /\ canceller' = row
  /\ UNCHANGED <<actionVars, runVars, decider, crashes>>

\* Mutant of StopRun: executing actions are rejected as well.
StopRunAndExecutions ==
  /\ canceller \in {"running", "waiting_for_approval"} /\ canceller' = "done"
  /\ act' = IF canceller = "waiting_for_approval"
            THEN [a \in Actions |-> IF act[a] \in {"pending", "executing"} THEN "rejected" ELSE act[a]]
            ELSE act
  /\ row' = IF canceller = "waiting_for_approval" THEN "cancelled" ELSE row
  /\ flag' = TRUE
  /\ UNCHANGED <<answers, executed, loop, busy, decider, crashes>>

\* A run that waited is ended with its pending actions; request_cancel.
StopRun ==
  /\ canceller \in {"running", "waiting_for_approval"} /\ canceller' = "done"
  /\ act' = IF canceller = "waiting_for_approval"
            THEN [a \in Actions |-> IF act[a] = "pending" THEN "rejected" ELSE act[a]]
            ELSE act
  /\ row' = IF canceller = "waiting_for_approval" THEN "cancelled" ELSE row
  /\ flag' = TRUE
  /\ UNCHANGED <<answers, executed, loop, busy, decider, crashes>>

\* A running row of a conversation without an owner, once it is old.
Watchdog ==
  /\ row = "running" /\ ~busy
  /\ row' = "failed" /\ flag' = TRUE
  /\ UNCHANGED <<actionVars, loop, busy, decider, canceller, crashes>>

\* Mutant of Restart: interrupted actions are offered again.
RestartRetrying ==
  /\ crashes < MaxCrashes /\ crashes' = crashes + 1
  /\ act' = [a \in Actions |-> IF act[a] = "executing" THEN "pending" ELSE act[a]]
  /\ row' = IF row \in {"running", "waiting_for_approval"} THEN "interrupted" ELSE row
  /\ loop' = [loop EXCEPT !.pc = "over"]
  /\ busy' = FALSE /\ flag' = FALSE
  /\ decider' = [d \in Deciders |-> IF Alive(d) THEN [decider[d] EXCEPT !.pc = "abandoned"] ELSE decider[d]]
  /\ canceller' = IF canceller = "idle" THEN "idle" ELSE "done"
  /\ UNCHANGED <<answers, executed>>

\* A crash and the startup after it: mark_running_work_interrupted,
\* mark_interrupted_actions_uncertain.
Restart ==
  /\ crashes < MaxCrashes /\ crashes' = crashes + 1
  /\ act' = [a \in Actions |-> IF act[a] = "executing" THEN "uncertain" ELSE act[a]]
  /\ answers' = [a \in Actions |-> IF act[a] = "executing" THEN answers[a] + 1 ELSE answers[a]]
  /\ row' = IF row \in {"running", "waiting_for_approval"} THEN "interrupted" ELSE row
  /\ loop' = [loop EXCEPT !.pc = "over"]
  /\ busy' = FALSE /\ flag' = FALSE
  /\ decider' = [d \in Deciders |-> IF Alive(d) THEN [decider[d] EXCEPT !.pc = "abandoned"] ELSE decider[d]]
  /\ canceller' = IF canceller = "idle" THEN "idle" ELSE "done"
  /\ UNCHANGED executed

-------------------------------------------------------------------------------

RunStep ==
  \/ \E a \in Actions : Propose(a)
  \/ ExecuteOthers \/ CheckCancelled \/ WaitForApproval \/ FailRun \/ Release \/ Report

DeciderStep(d) ==
  \/ \E a \in Actions, approve \in BOOLEAN : Claim(d, a, approve)
  \/ Announce(d) \/ Execute(d) \/ Record(d) \/ Resolve(d)
  \/ ReadBatch(d) \/ WriteRow(d) \/ CheckBatch(d)
  \/ StopResume(d) \/ Resume(d) \/ EndResumed(d) \/ Abandon(d)

Next ==
  \/ RunStep
  \/ \E d \in Deciders : DeciderStep(d)
  \/ CancelRun \/ StopRun \/ Watchdog \/ Restart

Spec == Init /\ [][Next]_vars

-------------------------------------------------------------------------------
(* Properties *)

Pcs == {"idle", "claimed", "started", "executed", "recorded", "resolved", "publishing",
        "published", "resuming", "running", "open", "busy", "resumed", "abandoned"}
Loops == [pc : {"proposing", "executing", "asking", "leaving", "reporting", "over"}, ok : BOOLEAN]
Requests == [pc : Pcs, action : Actions \union {NoAction}, approve : BOOLEAN, batch : BOOLEAN]

TypeOK ==
  /\ act \in [Actions -> Statuses]
  /\ answers \in [Actions -> Nat] /\ executed \in [Actions -> Nat]
  /\ row \in Rows
  /\ loop \in Loops
  /\ busy \in BOOLEAN /\ flag \in BOOLEAN
  /\ decider \in [Deciders -> Requests]
  /\ canceller \in {"idle", "running", "waiting_for_approval", "done"}
  /\ crashes \in 0..MaxCrashes

\* However often, and from how many clients, an action is approved, and across
\* restarts ("they will not be retried", src/main.rs), the external system sees
\* it at most once, and what the store says of it is true: a completed or failed
\* action was executed and its result is in the transcript, a rejected or a
\* pending one was never executed.
OutcomeTrue ==
  \A a \in Actions :
    /\ executed[a] <= 1
    /\ act[a] \in {"completed", "failed"} => executed[a] = 1 /\ answers[a] = 1
    /\ act[a] \in {"none", "pending", "rejected"} => executed[a] = 0

\* A decision is final: neither a second request, nor a stop of the run, nor a
\* restart changes the status of an action that has been settled, although
\* resolve_pending_action does not look at it.
SettledForGood ==
  [][\A a \in Actions : act[a] \in Settled => act'[a] = act[a]]_vars

\* The request that settles the last action of the batch sees that it did and
\* goes on to the run: decisions from several clients never wait for each other.
\* Only a run that still owns the conversation, a stop, a failure or a crash
\* keeps the run from going on.
LastDecisionResumes ==
  /\ \A a \in Actions : act[a] \in {"completed", "failed", "rejected"}
  /\ \A d \in Deciders : ~Alive(d) /\ decider[d].pc # "abandoned"
  /\ canceller = "idle"
  => \E d \in Deciders : decider[d].pc \in {"resumed", "busy"}

\* "Approval waits are controlled by the user" (src/main.rs, watchdog_should_stop):
\* a run that nobody stopped and that is shown as waiting has an action to decide,
\* when every request ran to its end.  Fails: README section 5; not part of a run.
RowWaitsForDecision ==
  /\ canceller = "idle" /\ row = "waiting_for_approval" /\ loop.pc = "over"
  /\ \A d \in Deciders : ~Alive(d) /\ decider[d].pc # "abandoned"
  => \E a \in Actions : act[a] \in {"pending", "executing"}
===============================================================================
