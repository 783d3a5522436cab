# Jossie2: a verification project

Jossie2 is a personal assistant: a Rust server that runs an LLM agent for its user, over the web and
Telegram, and works for the user in the background. This directory holds TLA+ models of the parts of the
server where several tasks act on the same state, the TLC runs that check them, and TLAPS proofs of the
properties that matter most. All paths are relative to the repository's `src/`; `crates/jossie-server/src` is
shortened to `server`, `crates/jossie-db/src` to `db`, `src/event_loop` to `event_loop`.

- [1. The system](#1-the-system)
- [2. The modules](#2-the-modules)
- [3. The runs](#3-the-runs)
- [4. The proofs](#4-the-proofs)
- [5. Where the code and its documents disagree](#5-where-the-code-and-its-documents-disagree)
- [6. What is not modelled](#6-what-is-not-modelled)
- [7. Plan](#7-plan)

How to run it, in this directory:

    tlc -workers 2 -config MCEventDelivery.cfg MCEventDelivery.tla
    tlapm EventDeliveryProofs.tla

## 1. The system

One process, one SQLite database, one user. Work enters as a chat message (HTTP, WebSocket, Telegram), as an
integration event (mail, calendar, webhook), as a scheduled task, as a decision on an action, or as the
continuation of earlier work. Each of them wants to run the agent in a conversation; the conversation is
the resource they compete for.

| Part | State it keeps | Operations | What is hard | What makes it correct |
|---|---|---|---|---|
| Conversation ownership (`server/conversation_runs.rs`, `state.rs`, `agent/tools.rs`) | in memory: the map of leases, the set of waiting turns, stop flags, the registry of cancellation tokens | claim a lease (foreground, background), wait, preempt, stop, release | claims, drops of futures and wake-ups in any order; two locks for one stop | one owner per conversation; a waiting turn gets it; a stop reaches the run that is meant |
| Durable work (`db/work.rs`, `server/agent/run.rs`, `agent/continuations.rs`, `handlers/work.rs`) | goals, work runs, checkpoints | start, defer with a checkpoint, continue, pause, resume, cancel, recover at startup | the dispatcher, the user and a crash between any two statements | a checkpoint has one claimant and is used up only if its work went on; queued work is continued; nothing is left half-way |
| External actions (`server/handlers/actions.rs`, `agent/tools.rs`, `db/repositories/files_actions.rs`) | pending actions, the transcript, the row of the run | propose, approve, reject, stop, restart | decisions from several clients while the run still works | an effect at most once, a true and final outcome, and the run goes on after the last decision |
| Event queue and delivery (`event_loop/events.rs`, `event_delivery.rs`, `db/event_retries.rs`) | integration events with status, retry window, delivery mark | insert, claim, evaluate, deliver, defer, retry, give up, recover | a statement may fail after the request went out; groups change between attempts; restarts | told at most once, settled for good, settled in the end |
| Event evaluation (`server/agent/event_mode.rs`) | none | triage, read evidence, decide | interrupted by turns, slow model | gives up its lease; reports every failure as what it is |
| Agent loop (`server/agent/run.rs`, `tools.rs`, `streaming.rs`, `goal_tracking.rs`) | the messages of a turn | call the model, run tools, plan, compact | cancellation at every await, limits, parallel tools | ends with an answer, an approval, a checkpoint or an error |
| Scheduler and outbox (`event_loop/scheduler.rs`, `db/repositories/scheduler.rs`) | scheduled tasks, out-of-band messages | claim, run, defer, repeat, send | tasks run beside the loop; crash while running | a due task runs once per occurrence |
| Heartbeat (`event_loop/heartbeat.rs`) | the time of the last one | claim the slot, evaluate, deliver | a slow evaluation | one per interval |
| Files and chat imports (`server/handlers/files.rs`, `conversations.rs`, `jossie-integration-files`) | records, data on disk, import rows and their progress | upload, attach, delete, import, stop, resume | data and records are changed by separate steps; imports, deletions and messages want the same file | a file in use is there; a part is imported once |
| Mail and calendar polling (`jossie-integration-email`, `jossie-integration-google`) | cursors, pauses of accounts | poll, store events, move the cursor, pause, resume | the mailbox changes between two requests; the cursor is several settings | no cursor passes what was not stored |
| Messages of the user (`server/handlers/chat.rs`) | messages by `client_message_id`, their runs | send, send again, answer an action | two transports, retries, a run that is claimed by whoever comes first | a message has one turn; "accepted" can be relied on |
| Context and summaries (`agent/context_window.rs`, `reflection_knowledge.rs`) | the summary and its cursor | bound, compact, summarise | two writers of one summary | requests are well formed; what is left out is in the summary |
| Memories and graph (`db/repositories/memory.rs`, `graph.rs`) | rows by key, nodes, edges | save, forget, upsert, extract | saves of several statements | what was saved last is recalled |
| Telegram secretary (`jossie-telegram/src/secretary.rs`, `server/agent/secretary.rs`, `db/repositories/telegram_secretary.rs`) | managed chats with a revision of their transcript, drafts with a revision of their text | record messages, edits, deletions; draft, edit, approve, send | every report is a task of its own; revision and messages are separate statements | what is sent is what was approved, written from all that was known; one draft at a time |
| Telegram bot (`jossie-telegram`) | linked chats, offsets | turns, buttons, commands | duplicated and late updates | a button does what its message says |
| HTTP, WebSocket, event stream (`server/handlers`, `server/events.rs`) | the broadcast channel | control requests, publication of events | publishing an event also writes work rows | rows follow the order of events |
| LLM client (`jossie-llm`) | the state of one answer | stream, retry, fall back | an attempt fails after part of it was shown | one answer, not two halves |
| Registry and policy (`jossie-core/src/integration`) | the table of tools | register, execute, retry | a call that timed out may have worked | an effect is not repeated |
| Database start (`db/lib.rs`, `migrations`) | the schema | back up, repair, migrate | a crash between two statements | data survives, a start that succeeds leaves a whole schema |
| Other integrations, configuration, frontend | little or none | calls to other systems | | |

How the parts interact: an agent run claims the conversation (ownership), writes its progress through
published events (`events.rs` updates the work rows), may propose actions (approval) or save a checkpoint
(durable work), and releases the conversation. The dispatcher and the event worker are background workers
of the same lease. A decision on the last action of a batch starts a new run. At startup `main.rs`
runs the recovery steps of durable work, schedules, actions and imports, in this order, before anything
else; the event loop recovers its own queue when it starts.

`PROJECT.json` lists each component with its status, and every hazard at the line where it bites.

## 2. The modules

Contended state first: who has a conversation, what a run leaves behind, what is told to the user.

| Module | Role |
|---|---|
| `ConversationLock` | abstract: a lock with background holders and one reservation |
| `ConversationRuns` | the protocol of leases, waiters, cancellation tokens and flags |
| `ConversationStops` | `ConversationRuns` with the history of stops that a user asked for |
| `WorkContinuations` | goals, runs, checkpoints, dispatcher, controls, crash and startup; over the abstract lock |
| `WorkPlan` | how the plan of a goal and its tasks are stored while the user controls the goal |
| `ActionApproval` | a batch of actions, the run that proposes it, the requests that decide it |
| `EventPromise` | abstract: an event arrives, is told at most once, is settled |
| `EventDelivery` | the queue, the worker, delivery, retries, failing statements, crashes |
| `SecretaryDrafts` | a managed Telegram chat: reports, drafting, the owner's edits and decisions, the send, crashes |
| `SecretaryReview` | `SecretaryDrafts` with the messages and buttons a decision is based on |
| `ScheduledTasks` | the schedule: tools, loop, executors, cancellations, other turns, crashes |
| `Outbox` | the ticks of the background loop, its out-of-band messages, the heartbeat |
| `FileImports` | uploads, attachments, deletions of files and conversations, chat imports |
| `MailPolling` | the pollers of IMAP, Gmail and the calendar, their cursors, the pause of an account |
| `ChatMessages` | a message of the user over both transports, with its retries, to the start of its turn |
| `AgentTurn` | the iterations of a run: requests, replies, tools, goals, approvals, deferral; over `ContextWindow` |
| `LlmClient` | one answer of the model: attempts, stream, channel, fallback |
| `ToolCalls` | the calls of one reply: concurrency, time limits, retries, the policy, the registry |
| `RollingSummary` | the summary of a conversation and those who write it |
| `Knowledge` | memories and the knowledge graph, written by several tasks |
| `Migrations` | opening, repairing and migrating the database, with crashes |
| `Background` | the schedule, outbox, files and pollers together: their constants, variables, instances and properties |
| `TurnParts` | what a turn is made of and leaves behind, together: messages, answers, calls, plans, summaries, stores, the schema |
| `ContextWindow`, `ImportText`, `MailReading` | pure functions: the bounding of a context, the reading of exports, the mail tools |
| `*Proofs` | TLAPS proofs (section 4): `ConversationProofs` is about `ConversationRuns` and the modules of `TurnParts`, `BackgroundProofs` about those of `Background`, `WindowProofs` about `ContextWindow`, the others about the module of their name |
| `MC*` | the instances TLC checks |

**Steps.** A step of a model is what the code does between two awaits, or one statement or transaction of
the database: SQLite has one writer. Statements that nothing else can tell apart are merged into one step.
A crash stops all tasks and keeps the rows.

**ConversationRuns.** `active` and `token` are the map of `Owners.active` (a conversation with an entry, and
the token in it), `waiting` is `Owners.waiting`, `notified` are the waiters whose `Notify` future was
enabled before a notification, `flag` and `registry` are the two maps of `AppState`, `cancelled` the tokens
that fired, `watch` the token that a `select!` listens to. `claim_foreground` is the actions `StartWaiting`,
`EnableNotified`, `TryAcquire`, `WakeUp`, `DropWaiter`, and `AbandonWaiting` when its future is dropped;
`request_cancel` is two actions, for it takes two locks. Conversations share one `Notify`, so a release in
one wakes the waiters of all.

**WorkContinuations.** `goal`, `run`, `ck`, `act` are the tables, `newest` what `ORDER BY updated_at
DESC LIMIT 1` can choose (rows written together are equally new), `task` the tokio task behind each run.
The conversation is the abstract lock: `owner`, tasks that wait, `preempted`. The wrapper
`run_agent_loop_with_lease` is the chain from `ClaimCheckpoint` to `Report`; an iteration of the agent ends with
`Final`, `SaveCheckpoint`, `Fail` or `ObserveCancel`, or it goes on. A plan is two steps, the status of the goal
(`PlanGoal`) and the link of the run (`LinkGoal`), between which a pause may come and a failing read leaves the
goal active without a run (`LoseLink`). A batch with external calls is `Propose` for each action, `ExecuteOthers` for the
calls that need no approval, and `WaitForApproval`; decisions may come at any point of it.
A decision is `request`: it claims the action, publishes `ToolStarted`, resolves, publishes `ToolFinished`, reads the
batch and writes the row, each a step, and may be given up at each (`AbandonAction`). The answers and the external effect are
in `AgentTurn` and `ActionApproval`. The run that goes on after the last decision is a turn. `Watchdog` fails a running row of
an idle conversation whose task has ended: the code waits for longer than any call may take, and a task that is past its lease
writes the row before that. `left` is a
history: goals that somebody made active and then left, by a plan that failed halfway or by a resume of a goal with a
linked schedule (`handlers/work.rs:182`). The recovery of `main.rs` is
four actions that a crash may separate. An id of a run or an action is used once, so every behaviour ends.

**ActionApproval.** One batch. `act`, `row`, `answers` are the tables, `executed` counts what the external
system saw, `decider` is where each request stands between its statements, with the batch it read for
`ActionResolved`. `Abandon` is a statement that fails or a client that goes away.

**EventDelivery.** `status`, `delivering`, `window`, `due` are the columns, `told` counts the requests to
Telegram that may have reached the user. The worker is sequential: `pc`, the rest of its list, its group,
and the loop that settles a group one statement at a time. The times are abstract: a retry is due or not, the
24 hours since the first failure are over or not. Fewer than `PENDING_LIMIT` (20) events wait, so their order
is left open. Evaluation is a choice among its outcomes, with mail that cannot be read failing by
itself. A statement that fails is an action (`ClaimFails`, `DeliveryFails`, `FinishFails`) bounded by
`MaxFaults`. If the recovery statement itself fails, the server starts without an event loop at all
(`main.rs` logs the error): not modelled.

**SecretaryDrafts.** One managed chat. A report (`Inbound`, `OwnMessages`, `Edits`, `Deletions`) is a task; `written`
is what the `messages` table shows of it, `counted` what `transcript_revision` (`rev`) has counted: two statements for
messages, edits and sent replies, one transaction for deletions. `cur` and `read` are the two reads of
`create_secretary_draft_inner`; a draft keeps them as `source` (`source_revision`) and `basis`, a history of what the
model read. `status`, `revision` are the row, `exec` the request that decides it, `approved`, `known`, `sent`
histories of the approval and of the send. Web and Telegram name the revision they approve; the API's
approval without a revision, which no client of the repository sends for a draft, is left out, and so are the 900 ms
in which messages are batched, connections, and the echo of a sent reply.
`SecretaryReview` adds `button`, what the buttons under each message of the bot decide, and `tap`, the one callback
at a time that `try_activate_chat` lets through.

**ScheduledTasks.** `status`, `due`, `runCount` are the row (`next_run_at` is due or not), `listed` the rest of the
loop's list, `executor` where the spawned executor of each task stands, `unanswered` and `ran` histories. The executor
checks whether the conversation is free, stores the prompt, claims the conversation and runs: four steps, between which
the user cancels and other turns come and go. Two tools that store the same wish find one another (`Existing`). The
conversation is who has it, as in the abstract lock.

**Outbox.** `stage` is the part of the tick: polls, events, tasks, outbox, heartbeat, in the order of `worker.rs`. A note
is told, posted, marked and its run closed, each with a statement; `taken` is `last_heartbeat`.

**FileImports.** `place` is where the data is, `record` whether there is a row. A deletion moves the data into the
trash, deletes the record if the database still lets it, and then destroys the data or moves it back; while it is at work, the
request that moved the data has it. A failing statement has it put back (`DeletionFails`); a failing move is only logged, and
where the handler returns early or is dropped nothing is put back (`SettleFails`, `CutShort`): the data is then in `trash` for
good. `savedFor` is the conversation in the record, which media from a chat has. The importer is one task per spawn with its own claim; `memories` is what was saved, with the
chunk it came from and the attempt.

**MailPolling.** The IMAP cursor is two settings, hence two steps; `torn` says that a mailbox was replaced where the code
cannot notice. Google feeds share the account: `current` and `revoked` are refresh tokens, `pausedFor` is
the token the pause remembers.

**ChatMessages.** One `client_message_id`. `at` is where each request stands between the statements of
`handle_ws` and `chat_handler`; `waiting` counts turns that are spawned and have not claimed the conversation.

**AgentTurn.** `run.phase` is the await a run stands at; `transcript` is the table of messages, `context` what it
asks the model, `chained` what it sends when a request continues a response. Tools are few kinds: one that reads, one that
writes, one that needs approval, and those that plan, replan, finish and activate. What a panicked tool or a plan stored
in part leaves behind is remembered in `spoiled`. The request that decides an action stands at one of its statements: the
claim with `ToolStarted`, the answer, `resolve_pending_action`, `ToolFinished`, `ActionResolved`, the resume; it may be given up
after each, and a restart answers the calls of the actions that it finds executing once more, with a warning.

**LlmClient.** A piece of text is the number of the attempt it belongs to, so that an answer put together from two
attempts can be told. **ToolCalls** counts what each call has done outside. **RollingSummary** numbers the messages and
keeps of a summary which of them went into it. **Knowledge** has one key and one pair of nodes: rows of different keys
meet in no statement. **WorkPlan** keeps the rows of a goal in their order and how far the call that stores a plan has come.
**Migrations** keeps of a database which tables it has and which columns, and what the first start found.

**Functions.** `ContextWindow`, `ImportText`, `MailReading` and the last parts of `LlmClient`, `Knowledge` and `ToolCalls`
are operators on short sequences and small records, stated next to what they promise (a reference definition, or a
relation of input and output). The suites check them over the inputs listed there.

## 3. The runs

Every run is finite and checks all states of its instance; sizes are distinct states. `work_controls` alone has a `CONSTRAINT`:
`Within` (`MCWorkContinuations`) keeps two later runs apart from actions, and from a second control while the turn is under way.

| Run | Instance | Checks | Shows |
|---|---|---|---|
| `ownership` | a turn, a continuation and an evaluator in one conversation, an evaluator in another, fair; 42k | `TypeOK`, `MutualExclusion`, `PreemptionDelivered`, `OwnTokenRegistered`, `CancellationAssertion`, `ImplementsLock`, `ForegroundAdmitted` | claims, waits, stops and drops in any order keep one owner and reach the right run; a turn that waits gets the conversation or gives up, and no notification is lost |
| `stop_while_waiting` | one turn and the work it waits for | `StopHonoured`, violated | finding 1 |
| `work_controls` | one goal, a turn with two actions, two later runs, two decisions or controls; 2.0M | `TypeOK`, `ClaimExclusive`, `ConsumedIsCarriedOn`, `NotStranded`, `RunningRowHasTask` | the dispatcher, resumes and stops never work twice from a checkpoint or lose one; with decisions at any point of a run, crossing or given up on the way, no active goal is out of reach and no row runs without somebody at work, but for the rows they are known to leave open |
| `work_crash` | a turn and one later run, one action, one control or decision, two crashes, a plan that may block the goal, fair; 523k | `InterruptedGoalCovered`, `QueuedWorkContinues` | the recovery covers a crash at any step, also one within the recovery; queued work is claimed by a later run |
| `pause_holds` | one control | `PauseHolds`, violated | finding 3 |
| `approval` | two actions, three requests, a stop, the watchdog, one restart; 201k | `TypeOK`, `OutcomeTrue`, `LastDecisionResumes`, `SettledForGood` | one effect, one final and true outcome per action; the last decision goes on to the run |
| `events` | two mails, two failing statements, two crashes, fair; 78k | `TypeOK`, `ClaimedIsInHand`, `ImplementsPromise`, `EventSettles` | no event is told twice, taken up again, or left behind without a failing statement; every event is settled in the end |
| `secretary` | a message, its edit, a deletion, two revisions of a draft, one failing statement, one crash; 527k | `TypeOK`, `SentAsApproved`, `NothingOverlooked`, `OnePendingDraft`, `OutcomeTrue` | reports, drafting, edits and decisions in any order: only the approved text is sent, from a transcript with all that was known |
| `drafts_shown` | two messages, buttons | `SentAsShown`, violated | finding 6 |
| `background` | seven parts, below, fair; 572k | `TypesOK`, `ScheduleKept`, `ScheduleSettles`, `OutboxKept`, `FilesKept`, `MailKept`, `TextsRead`, `BackgroundSettles` | what the server does without being asked is done once, nothing is lost between two stores, and what waits is done in the end |
| `turn` | thirteen parts, below, fair; 480k | `TypesOK`, `TurnKept`, `PartsKept`, `FunctionsHold`, `TurnSettles` | a turn asks whole questions, says nothing untrue, and leaves stores that can be relied on; runs, answers, calls and starts end |
| `retried_turn` | one socket client that sends twice, one deferral | `TurnBegunOnce`, violated | finding 7 |

**The suites.** `background` and `turn` hold several modules that share no state: a behaviour is one of one `part`, chosen
in the initial state, and each invariant is the conjunction of what the parts promise (`Background`, `TurnParts`). `deletions`
and `imports`, `inbox` and `google`, `chat` and `retries` are scenarios of one instance each: which of its steps are taken is
restricted. `tools`, `goals`, `restarts` and `failures` are four instances of `AgentTurn`, with different replies and budgets.

| Suite | Part | Instance | Checked |
|---|---|---|---|
| `background` | `schedule` | two tasks, one that repeats, one other turn, one failing statement, one crash | `RunsAsScheduled`, `RunningHasExecutor`, `ScheduleSettles`; every stored prompt is read |
| | `outbox` | two notes, one with a Telegram chat and one already recorded, one interval | `NotesToldOnce`, `HeartbeatPaced`; notes settle |
| | `deletions` | two deletions of a file or one of two files, a conversation, an import, a fault, a crash (with one file) | `FilesKept`, `ImportedOnce` |
| | `imports` | a file, two import tasks, two attempts, failing statements, a crash | the same; imports end |
| | `inbox` | two mails, a mailbox replaced once | `NoMailPassed`; mail is noticed |
| | `google` | Gmail and a calendar, one reconnection, one expired cursor | the same; a reconnected account is polled again |
| | `texts` | exports, chunks, chats, searches, pages, references, parts of messages | the functions of `ImportText` and `MailReading` |
| `turn` | `tools` | two runs that read and ask for approval, a fault, a note, chained requests | `RequestsWhole`, `AnsweredOnce`, `RunningIsTrue`; runs end |
| | `goals` | one run of four iterations that plans, activates, finishes | the same, `FinalGoalClosed` |
| | `restarts` | three runs, a crash, full requests | the same; the warning after an answer |
| | `failures` | two runs, a crash, a failing statement or request given up | the same |
| | `chat` | two sockets and a POST, one of them a "yes" | `BegunOnce`, `AcceptedIsKept` |
| | `retries` | a socket and a POST that send three times | the same |
| | `summary` | two updates and a run, six messages | `SummaryHolds` |
| | `answer` | two retries, a channel of two, two pieces | `AnswerIsOne`; the answer ends |
| | `plan` | three plans out of six, two controls, a fault | `PlanKept` |
| | `knowledge` | two savers, a run and the extraction that add a relation, deletions | `KnowledgeKept` |
| | `batch` | a write, a GET, an external call | `EffectsOnce`; calls end |
| | `schema` | every version and state of the attachments, two crashes | `SchemaKept`; the start ends |
| | `functions` | transcripts, streams, outputs, attachments, delays, pages, paths, codes, policies, registrations | the functions of `ContextWindow`, `LlmClient`, `Knowledge`, `ToolCalls` |

**Why the bounds are enough.** Where there are proofs, the instances keep what only TLC shows. Ownership: a turn, two
kinds of background work, and a conversation that exists for its wake-ups are what liveness depends on; a second turn
that finds a waiter is covered by the proofs, for any number of workers. Durable work: a checkpoint and
two runs that want it, then a checkpoint of the first of them; a third claimant behaves like the second. One goal, as
no statement relates two. Two controls are a pause and a resume, or two stops in different orders; two decisions are those that
settle a batch, and cross. Two later runs compete for a checkpoint, which no action takes part in, so they are followed without
actions; a turn under way, with both controls, meets one later run. With crashes one later run is enough: it continues the turn that was interrupted. Approval: two actions make a batch that one decision leaves
open; three requests are two that settle the batch and one that comes twice. Events: a group of one, a group of
two, and the same mail in a group of one after a group of two; single and calendar events, of which a group is one event,
are covered by the proofs. Two failing statements and two crashes hit a retry as well. Secretary: two tasks that draft
and one change that does not; two revisions are a text and its edit. The suites: two of whatever competes (executors, deletions, import tasks, savers, updates, clients) and
one failing statement or crash to hit any step; a second instance of a module where one would
have to be large for two questions at once (deletions and imports, tools and goals and restarts). The retries of a message
need three sends: the third finds a run that a crash has queued a second time. Their invariants were also run
on larger instances by hand (three of a kind, two faults and crashes, up to some ten million states), which change no verdict
on the modules as they are. For the safety properties the proofs below remove the bounds: of ownership, durable work, approvals,
events, drafts, each part of the two suites, and the turn. What rests on the instances is liveness and the functions that
section 4 names.

**Deadlock** is checked where the system never stops (`ownership`); the others end when the ids of runs
or requests are used up, or when every event, message or draft is settled: their configurations turn the check off.

**Fairness.** `FairSpec` states it, per step, and only for what the runtime does on its own.
*Ownership*: a task that can go on is polled; a call ends, since requests and tools time out; nobody has to
start, stop or give up. *Durable work*: the dispatcher polls every few seconds, tasks go on, a run leaves its
loop because its iterations and its time are bounded, the server comes back after a crash; turns, the
user and crashes owe nothing. All of this is weak fairness. *Events*: the worker goes on and time passes (weak); a
conversation is not busy at every evaluation, and not every decision is overtaken by a turn or by its minute
(strong). The last is an assumption about the user and the model, not about the code: an event that is
always deferred is deferred for ever, since a deferral opens no retry window
(`mark_integration_event_new`). *Secretary*: tasks and decisions go on and a call of the model ends (weak); nobody has to
write, edit or decide. *Background*: the loop ticks, executors and import tasks go on, their conversations are released,
time passes until a task is due, access tokens expire, the server comes back (all weak); the user, other turns, arriving mail
and failures owe nothing, and a prompt or an import is only promised its end without a failing statement. *Turn*: a run, a
stream and its reader, a call and the steps of a start go on, for each of them has a time limit or bounded retries
(weak). `LlmClient` bounds the retries, which the flex tier does not.

**Mutants.** For each property of a passing run `PROJECT.json` names a mutant: a plausible mistake in a mapped
definition with which TLC finds the property violated. They stand before the definition they change. Further
definitions commented "Mutant of X" are not listed there, as one per property is enough; put them in place of X to see which
part of a suite's invariant finds them.

## 4. The proofs

TLAPS checks them for all values of the constants, under the named assumption of each module, which its runs evaluate:
`WorkersAssumption`, `ConvOfAssumption`, `WorkAssumption`, `ApprovalAssumption`, `EventAssumption`, `DraftAssumption`,
`ScheduleAssumption`, `OutboxAssumption`, `FileAssumption`, `PollingAssumption`, `ChatAssumption`, `SummaryAssumption`,
`LlmAssumption`, `ToolsAssumption`, `PlanAssumption`, `SchemaAssumption`, `TurnAssumption`, `WindowAssumption`. They say that kinds of
workers are disjoint, that sentinels are not members of the sets they complete, that bounds are natural numbers, and that
the notes, and the chunks and memories of an import, are finitely many.

**Who runs, what is decided, what is told.**

- **`ConversationProofs`**, ownership: `TypeCorrect`, `Invariance`, `Exclusion`, `Preemption`, `TokenRegistered`,
  `AssertionHolds`, `Refinement`. Mutual exclusion is not inductive: the drop of a lease removes the entry of its
  conversation without looking whose it is, so one must know that whoever holds a lease holds the only one, that the
  entry says who it is, that the waiting set holds the waiter and nobody else, and that no token of an earlier
  life is registered. That is `IInv`. The refinement maps `holders` and `reservers` to the sets computed from `pc`;
  each action is one action of the lock or a stutter.
- **`WorkContinuationsProofs`**: `TypeCorrect`, `ClaimIsExclusive`, `ConsumedWasCarriedOn`, `RunningHasTask`, `OneRunAtATime`,
  `InterruptedIsCovered`, `NobodyIsStranded`. Whatever is continued has been saved (`FromSaved`), and a run saves in order, first
  its row, then its checkpoint (`Unsaved`); it has an outcome only when it returns (`OutOpen`), and one that deferred has saved
  (`DeferredSaved`). The claim's compare-and-set then gives the exclusion; that a used checkpoint was carried on needs that
  outcomes are final, that what is saved stays saved, and that only a success consumes (`Lasting`). For `RunningHasTask` one needs
  that no task is left when the server starts (`DownQuiet`), that a task that ends has written its row (`OverNotRunning`), and what
  each request that decides has done so far to its action and its row (`ActionsOrdered`, `Requested`).
  `InterruptedIsCovered` rests on who writes rows: a run that has begun has made its goal's last work one that is not interrupted
  (`BegunNotStale`), and between its steps the recovery has covered paused goals too (`CoveredAtRecovery`). The attempt to prove it
  corrected the property: a goal that was blocked or done at the crash is passed over by the recovery and may be resumed
  later, so it is covered or being resumed; and a goal that was made active and then left, `left`, is nobody's. `NobodyIsStranded` holds until the first crash, and only until then (finding 2): until
  then whoever claimed a checkpoint is at work on it (`ClaimHeld`), and a queued row has a checkpoint that the dispatcher can
  take or a task that has (`QueuedBacked`). A row waits while there is a decision to make, or one that left it open
  (`WaitingHasReason`): while a run proposes its batch no decision is over for its row but an early one (`ProposalsAsked`), and the
  request that reads an unresolved batch leaves another action to decide, or crosses the request that settled it (`Reopened`).
- **`ActionApprovalProofs`**: `TypeCorrect`, `Outcome`, `SettledStays`, `LastOneResumes`. `resolve_pending_action` has no guard, so
  that it does not overwrite a settled action follows from `WorkDone` (what a request at work has done to its
  action so far, and that the action is still `executing`) and `OneAtWork` (no two requests work on one action);
  `Untouched` says that nobody has touched an action that waits. The request that settles the last action reads the batch after
  it did, so it finds nothing open: `LastOnward` keeps one request on its way to the run.
- **`EventDeliveryProofs`**: `TypeCorrect`, `InHand`, `KeepsPromise`. For the promise one needs that whoever may
  have been told carries the delivery mark (`TellMarked`) and that the mark is cleared only for a group
  whose request did not get through (`GroupUntold`); for `ClaimedIsInHand` that rows which wait carry no
  mark (`WaitsUnmarked`), what the group's rows say at each step (`GroupClaimed`), and that a
  loop without a failing statement has settled what it has left (`GroupSettles`). The refinement maps a
  row to its phase; the steps that touch a row are `Arrive`, `Settle` or a stutter, an accepted or uncertain request is
  `Tell`.
- **`SecretaryDraftsProofs`**: `TypeCorrect`, `ApprovedIsSent`, `NothingIsOverlooked`, `OneDraft`, `Outcome`. The
  argument for the transcript is `ReadsLatest`: the revision is read before the messages and only grows, so whoever still
  has the latest one has read all that was counted; `WrittenFirst` says that nothing is counted before it is
  written. `Drafting` ties the one draft to the lease of the conversation, `Deciding` carries what the source check
  found to the send.

**What runs in the background** (`BackgroundProofs`, about `Background`).

- Schedule: `TypeCorrect`, `ScheduleIsKept`, `SettledStays`. `Occurrence` says what an executor has done
  of the occurrence it was spawned for; with it a count of runs is an invariant that each step keeps, whoever
  cancels meanwhile. `LoopHolds` says that the loop holds one task, and only while it completes it.
- Files: `UploadsTyped`, `FilesAreKept`, `TasksExclude`. `Aside` ties data that was moved to the request that has it, or to a crash or failure, `NoReturn`
  says that a deleted record is not written again, so that two deletions of one file cannot both settle it, and `UseKept` that
  what a message or a task relies on was there. One task at a time works on an import because the claim wants a row that is
  queued or failed and the row says `processing` as long as the task works (`OneTask`). How often a memory is saved is a count over
  the attempts: one that is still to be saved by the task at work has been saved in fewer attempts than there were (`SavedOnce`,
  `Due`), which needs that the list to save, folded from the chunks, names nothing twice (`ToSaveOnce`).
- Polling: `MailTyped`, `NoMailIsPassed`. The cursor is two settings, so between them it says nothing yet (`Storing`); what a poll knows
  of the mailbox may be stale, and what it is about to store counts as stored only once it is (`MailCovered`). `SeedingsCounted` says
  that a cursor is put once per mailbox, and once more for a failure; a poll that is about to put it has not been counted.
- Outbox and heartbeat: `NotesAreTold`. `AtWork` says where the note in hand stands. The bound on repeats is a sum over all notes:
  what each was told beyond the delivery that counts adds up to no more than the failures and crashes so far (`Repeats`), for
  every step that repeats is preceded by one of them. A slot of the heartbeat that is taken and not used counts (`Paced`).
- `PartsAreTyped`: the types of all of them, as the run `background` checks them.

**A turn.**

- **`AgentTurnProofs`**: `TypeCorrect`, `RequestsAreWhole`, `AnswersAreOne`, `FinalGoalsAreClosed`, `RunningRowsAreTrue`, and `TurnIsKept` for
  all of them. The invariant is `Kept`. That the model is asked whole questions needs the state of the context at every await: whole,
  but for the calls being executed, whose message is at some position with only answers behind it (`ContextWhole`, `Opened`);
  a chained request needs the same of the messages since the last response (`SinceResponse`). That no call is answered twice but
  by the warning of a restart needs who answers it: a call is answered, or waits with the run, or with an action, one of these; the action
  of an answered call is past its execution or uncertain, that of a warned call is uncertain, and there is one action per call, of
  finitely many; ids beyond the last issued occur nowhere (`OncePerCall`). `GoalKnown` ties the tracker to the goal's row, `Refers` says that what is referred to exists.
- **`WindowProofs`**: `WindowIsSound`, the functions of `ContextWindow` for conversations of any length, used by `AgentTurnProofs`. A selection of
  positions is known by the number of selected ones before a position (`OrderOf`); sums and cuts are recursive functions, and a
  statement about them that failed somewhere would fail at a least place, where it does not.
- **`ConversationProofs`**, the parts of `TurnParts`:
  - `ChatTyped`, `MessageIsKept`: the count of begun turns becomes inductive with what is still to come (`Counted`): a queued run has a
    turn in store. `OneTurn` ties the row to the turn that waits or works; nobody was told "accepted" before the first claim.
  - `AnswersAreWhole`: what was delivered, what is in the channel and what the reader shows are one sequence, of one attempt, with a
    reset between two (`Collecting`, `Reads`).
  - `EffectsHappenOnce`: a call that changes something is never tried again (`ReadsAreRetried`), so its effects are those of one
    attempt (`AloneOnce`), and such calls begin one after the other (`AloneInOrder`).
  - `PlansAreKept`: the statements that read the rows of a goal in order agree with the order of its list, by counting the rows before each
    (`RowsAreOrdered`); a status counted before it is written stays true, as nothing but the storing of a plan reopens a task.
  - `SummaryIsSound`: what a task folds in begins where its summary ends (`Following`), so a summary covers what its cursor says,
    also when two writers overtake each other (`Honesty`).
  - `KnowledgeIsKept`: who found a relation, or made it, relies on it until something is forgotten (`FoundIsThere`).
  - `SchemaIsKept`: nothing damaged or old is changed before a copy is made (`Copied`); which tables exist at which version (`Tables`). The
    proof found two cases of `Migrations` that overlapped, which TLC had resolved by their order.
  - `PartsAreKept`: all of them, as the run `turn` checks them. The parts share no state.
  - Functions, for all inputs: `RegistryIsSound`, `BatchIsCut`, `PagesAreWhole`, `CodeIsTrue`, `LinesAreWhole`. A fold of the library
    chooses a recursive function on the subsets of a sequence's positions; that there is one is an induction over the positions
    (`FoldIsThere`), and from there it is a walk over the sequence (`FoldGoes`). The lines of a stream are a fold within a fold: what the
    buffer holds, its lines with their ends and what it has not yet read, is the text so far (`TextHeld`), and a try that finds no
    line is the last, as each that finds one moves the start (`DrainFinds`).

**Only model-checked.** Liveness, for liveness under fairness is out of the prover's reach. `TypesOK` of the run `turn` for the
instances of `AgentTurn` with other constants: `TypeCorrect` proves it for all constants, and `PartsAreKept` the rest. `TextsRead`,
whose functions in `MailReading` are `RECURSIVE`, which the prover does not take; no module that is proved about, or that it uses,
declares such an operator. Of `FunctionsHold`, what is said of answers and attachments that are stored and sent again, of delays and
of paths: they rest on `SelectSeq` and on powers, of which the prover knows nothing, or on a search that is not proved here. What is
said of policies is for the kinds of tools and the methods that the run takes, all of which it looks at.

## 5. Where the code and its documents disagree

1. `/cancel` answers that the operation will be stopped (`commands.rs:117`), also while the turn waits for
   background work; `claim_conversation` then clears the flag (`tools.rs:37`). Run `stop_while_waiting`.
2. A crash between `claim_work_run_checkpoint` (`run.rs:24`) and the row of the claiming run leaves a claim
   that no recovery releases, although `WORK_COMPLETION_REVIEW.md:39` says that startup recovers abandoned
   claims. `ClaimsRecovered`, with the configuration `MCWorkContinuationsCrash`.
3. `update_work_plan` (`tools.rs:793`) overwrites the status that a pause of the user has just written, although
   pauses "remain under user control" (`WORK_COMPLETION_REVIEW.md:39`). Run `pause_holds`.
4. A decision that comes before the run says that it waits: the resume finds the conversation busy, and the run then
   writes `waiting_for_approval` (`run.rs:597`) with nothing left to approve. The watchdog spares it
   because "approval waits are controlled by the user" (`main.rs:381`). `RowWaitsForDecision`, with `MCActionApproval`.
5. A message that comes while the reply to another is drafted gets no draft, for the conversation is owned
   (`agent/secretary.rs:30`), and the older drafting fails because the chat changed (`agent/secretary.rs:224`). The bot
   promises to "draft replies for review" (`jossie-telegram/src/secretary.rs:52`). `EveryMessageDrafted`, with
   `MCSecretaryDrafts` and `FairSpec`.
6. A tap on the buttons of a superseded draft replaces them by those of the newer draft, under the old text
   (`turns.rs:503`); the next tap sends a text that its message does not show, although the buttons "send it exactly as
   written" (`jossie-telegram/src/secretary.rs:360`). Run `drafts_shown`.
7. A client that sends its message again after the turn was deferred finds the run queued for the dispatcher and claims it
   (`work.rs:449`): the turn begins again from the message, not from its checkpoint, although "retrying the same ID and content
   acknowledges the existing turn" (`WEB_API.md:315`). Run `retried_turn`.

Findings 2, 4 and 5 are not runs of their own: put the property named in place of those of the configuration named, and TLC
finds it violated.

Behaviour of the code that the models contain and no document contradicts; the properties are stated around it:

- A stop of a running run that races its deferral leaves a queued row with `cancel_requested`: never
  dispatched, and `Resume` is refused until the queued run is cancelled (`NotStranded` excludes it).
- Three kinds of decisions leave a row open behind them, and with it a goal that neither the dispatcher (`work.rs:720`) nor
  `Resume` (`handlers/work.rs:152`) continues; the user has to pause it first, or to cancel it. One that comes before the run says that
  it waits (`run.rs:597`, finding 4). Two that settle the last actions of a batch and cross in `ActionResolved`: the one that read the
  batch first writes last that the row waits (`events.rs:430-448`). And one that stops after `ToolStarted` or `ToolFinished` wrote
  `running` (`handlers/actions.rs:180`, `:199`), whose row the watchdog fails later. They are the exceptions of `NotStranded`
  (`LeftOpen`) and, the last, of `RunningRowHasTask` (`LeftRunning`).
- The dispatcher passes over a conversation with an action that is `pending` or `uncertain` (`work.rs:723`), also one that belongs to
  another goal; and no statement of the code takes an action out of `uncertain`, so the queued work of such a conversation waits for
  good. `QueuedWorkContinues` promises nothing there.
- The dispatcher's list may be old: a goal paused or cancelled after it was read is continued once more.
  A second `Resume` whose claim fails pauses the goal that the first is working on.
- `FailResume` pauses a goal whatever its status, also one cancelled meanwhile.
- A request that ends after its claim (a statement fails, the client disconnects) leaves its action
  `executing` until the next start, which makes it `uncertain`.
- A resume of a goal with a linked schedule makes the goal active and starts nothing (`handlers/work.rs:182-187`); a plan whose last
  read fails does the same (`tools.rs:802-807`). An interrupted goal that is left so has no checkpoint (`left` in
  `InterruptedGoalCovered`).
- A run cancelled while it waits for approval may be resumed by a decision that was under way.
- A crash after a run consumed its checkpoint and before it completed the run it continued (`run.rs:94-119`)
  leaves the latter `queued`: never dispatched, and `Resume` is refused (`NotStranded` is checked without crashes).
- A draft whose decision fails in a statement stays `executing` until the next start; a reply that was sent and
  could not be recorded is stored as `failed`.
- A failing statement while a group of events is claimed or given up leaves events in `processing` until
  the next start (`ClaimedIsInHand` and `EventSettles` say so).

*The schedule and the background.*

- A scheduled task that fails, is stopped or is interrupted by a restart is `failed` for good, also one that repeats.
- A note is told before it is marked as sent: a failing statement or a crash in between tells it again (`NotesToldOnce`
  counts that). The heartbeat takes its slot before it evaluates, so one that fails is skipped.
- The IMAP cursor is two settings. A failure between them on the first poll leaves a cursor without validity; if the mailbox is
  replaced before the next complete poll, the mail below the old cursor is passed (`torn`). The same goes for a mailbox
  replaced between `STATUS` and `SELECT`. Of a batch whose first hundred messages have all vanished the rest is
  passed too (`email/polling.rs:307`), and so is a Gmail message whose summary cannot be fetched (`gmail_provider.rs:119`).
- A pause writes the status before the token it is for (`auth_accounts.rs:144`); a failure in between leaves a pause that no new
  token ends.
- A record may lose its data to the trash: by a crash between the move and the deletion of the record, by the early returns of
  `delete_conversation` (`conversations.rs:320`), by a client that leaves meanwhile, or by a move back that fails and is only logged
  (`files.rs:93`, `conversations.rs:359`, `:389`). `FilesKept` says that nothing else does it, and that no such data is destroyed. Two
  deletions of one draft may leave data without a record. An import that reads while a deletion has the file fails. A retried import saves its memories again.
- Gmail and IMAP differ in a search with both terms and the legacy query.

*A turn.*

- `decide_action` stores the answer before it resolves the action (`handlers/actions.rs:197`, `:215`). A crash in between leaves the
  action executing, and the next start answers its call once more with a warning (`files_actions.rs:580-600`): `AnsweredOnce` allows
  this second answer and no other. The chat API then gets two answers to one call.
- `ToolFinished` writes `running` after the action is resolved (`handlers/actions.rs:199-208`); a request that stops before
  `ActionResolved` leaves the row of its run so. `RunningIsTrue` says that nothing else does.
- `decide_action` stores an answer at any time (`handlers/actions.rs:197`). When two runs have asked for approvals, an answer
  may end up behind the other's block; the window keeps an answer without its call if that is what a row says
  (`context_window.rs:530`), and any message stored between a call and its answer makes it drop the call.
- A panicked tool task leaves its call unanswered (`tools.rs:585`); `RequestsWhole` excludes it.
- The summary a run stores counts its window, not the conversation (`reflection_knowledge.rs:303`): later runs take it for recent and
  drop messages that are in no summary. `CountTrue` and `FewDropped` hold until the first such summary. Its cursor
  may be the id of a summary that was never stored, and the next update begins at the first message.
- `&m.content[..m.content.len().min(500)]` (`reflection_knowledge.rs:163`) cuts at a byte and panics inside a character.
- A stream that ends in a refusal has no text; the answer without a stream ignores an incomplete status; calls without an id or name
  are dropped; the flex tier retries without a limit.
- A message that was stored over the socket before a crash and is sent again by POST is answered "already accepted" and
  never worked on; one that answers an action ("yes") and is sent again is taken for a new message, for its id is not stored; a
  POST whose client leaves drops its run.
- A plan that puts a new task before an existing one gives both the same row, and the new one is lost; a plan with fewer tasks than
  rows cannot complete its goal; storing a plan revives a paused or cancelled goal (finding 3).
- A memory is deleted, inserted and annotated by three statements: a failing insert loses it, a failing delete doubles it. The
  extraction overwrites the attributes of a node; two tasks may add one relation twice; an update of a relation that was
  deleted meanwhile is reported as created; a later, longer path replaces a shorter one.
- The calls of a reply that read run before those that write, whatever their order; one that ran into its limit may still
  take effect; after a stop the next call may already have begun.
- A crash between dropping and making the attachment tables leaves a versioned database without them. An old database whose attachments
  are damaged gets the column that the second migration adds, and that migration fails at every start (`FailsOnlyThen`).
- The bounding of a context counts messages that call tools as dialogue, and a run whose first message is outside the window
  reflects on an empty one.

## 6. What is not modelled

- **Data**: prompts, the text of messages, mail and calendar contents, embeddings of meaning. What the agent decides is
  a choice of the model.
- **Remote systems**: the LLM, Telegram, Google, IMAP and the rest answer, fail, or do not answer.
- **Left out within modelled parts**: the reduction of calendar changes, scores and cooldowns of events, a backlog
  over `PENDING_LIMIT`, the connections of the secretary (enabling, rights, purge), its 900 ms of batching and the echo of its own reply
  (`jossie-telegram/src/secretary.rs:245`), cron expressions and time zones, encryption of files, tool search, the
  usage counters. Approvals, drafts, events and the schedule are modules of their own over a conversation that is held or
  not: that they share it is checked in `ConversationRuns`, whose workers are the kinds of all of them.
- **Parts left out for good**: HTTP handlers that read and write single rows, authentication, configuration, the clients
  of remote systems without state (browser, HTTP, personal integrations), the frontend, `xtask`. They keep no state
  that two actors change in steps.
- **Without Telegram** a notification is only stored in the conversation, and a statement that fails after
  that may store it twice (`event_delivery.rs:101`). What is promised there is open (`TODO.md:10`), so no property is stated.
- A message that arrives between the comparison of a draft's revision and its send (`handlers/actions.rs:351`) is not seen by
  it: no code could close that window, and `NothingOverlooked` speaks of what was known.

## 7. Plan

Done, in this order, the most contended state first: ownership; durable work over the abstract lock; approvals; event
queue and delivery; the secretary's drafts; the schedule, outbox, files, imports and polling; the turn with its messages, requests,
tools, plan, stores and the database; then the proofs, of the same parts in the same order.

What could follow:

1. The connections of the secretary and the echo of what it sent, as an extension of `SecretaryDrafts`.
2. `AgentTurn` over the tables of `WorkContinuations`: one model of a goal's run with the messages it stores.
