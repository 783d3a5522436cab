------------------------------- MODULE TurnParts -------------------------------
(***************************************************************************)
(* What a turn is made of besides the run of the agent, and what it leaves *)
(* behind: the message that starts it, the answer of the model, the calls  *)
(* of a reply, the plan of a goal, the summary of the conversation,        *)
(* memories with the graph, and the schema all of it is stored in.  These  *)
(* parts share no state.                                                   *)
(***************************************************************************)

CONSTANTS
  Clients, Sockets, Content, MaxSends, MaxTrouble,
  Updaters, MaxMessages, Window, Keep, Slack, Chunk, Threshold, MaxAsks,
  MaxRetries, Capacity, MaxPieces,
  BatchCalls, MaxAttempts,
  WorkPlans, MaxCalls, MaxFaults, MaxControls,
  Savers, Adders, Extraction, MaxSaves, MaxForgets,
  MaxVersion, MaxCrashes

VARIABLES
  at, reply, sends, stored, runRow, spawned, holder, action, kept, history, trouble,
  said, summary, updater, reader, skipped, exact, asks,
  client, channel, shown, ending, chainedTo,
  call, halted,
  goal, task, writer, told, torn, counts,
  memory, scope, saver, latest, node, edge, adder, extract, spent,
  version, base, files, links, step, backups, origin, crashed

Chat == INSTANCE ChatMessages WITH waiting <- spawned
Summed == INSTANCE RollingSummary
Llm == INSTANCE LlmClient
Batched == INSTANCE ToolCalls WITH Batch <- BatchCalls
Planning == INSTANCE WorkPlan WITH Plans <- WorkPlans
Learnt == INSTANCE Knowledge
Schema == INSTANCE Migrations

PartsAssumption ==
  /\ Chat!ChatAssumption /\ Summed!SummaryAssumption /\ Llm!LlmAssumption /\ Batched!ToolsAssumption
  /\ Planning!PlanAssumption /\ Schema!SchemaAssumption

\* Each part goes its own way.
PartsSpec ==
  /\ Chat!Spec /\ Summed!Spec /\ Llm!Spec /\ Batched!Spec
  /\ Planning!Spec /\ Learnt!Spec /\ Schema!Spec

\* The types of the parts' variables.
PartsTyped ==
  /\ Chat!TypeOK /\ Summed!TypeOK /\ Llm!TypeOK /\ Planning!TypeOK /\ Learnt!TypeOK /\ Batched!TypeOK
  /\ Schema!TypeOK

\* A message that was accepted is kept and begins one turn (ChatMessages.tla), the answer is one
\* answer of the model (LlmClient.tla), an effect told as done was done once (ToolCalls.tla), a
\* completed goal is done (WorkPlan.tla), and summaries (RollingSummary.tla), memories and
\* relations (Knowledge.tla) and the schema (Migrations.tla) can be relied on.
PartsKept ==
  /\ Chat!ChatKept /\ Llm!AnswerIsOne /\ Batched!EffectsOnce /\ Planning!PlanKept
  /\ Summed!SummaryHolds /\ Learnt!KnowledgeKept /\ Schema!SchemaKept
===============================================================================
