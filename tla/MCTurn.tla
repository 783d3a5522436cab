--------------------------------- MODULE MCTurn ---------------------------------
(***************************************************************************)
(* A turn and what it leaves behind for TLC: the run of the agent with     *)
(* tools, with goals and with restarts, the message that starts it, the    *)
(* answer of the model, the calls of a reply, the plan of a goal, the      *)
(* summary, memories and the graph, and the start of the database.  As in  *)
(* MCBackground a behaviour is one of one part.  The part "functions"      *)
(* looks at one input of the functions these are built from.               *)
(***************************************************************************)
EXTENDS AgentTurn, TurnParts, TLC

CONSTANTS c1, c2, c3, u1, u2, s1, s2, a1, a2

VARIABLES part, sample

turnVars == vars
chatVars == <<at, reply, sends, stored, runRow, spawned, holder, action, kept, history, trouble>>
summaryVars == <<said, summary, updater, reader, skipped, exact, asks>>
llmVars == <<client, channel, shown, ending, chainedTo>>
planVars == <<goal, task, writer, told, torn, counts>>
knowledgeVars == <<memory, scope, saver, latest, node, edge, adder, extract, spent>>
callVars == <<call, halted>>
schemaVars == <<version, base, files, links, step, backups, origin, crashed>>
allVars == <<part, sample, turnVars, chatVars, summaryVars, llmVars, planVars, knowledgeVars, callVars, schemaVars>>

-------------------------------------------------------------------------------
(* The instances *)

\* A run that asks for tools, with failures and notes in between
MCReplies == {<<>>, <<"read">>, <<"read", "approve">>}
MCBudget == [runs |-> 2, messages |-> 1, notes |-> 1, faults |-> 1, crashes |-> 0, goals |-> 1]

\* A run that works on a goal, without failures
Goals == INSTANCE AgentTurn WITH
  Replies <- {<<>>, <<"read">>, <<"write">>, <<"plan_open">>, <<"plan_more">>, <<"plan_done", "read">>, <<"activate", "write">>},
  MaxIterations <- 4,
  Budget <- [runs |-> 1, messages |-> 1, notes |-> 0, faults |-> 0, crashes |-> 0, goals |-> 1]

\* Runs that are cut short by the end of the server and runs that are continued, without response ids
Restarts == INSTANCE AgentTurn WITH
  Replies <- {<<>>, <<"approve">>, <<"plan_open">>}, Optimised <- FALSE,
  MaxIterations <- 2,
  Budget <- [runs |-> 3, messages |-> 1, notes |-> 0, faults |-> 0, crashes |-> 1, goals |-> 1]

\* The same, fewer of them, with a statement that fails
Failures == INSTANCE AgentTurn WITH
  Replies <- {<<>>, <<"approve">>, <<"plan_open">>}, Optimised <- FALSE,
  MaxIterations <- 2,
  Budget <- [runs |-> 2, messages |-> 1, notes |-> 0, faults |-> 1, crashes |-> 1, goals |-> 1]

ASSUME Goals!TurnAssumption /\ Restarts!TurnAssumption /\ Failures!TurnAssumption /\ PartsAssumption

MCContent == (c1 :> "text") @@ (c2 :> "text") @@ (c3 :> "yes")
MCTrouble == [faults |-> 1, crashes |-> 1, deferrals |-> 1]

Task(id, status) == [id |-> id, status |-> status]
MCPlans ==
  {[status |-> "active", tasks |-> <<Task(0, "pending"), Task(0, "pending")>>],
   [status |-> "active", tasks |-> <<Task(0, "pending"), Task(1, "completed")>>],
   [status |-> "completed", tasks |-> <<Task(0, "completed")>>],
   [status |-> "completed", tasks |-> <<Task(2, "completed"), Task(1, "completed")>>],
   [status |-> "blocked", tasks |-> <<Task(0, "completed"), Task(2, "blocked")>>],
   [status |-> "completed", tasks |-> <<Task(0, "pending")>>]}

OfKind(tool, method) == [tool |-> tool, method |-> method]
MCBatch == <<OfKind("saving", "none"), OfKind("http_request", "GET"), OfKind("home_call_service", "none")>>

-------------------------------------------------------------------------------
(* Inputs of the functions *)

Sequences(S, n) == UNION {[1..k -> S] : k \in 0..n}

Said == {UserSays, Says, System("note"), [Says EXCEPT !.size = 4], [UserSays EXCEPT !.size = 3],
         Asks({1}), Asks({1, 2}), Answers(1), Answers(2), [Answers(1) EXCEPT !.size = 5], [Answers(2) EXCEPT !.size = 0]}

Outputs == [type : {"message"}, text : {<<"a">>, <<>>}, id : {0}, args : {<<>>}]
  \union [type : {"function_call"}, text : {<<>>}, id : {7, 8}, args : {<<"x">>}]
  \union [type : {"reasoning"}, text : {<<>>}, id : {0}, args : {<<>>}]
TwoCalls == <<[type |-> "function_call", text |-> <<>>, id |-> 7, args |-> <<"x">>],
              [type |-> "message", text |-> <<"a">>, id |-> 0, args |-> <<>>],
              [type |-> "function_call", text |-> <<>>, id |-> 8, args |-> <<"x", "y">>]>>
\* "done" repeats the arguments of the call
StreamEvents ==
  [type : {"added"}, index : {1}, id : {7}, args : {<<>>}] \union [type : {"added"}, index : {3}, id : {8}, args : {<<>>}]
  \union [type : {"delta"}, index : {1}, id : {0}, args : {<<"x">>}]
  \union [type : {"done"}, index : {1}, id : {0}, args : {<<"x">>}]
  \union [type : {"done"}, index : {3}, id : {0}, args : {<<"x", "y">>}]
Attachments == [kind : {"supported", "wire", "unknown"}, size : {1, 3}, data : {1, 3}]

Relations == {{1, 2}, {1, 3}, {2, 3}, {2, 4}, {3, 4}, {4, 5}}
Registered == [name : {"i", "j"}, tools : SUBSET {"t", "u"}, shown : SUBSET {"t", "u"}]

Samples ==
  [kind : {"context"}, value : Sequences(Said, 4)]
  \union [kind : {"delay"}, after : {{}, {0}, {7}, {60}, {90}}, value : 0..8, jitter : {0, 1}]
  \union [kind : {"chunks"}, value : Sequences(Sequences({"b", "nl"}, 2), 3)]
  \union [kind : {"stream"}, value : Sequences(StreamEvents, 5)]
  \union [kind : {"output"}, value : Sequences(Outputs, 3)]
  \union [kind : {"attachments"}, value : Sequences(Attachments, 2), limit : 0..5]
  \union [kind : {"pages"}, value : SUBSET (1..5), added : {{}, {6, 7}, {2}}, limit : 1..2]
  \union [kind : {"paths"}, value : SUBSET Relations, targets : {{3}, {4, 5}}, depth : 1..3]
  \union [kind : {"code"}, value : 0..70, period : {1, 2, 30}]
  \union [kind : {"policy"}, value : Batched!Kinds, method : {"GET", "POST", "PUT", "DELETE", "HEAD", "OPTIONS", "none"}]
  \union [kind : {"register"}, value : Sequences(Registered, 2)]
  \union [kind : {"sizes"}, value : Sequences({0, 3, 9}, 4), limit : {4, 12, 20}]

-------------------------------------------------------------------------------
(* The specification *)

NoSample == [kind |-> "none"]

MCInit ==
  /\ part \in {"tools", "goals", "restarts", "failures", "chat", "retries", "summary", "answer", "plan", "knowledge", "batch",
               "schema", "functions"}
  /\ sample \in IF part = "functions" THEN Samples ELSE {NoSample}
  /\ Init
  /\ Chat!Init
  /\ action \in IF part \in {"chat", "retries"} THEN {"none", "pending"} ELSE {"none"}
  /\ Summed!Init /\ Planning!Init /\ Learnt!Init /\ Batched!Init
  /\ Llm!Init /\ chainedTo \in IF part = "answer" THEN BOOLEAN ELSE {FALSE}
  /\ Schema!Init /\ version \in IF part = "schema" THEN -1 .. 4 ELSE {-1}
  /\ part # "schema" => base = "none"

Turns(p) == part = p /\ UNCHANGED <<part, sample, chatVars, summaryVars, llmVars, planVars, knowledgeVars, callVars, schemaVars>>
Sends(p) == part = p /\ UNCHANGED <<part, sample, turnVars, summaryVars, llmVars, planVars, knowledgeVars, callVars, schemaVars>>
Sums == part = "summary" /\ UNCHANGED <<part, sample, turnVars, chatVars, llmVars, planVars, knowledgeVars, callVars, schemaVars>>
Hears == part = "answer" /\ UNCHANGED <<part, sample, turnVars, chatVars, summaryVars, planVars, knowledgeVars, callVars, schemaVars>>
Writes == part = "plan" /\ UNCHANGED <<part, sample, turnVars, chatVars, summaryVars, llmVars, knowledgeVars, callVars, schemaVars>>
Learns == part = "knowledge" /\ UNCHANGED <<part, sample, turnVars, chatVars, summaryVars, llmVars, planVars, callVars, schemaVars>>
Does == part = "batch" /\ UNCHANGED <<part, sample, turnVars, chatVars, summaryVars, llmVars, planVars, knowledgeVars, schemaVars>>
Migrates == part = "schema" /\ UNCHANGED <<part, sample, turnVars, chatVars, summaryVars, llmVars, planVars, knowledgeVars, callVars>>

\* Three clients that send once each
SendsOnce == \A c \in Clients : sends'[c] <= 1
\* Two clients that try again
SendsAgain == sends'[c3] = 0

MCNext ==
  \/ Turns("tools") /\ Next
  \/ Turns("goals") /\ Goals!Next
  \/ Turns("restarts") /\ Restarts!Next
  \/ Turns("failures") /\ Failures!Next
  \/ Sends("chat") /\ Chat!Next /\ SendsOnce
  \/ Sends("retries") /\ Chat!Next /\ SendsAgain
  \/ Sums /\ Summed!Next
  \/ Hears /\ Llm!Next
  \/ Writes /\ Planning!Next
  \/ Learns /\ Learnt!Next
  \/ Does /\ Batched!Next
  \/ Migrates /\ Schema!Next

\* The fairness of the parts that state one, each in its own behaviours.
FirstStep ==
  \/ Turns("tools") /\ Runs
  \/ Turns("goals") /\ Goals!Runs
  \/ Turns("restarts") /\ Restarts!Runs
  \/ Turns("failures") /\ Failures!Runs
  \/ Hears /\ Llm!Ends
  \/ Does /\ \E n \in DOMAIN call : Batched!Try(n)
  \/ Migrates /\ Schema!Steps
SecondStep == Hears /\ Llm!Collects

MCSpec == MCInit /\ [][MCNext]_allVars /\ WF_allVars(FirstStep) /\ WF_allVars(SecondStep)

-------------------------------------------------------------------------------
(* Properties *)

\* The types of the parts' variables.
TypesOK ==
  /\ CASE part = "goals" -> Goals!TypeOK [] part \in {"restarts", "failures"} -> Restarts!TypeOK [] OTHER -> TypeOK
  /\ PartsTyped

\* The functions the parts are built from, over the inputs above: a request made of what was
\* stored keeps it whole, what is stored of an answer and of attachments is what was sent
\* (ContextWindow.tla, LlmClient.tla), pages, paths and codes are true (Knowledge.tla), and the
\* registry, the policy and the size of results are sound (ToolCalls.tla).
FunctionsHold ==
  LET s == sample IN
  /\ s.kind = "context" => WindowHolds(s.value)
  /\ s.kind = "output" => Llm!StoredIsSame(s.value)
  /\ s.kind = "attachments" =>
       Llm!LoadedIsSent([i \in DOMAIN s.value |-> [id |-> i, kind |-> s.value[i].kind, size |-> s.value[i].size,
                                                  data |-> s.value[i].data]], s.limit)
  /\ s.kind = "delay" => Llm!DelaysHold(s.after, s.value, s.jitter)
  /\ s.kind = "chunks" => Llm!LinesWhole(s.value)
  /\ s.kind = "stream" => Llm!StreamAgrees(TwoCalls, s.value)
  /\ s.kind = "pages" => Learnt!PagesWhole(s.value, s.added \ s.value, s.limit)
  /\ s.kind = "paths" => Learnt!PathsTrue(s.value, 1, s.targets, s.depth)
  /\ s.kind = "code" => Learnt!CodeHolds(s.value, s.period)
  /\ s.kind = "policy" => Batched!PolicySafe(s.value, s.method)
  /\ s.kind = "register" => Batched!RegistrySound(s.value)
  /\ s.kind = "sizes" => Batched!BatchFits(s.value, s.limit, 2)

Underway ==
  \/ part \in {"tools", "goals", "restarts", "failures"} /\ run.phase # "idle"
  \/ part = "answer" /\ ending = "none"
  \/ part = "batch" /\ \E n \in DOMAIN call : ~Batched!Over(n)
  \/ part = "schema" /\ step \notin {"up", "failed"}

\* A run, the answer of the model, a batch of calls and the start of the database end.
TurnSettles == Underway ~> ~Underway
===============================================================================
