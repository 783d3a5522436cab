------------------------------- MODULE ToolCalls -------------------------------
(***************************************************************************)
(* The calls of one reply as the run executes them (execute_tool_batch in  *)
(* agent/tools.rs) and as the registry tries them (jossie-core,            *)
(* integration/registry.rs, policy.rs): concurrent calls at once, the      *)
(* others one after the other when those have ended, each with its own     *)
(* time limit, and a transient error of a read tried again.                *)
(***************************************************************************)
EXTENDS Integers, Sequences, FiniteSets, SequencesExt, FiniteSetsExt

CONSTANTS
  Batch,        \* the calls: a sequence of [tool, method]
  MaxAttempts   \* 1 + MAX_RETRIES (3)

VARIABLES
  call,    \* what became of each call
  halted   \* the run is stopped

callVars == <<call, halted>>

-------------------------------------------------------------------------------
(* Policy: what a tool does, by the kind the table of policy.rs gives it *)

Kinds == {"reading", "saving", "external", "destroying", "home_call_service", "http_request", "unknown"}

ToolsAssumption ==
  /\ Batch \in Seq([tool : Kinds, method : STRING])
  /\ MaxAttempts \in Nat \ {0}

Effect(tool, method) ==
  CASE tool = "reading" -> "read"
    [] tool = "saving" -> "local_write"
    [] tool = "destroying" -> "destructive"
    [] tool = "http_request" -> CASE method \in {"GET", "HEAD", "OPTIONS", "none"} -> "read"
                                  [] method = "DELETE" -> "destructive"
                                  [] OTHER -> "external_write"
    [] OTHER -> "external_write"

Metadata(tool, method) ==
  LET effect == Effect(tool, method) IN
  [effect |-> effect,
   requires_approval |-> effect \in {"external_write", "destructive"} /\ tool # "home_call_service",
   concurrent |-> effect = "read",
   retry_transient |-> effect = "read"]

Policy(n) == Metadata(Batch[n].tool, Batch[n].method)

-------------------------------------------------------------------------------
(* The execution *)

Ready == [at |-> "ready", attempt |-> 0, did |-> FALSE, effects |-> 0, answer |-> "none"]

Init == call = [n \in DOMAIN Batch |-> Ready] /\ halted = FALSE

Becomes(n, changed) == call' = [call EXCEPT ![n] = changed] /\ UNCHANGED halted
Over(n) == call[n].at \in {"told", "late", "gone"}

\* Whose turn it is: concurrent calls at once, then the others in their order.
Start(n) ==
  /\ call[n].at = "ready" /\ ~halted
  /\ ~Policy(n).concurrent =>
       \A k \in DOMAIN Batch : (Policy(k).concurrent \/ k < n) => Over(k)
  /\ Becomes(n, [call[n] EXCEPT !.at = "trying", !.attempt = 1])

\* The tool does what it is for.
Perform(n) ==
  /\ call[n].at \in {"trying", "late"} /\ ~call[n].did
  /\ Becomes(n, [call[n] EXCEPT !.did = TRUE, !.effects = @ + 1])

Succeeds(n) ==
  /\ call[n].at = "trying" /\ call[n].did
  /\ Becomes(n, [call[n] EXCEPT !.at = "told", !.answer = "ok"])

\* Mutant of Retries: every transient error is tried again.
RetriesAll(n) == call[n].attempt < MaxAttempts

Retries(n) == Policy(n).retry_transient /\ call[n].attempt < MaxAttempts

\* It fails, before or after it did it; classify_error tells whether it may pass.
Errs(n) ==
  /\ call[n].at = "trying"
  /\ \/ Retries(n) /\ Becomes(n, [call[n] EXCEPT !.at = "pause"])
     \/ Becomes(n, [call[n] EXCEPT !.at = "told", !.answer = "error"])

TryAgain(n) ==
  /\ call[n].at = "pause"
  /\ Becomes(n, [call[n] EXCEPT !.at = "trying", !.attempt = @ + 1, !.did = FALSE])

\* execute_tool_with_timeout gives it up; a request that is out may still be served.
TimesOut(n) ==
  /\ call[n].at \in {"trying", "pause"}
  /\ Becomes(n, [call[n] EXCEPT !.at = IF call[n].at = "trying" THEN "late" ELSE "told", !.answer = "timed_out"])

\* A panic of a concurrent task is logged; there is no result.
Panics(n) ==
  /\ call[n].at = "trying" /\ Policy(n).concurrent
  /\ Becomes(n, [call[n] EXCEPT !.at = "gone"])

\* The run is stopped and no result is waited for.  The next call of those that run alone may be
\* under way before the stop is noticed: the two are polled in any order.
StopBatch ==
  LET alone == {n \in DOMAIN Batch : ~Policy(n).concurrent}
      next == {n \in alone : call[n].at = "ready" /\ \A k \in alone : k < n => Over(k)}
  IN
  /\ ~halted /\ halted' = TRUE /\ \E n \in DOMAIN Batch : ~Over(n)
  /\ \E begun \in SUBSET next :
       call' = [n \in DOMAIN Batch |-> CASE Over(n) -> call[n]
                                         [] call[n].at = "trying" \/ n \in begun -> [call[n] EXCEPT !.at = "late"]
                                         [] OTHER -> [call[n] EXCEPT !.at = "gone"]]

Try(n) == Start(n) \/ Succeeds(n) \/ Errs(n) \/ TryAgain(n) \/ TimesOut(n) \/ Panics(n)
Next == StopBatch \/ \E n \in DOMAIN Batch : Try(n) \/ Perform(n)
\* Every attempt is ended by the tool or by its time limit.
Spec == Init /\ [][Next]_callVars /\ WF_callVars(\E n \in DOMAIN Batch : Try(n))

-------------------------------------------------------------------------------
(* Functions: registration, and the size of results *)

\* Mutant of Register: its tools are taken before the others are compared.
RegisterOver(registry, integration) ==
  [integrations |-> Append(registry.integrations, integration),
   owner |-> [t \in DOMAIN registry.owner \union integration.tools |->
                IF t \in integration.tools THEN Len(registry.integrations) + 1 ELSE registry.owner[t]],
   shown |-> registry.shown \union integration.shown]

\* register: refused as a whole when its name or a tool is taken, or it shows a tool it lacks.
Register(registry, integration) ==
  IF \/ \E k \in DOMAIN registry.integrations : registry.integrations[k].name = integration.name
     \/ integration.tools \intersect DOMAIN registry.owner # {}
     \/ ~(integration.shown \subseteq integration.tools)
  THEN registry
  ELSE [integrations |-> Append(registry.integrations, integration),
        owner |-> [t \in DOMAIN registry.owner \union integration.tools |->
                     IF t \in integration.tools THEN Len(registry.integrations) + 1 ELSE registry.owner[t]],
        shown |-> registry.shown \union integration.shown]
Registry(integrations) == FoldLeft(Register, [integrations |-> <<>>, owner |-> <<>>, shown |-> {}], integrations)

\* compact_tool_batch: every result has the same share.
Compacted(sizes, limit, smallest) ==
  LET share == Max({limit \div Len(sizes), smallest}) IN [n \in DOMAIN sizes |-> Min({sizes[n], share})]

-------------------------------------------------------------------------------
(* Properties *)

TypeOK ==
  \A n \in DOMAIN Batch :
    /\ call[n].at \in {"ready", "trying", "pause", "told", "late", "gone"}
    /\ call[n].attempt \in 0 .. MaxAttempts
    /\ call[n].answer \in {"none", "ok", "error", "timed_out"}

\* A call that changes something does so at most once, however its attempts end and even when
\* it was given up, and not before an earlier one of the reply has ended (registry.rs 268-386).
EffectsOnce ==
  \A n \in DOMAIN Batch : ~Policy(n).concurrent =>
    /\ call[n].effects <= 1
    /\ call[n].answer = "ok" => call[n].effects = 1
    /\ \A k \in 1 .. n - 1 : (call[n].effects > 0 /\ ~Policy(k).concurrent) => call[k].at \notin {"ready", "trying", "pause"}

\* The batch ends.
BatchEnds == \A n \in DOMAIN Batch : call[n].at = "ready" ~> Over(n)

\* A tool that may be retried or run beside others changes nothing, one that changes something
\* outside asks first, and a request whose method is not known to read does, too (policy.rs).
PolicySafe(tool, method) ==
  LET policy == Metadata(tool, method) IN
  /\ (policy.retry_transient \/ policy.concurrent) => policy.effect = "read" /\ ~policy.requires_approval
  /\ tool = "http_request" => (policy.requires_approval <=> method \in {"DELETE", "POST", "PUT"})
  /\ tool \in {"external", "destroying", "unknown"} => policy.requires_approval

\* Whatever order integrations come in, a tool that is shown to the model is executed by the one
\* integration that shows it (registry.rs 166-200).
RegistrySound(integrations) ==
  LET r == Registry(integrations) IN
  /\ r.shown \subseteq DOMAIN r.owner
  /\ \A k \in DOMAIN r.integrations : \A t \in r.integrations[k].tools : r.owner[t] = k

\* The results of a batch together keep the limit, or each is at the smallest share.
BatchFits(sizes, limit, smallest) ==
  LET cut == Compacted(sizes, limit, smallest)
      total == FoldLeft(LAMBDA a, b : a + b, 0, cut)
  IN sizes # <<>> => /\ total <= Max({limit, smallest * Len(sizes)})
                     /\ \A n \in DOMAIN cut : cut[n] < sizes[n] => cut[n] >= smallest
===============================================================================
