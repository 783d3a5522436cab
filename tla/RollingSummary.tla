----------------------------- MODULE RollingSummary -----------------------------
(***************************************************************************)
(* The summary of a long conversation (agent/reflection_knowledge.rs).     *)
(* After every final reply a task folds the messages after the cursor into *)
(* the summary; a run whose context is too long summarises the older part  *)
(* of what it sees and stores that, too.  Both read the summary, ask a     *)
(* model, and write it, with nothing in between to keep them apart.        *)
(*                                                                         *)
(* Messages are numbered; of a summary the model knows which messages went *)
(* into it.                                                                *)
(***************************************************************************)
EXTENDS Integers, FiniteSets, FiniteSetsExt

CONSTANTS
  Updaters,     \* tasks that update_rolling_conversation_summary, started by final replies
  MaxMessages,  \* bound: messages of the conversation
  Window,       \* max_context_messages
  Keep,         \* context_keep_recent_dialogue_messages
  Slack,        \* a summary that leaves out Keep + Slack messages is recent (5 in the code)
  Chunk,        \* messages a task reads at most (120)
  Threshold,    \* and at least, unless they are long (80)
  MaxAsks       \* bound: updates and runs

SummaryAssumption ==
  {MaxMessages, Window, Keep, Chunk, Threshold, MaxAsks} \subseteq Nat /\ Slack \in Nat \ {0}

VARIABLES
  said,      \* messages stored so far
  summary,   \* the row of conversation_summaries
  updater,   \* what each task does, has read and asks
  reader,    \* the run that prepares its context
  skipped,   \* messages a run's summary passed without having seen them
  exact,     \* no run has stored a summary yet
  asks       \* updates and runs so far

summaryVars == <<said, summary, updater, reader, skipped, exact, asks>>

NoSummary == [covers |-> {}, upto |-> 0, count |-> 0, exists |-> FALSE]
Resting == [at |-> "rest", seen |-> NoSummary, part |-> {}, lost |-> {}]

Init ==
  /\ said = 0 /\ summary = NoSummary /\ skipped = {} /\ exact = TRUE /\ asks = 0
  /\ updater = [u \in Updaters |-> Resting] /\ reader = Resting

Last(part) == Max(part \union {0})
Asks == asks < MaxAsks /\ asks' = asks + 1

Say ==
  /\ said < MaxMessages /\ said' = said + 1
  /\ UNCHANGED <<summary, updater, reader, skipped, exact, asks>>

-------------------------------------------------------------------------------
(* update_rolling_conversation_summary *)

Updates(u, changes) == updater' = [updater EXCEPT ![u] = changes]
OnlyUpdates == UNCHANGED <<said, reader, skipped, exact>>

ReadSummary(u) ==
  /\ updater[u].at = "rest" /\ Asks
  /\ Updates(u, [Resting EXCEPT !.at = "read", !.seen = summary])
  /\ OnlyUpdates /\ UNCHANGED summary

\* get_messages_after_for_summary; a small chunk waits unless it has many characters.
ReadChunk(u) ==
  LET part == {m \in updater[u].seen.upto + 1 .. said : m <= updater[u].seen.upto + Chunk} IN
  /\ updater[u].at = "read"
  /\ \/ part # {} /\ Updates(u, [updater[u] EXCEPT !.at = "ask", !.part = part])
     \/ Cardinality(part) < Threshold /\ Updates(u, Resting)
  /\ OnlyUpdates /\ UNCHANGED <<summary, asks>>

\* Mutant of Folded: the cursor is that of the newest message of the conversation.
FoldedToEnd(u) ==
  [covers |-> updater[u].seen.covers \union updater[u].part, upto |-> said,
   count |-> updater[u].seen.count + Cardinality(updater[u].part), exists |-> TRUE]

Folded(u) ==
  [covers |-> updater[u].seen.covers \union updater[u].part, upto |-> Last(updater[u].part),
   count |-> updater[u].seen.count + Cardinality(updater[u].part), exists |-> TRUE]

\* INSERT OR REPLACE, whatever the row is by now; nothing is written when the model fails.
SaveFolded(u) ==
  /\ updater[u].at = "ask"
  /\ summary' \in {summary, Folded(u)}
  /\ Updates(u, Resting)
  /\ OnlyUpdates /\ UNCHANGED asks

-------------------------------------------------------------------------------
(* maybe_summarize_context *)

OnlyReads == UNCHANGED <<said, updater>>

\* The messages a run sees, after the summary if there is one.
ReadWindow ==
  /\ reader.at = "rest" /\ Asks
  /\ reader' = [at |-> "read", seen |-> summary, part |-> {m \in 1 .. said : m > said - Window}, lost |-> {}]
  /\ OnlyReads /\ UNCHANGED <<summary, skipped, exact>>

Length == Cardinality(reader.part) + (IF reader.seen.exists THEN 1 ELSE 0)
Recent == {m \in reader.part : m > Last(reader.part) - Keep}
Older == reader.part \ Recent

\* Short enough, or summarised recently: then the older messages are dropped.
Suffices ==
  /\ reader.at = "read"
  /\ \/ reader' = [reader EXCEPT !.at = "shown"]
     \/ /\ Length > Keep /\ reader.seen.exists /\ Length - reader.seen.count <= Keep + Slack
        /\ reader' = [reader EXCEPT !.at = "shown", !.lost = Older \ reader.seen.covers]
  /\ OnlyReads /\ UNCHANGED <<summary, skipped, exact, asks>>

Summarise ==
  /\ reader.at = "read" /\ Length > Keep
  /\ reader.seen.exists => Length - reader.seen.count > Keep + Slack
  /\ reader' = [reader EXCEPT !.at = "ask"]
  /\ OnlyReads /\ UNCHANGED <<summary, skipped, exact, asks>>

\* The last older message is the cursor; if it is the old summary the cursor names no message
\* and the next update begins with the first one.
SaveOlder ==
  /\ reader.at = "ask"
  /\ \/ /\ summary' = [covers |-> reader.seen.covers \union Older, upto |-> Last(Older),
                       count |-> Length - Keep, exists |-> TRUE]
        /\ skipped' = skipped \union (1 .. Last(Older) \ summary'.covers)
        /\ exact' = FALSE
     \/ UNCHANGED <<summary, skipped, exact>>
  /\ reader' = [reader EXCEPT !.at = "shown"]
  /\ OnlyReads /\ UNCHANGED asks

Forget ==
  /\ reader.at = "shown" /\ reader' = Resting
  /\ OnlyReads /\ UNCHANGED <<summary, skipped, exact, asks>>

Next ==
  \/ Say \/ \E u \in Updaters : ReadSummary(u) \/ ReadChunk(u) \/ SaveFolded(u)
  \/ ReadWindow \/ Suffices \/ Summarise \/ SaveOlder \/ Forget
Spec == Init /\ [][Next]_summaryVars

-------------------------------------------------------------------------------
(* Properties *)

TypeOK ==
  /\ said \in 0 .. MaxMessages /\ asks \in 0 .. MaxAsks
  /\ \A u \in Updaters : updater[u].at \in {"rest", "read", "ask"}
  /\ reader.at \in {"rest", "read", "ask", "shown"}

\* Every message up to the cursor went into the summary, in whatever order updates finish; only
\* the summary of a run may pass messages that were too old for the run to see.
SummaryCovers == 1 .. summary.upto \subseteq summary.covers \union skipped

\* The count that decides whether a summary is recent is the cursor's as long as no run stored one.
CountTrue == exact => summary.count = summary.upto

\* With a true count a run that relies on a recent summary drops less than Slack messages that are
\* not in it, in a conversation that fits the window.
FewDropped == (exact /\ said <= Window) => Cardinality(reader.lost) < Slack

SummaryHolds == SummaryCovers /\ CountTrue /\ FewDropped
===============================================================================
