------------------------------- MODULE Background -------------------------------
(***************************************************************************)
(* What the server does in the background: the scheduled tasks, the outbox *)
(* with the heartbeat (src/event_loop), uploaded files with their          *)
(* deletions and imports, and the polls of mail and calendars.  These      *)
(* parts share the bounds on failures, and nothing else.                   *)
(***************************************************************************)
EXTENDS ScheduledTasks, FiniteSets

CONSTANTS
  Notes, Linked, Recorded, MaxBeats,
  Files, Conversations, Requests, Workers, Chunks, Learned, Sensitive, MaxMemories, MaxAttempts,
  Feeds, MaxMail, MaxMailboxes, FetchLimit, MaxItems, MaxTokens, MaxResets

VARIABLES
  stage, notes, inHand, statement, note, told, shown, deliveryRun, taken, beat, beatRun, evaluated, beats,
  record, place, savedFor, attached, conversation, depends, request, import, stopAsked, importRun, worker,
  memories, attempts, up,
  at, mailbox, known, cursor, batch, position, events, seeded, seedings, dropped, torn, items,
  feedCursor, feed, current, revoked, snapshot, cached, account, pausedFor, resets

Out == INSTANCE Outbox WITH batch <- notes, step <- statement
Uploads == INSTANCE FileImports
Mail == INSTANCE MailPolling WITH status <- account

\* Each part goes its own way.
BackgroundAssumption == Out!OutboxAssumption /\ Uploads!FileAssumption /\ Mail!PollingAssumption
BackgroundSpec == Spec /\ Out!Spec /\ Uploads!Spec /\ Mail!Spec

\* The types of the parts' variables.
TypesOK == TypeOK /\ Out!TypeOK /\ Uploads!TypeOK /\ Mail!TypeOK

\* Notes and the heartbeat: what counts as sent was told, repetitions are paid for by
\* failures, and the model is asked once per interval (Outbox.tla).
OutboxKept == Out!NotesToldOnce /\ Out!HeartbeatPaced

\* Files that are used keep their record and their data, and an import is done by one task
\* (FileImports.tla).
FilesKept == Uploads!FilesKept /\ Uploads!ImportedOnce

\* No cursor passes a message that was not stored (MailPolling.tla).
MailKept == Mail!NoMailPassed
===============================================================================
