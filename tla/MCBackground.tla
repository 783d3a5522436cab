------------------------------ MODULE MCBackground ------------------------------
(***************************************************************************)
(* The schedule, the outbox with the heartbeat, file deletions, chat       *)
(* imports, the polling of a mailbox and of a Google account for TLC.      *)
(* These parts share no state: a behaviour is one of one part, chosen at   *)
(* the beginning.  The part "texts" looks at one input of the importer's   *)
(* and the mail tools' functions.                                          *)
(***************************************************************************)
EXTENDS Background, TLC

CONSTANTS t1, t2, n1, n2, f1, f2, c1, r1, r2, w1, w2, m1, m2, m3, k1, k2

VARIABLES part, sample

scheduleVars == vars
outboxVars == <<stage, notes, inHand, statement, note, told, shown, deliveryRun, taken, beat, beatRun,
                evaluated, beats>>
fileVars == <<record, place, savedFor, attached, conversation, depends, request, import, stopAsked, importRun,
              worker, memories, attempts, up>>
mailVars == <<at, mailbox, known, cursor, batch, position, events, seeded, seedings, dropped, torn, items,
              feedCursor, feed, current, revoked, snapshot, cached, account, pausedFor, resets>>
faultVars == <<faults, crashes>>
allVars == <<part, sample, scheduleVars, outboxVars, fileVars, mailVars>>

-------------------------------------------------------------------------------
(* The instances *)

MCMaxRuns == (t1 :> 1) @@ (t2 :> 2)
MCWish == (t1 :> t1) @@ (t2 :> t2)
MCLearned == (k1 :> {m1, m3}) @@ (k2 :> {m1, m2})
MCItems == ("gmail" :> 2) @@ ("calendar" :> 1)

Text == INSTANCE ImportText WITH ChunkTarget <- 8, MaxChunks <- 24
Read == INSTANCE MailReading WITH MaxPage <- 2

ASSUME Out!OutboxAssumption /\ Uploads!FileAssumption /\ Mail!PollingAssumption

-------------------------------------------------------------------------------
(* Inputs of the functions *)

Sequences(S, n) == UNION {[1..k -> S] : k \in 0..n}

Exports == [json : BOOLEAN, valid : BOOLEAN, chatgpt : BOOLEAN, generic : BOOLEAN,
            mentions : SUBSET {"whatsapp", "signal"}, dates : {"slashes", "iso", "none"}]
Lines == [speaker : {"", " ", "A"}, body : {"", "x"}]
Nodes == {"p", "q", "r"}
Times == {[n \in Nodes |-> 1], [n \in Nodes |-> IF n = "p" THEN 1 ELSE 2]}

Mails == [words : SUBSET {"a", "b"}, from : {"x", "y"}]
Searches == [terms : Sequences({"a", "b", ""}, 3), any : BOOLEAN, legacy : {"", "b"}, from : {"", "x"}]
Leaves == [mime : {"plain", "html", "file"}, attached : BOOLEAN, named : BOOLEAN, parts : {<<>>}]
Multiparts(parts) == [mime : {"multi"}, attached : {FALSE}, named : {FALSE}, parts : parts]
Inner == Leaves \union [mime : {"multi"}, attached : {FALSE}, named : BOOLEAN, parts : Sequences(Leaves, 2)]

Samples ==
  [kind : {"export"}, value : Exports]
  \union [kind : {"sizes"}, value : Sequences({1, 2, 4, 9}, 5)]
  \union [kind : {"total"}, value : 1..150]
  \union [kind : {"lines"}, value : Sequences(Lines, 4)]
  \union [kind : {"tree"}, parent : [Nodes -> Nodes \union {"root", "missing"}], node : {"p", "gone"}, time : Times]
  \union [kind : {"search"}, request : Searches, mail : Mails]
  \union [kind : {"pages"}, hits : SUBSET (1..5), later : {{}, {6}, {6, 7}}, wanted : 0..3]
  \union [kind : {"reference"}, provider : {"imap", "gmail"}, account : {<<"x">>, <<"x", ":", "y">>, <<":">>},
          mailbox : [name : {"", "Work"}, blanks : BOOLEAN], uid : 1..2]
  \union [kind : {"parts"}, root : Leaves \union Multiparts(Sequences(Inner, 1) \union (Leaves \X Inner))]

-------------------------------------------------------------------------------
(* The specification *)

NoSample == [kind |-> "none"]

MCInit ==
  /\ part \in {"schedule", "outbox", "deletions", "imports", "inbox", "google", "texts"}
  /\ sample \in IF part = "texts" THEN Samples ELSE {NoSample}
  /\ Init
  /\ Out!Init /\ Uploads!Init /\ Mail!Init

rowsAndTasks == <<rowVars, looping, listed, executor, owner, historyVars, turns>>
Schedules == part = "schedule" /\ UNCHANGED <<part, sample, outboxVars, fileVars, mailVars>>
TellsNotes == part = "outbox" /\ UNCHANGED <<part, sample, rowsAndTasks, fileVars, mailVars>>
KeepsFiles(p) == part = p /\ UNCHANGED <<part, sample, rowsAndTasks, outboxVars, mailVars>>
ReadsMail(p) == part = p /\ UNCHANGED <<part, sample, rowsAndTasks, outboxVars, fileVars, crashes>>

\* One deletion with two files or two with one, while an import of one file is asked for
Deletes ==
  /\ place'[f2] = "absent" \/ (request'[r2] = request[r2] /\ UNCHANGED <<depends, crashes>>)
  /\ worker'[w1].at \in {"none", "spawned"} /\ import'[f2] = "absent" /\ worker'[w2] = worker[w2]
\* One deletion and two import tasks, with failing statements, and no conversations
Imports == UNCHANGED <<savedFor, attached, conversation, depends>> /\ place'[f2] = "absent" /\ request'[r2] = request[r2]
\* A mailbox that is replaced once
ReadsInbox == feed' = "imap" /\ UNCHANGED <<items, current, revoked>>
\* A Google account that is connected again once
ReadsGoogle == at' # "planning" /\ UNCHANGED mailbox

MCNext ==
  \/ Schedules /\ Next
  \/ TellsNotes /\ Out!Next
  \/ KeepsFiles("deletions") /\ Uploads!Next /\ Deletes
  \/ KeepsFiles("imports") /\ Uploads!Next /\ Imports
  \/ ReadsMail("inbox") /\ Mail!Next /\ ReadsInbox
  \/ ReadsMail("google") /\ Mail!Next /\ ReadsGoogle

\* The fairness of the parts.  As a behaviour is one of one part, being fair to a step of this
\* part or a step of that one is being fair to each.
FirstStep ==
  \/ Schedules /\ Loop
  \/ TellsNotes /\ Out!Loop
  \/ KeepsFiles("imports") /\ Uploads!Import(w1)
  \/ ReadsMail("inbox") /\ Mail!Poll /\ ReadsInbox
  \/ ReadsMail("google") /\ Mail!Poll /\ ReadsGoogle
SecondStep ==
  \/ Schedules /\ Restart
  \/ TellsNotes /\ Out!Restart
  \/ KeepsFiles("imports") /\ Uploads!Import(w2)
  \/ ReadsMail("google") /\ Mail!AccessExpires
ThirdStep ==
  \/ Schedules /\ OtherReleases
  \/ KeepsFiles("imports") /\ Uploads!Restart

Fair ==
  /\ WF_allVars(FirstStep) /\ WF_allVars(SecondStep) /\ WF_allVars(ThirdStep)
  /\ \A t \in Tasks : WF_allVars(Schedules /\ Execute(t)) /\ WF_allVars(Schedules /\ FallsDue(t))

MCSpec == MCInit /\ [][MCNext]_allVars /\ Fair

-------------------------------------------------------------------------------
(* Properties *)

Awaited(t, n, u) ==
  \/ part = "schedule" /\ ~Answered(t)
  \/ part = "outbox" /\ Out!Waiting(n)
  \/ part = "imports" /\ Uploads!Importing(f1)
  \/ part = "inbox" /\ Mail!Unnoticed(u)
  \/ part = "google" /\ Mail!LeftPaused
Arrived(t, n, u) ==
  \/ part = "schedule" /\ Answered(t)
  \/ part = "outbox" /\ ~Out!Waiting(n)
  \/ part = "imports" /\ ~Uploads!Importing(f1)
  \/ part = "inbox" /\ Mail!Noticed(u)
  \/ part = "google" /\ ~Mail!LeftPaused

\* What somebody waits for happens: a stored prompt is read (PromptAnswered), a note is sent or
\* fails (NotesSettle), an import ends (ImportsSettle), mail becomes an event (MailNoticed) and
\* a reconnected account is polled again (AccountResumes).  One formula for all parts, and one
\* conjunct for two of a kind.
BackgroundSettles ==
  /\ Awaited(t1, n1, 1) ~> Arrived(t1, n1, 1)
  /\ Awaited(t2, n2, 2) ~> Arrived(t2, n2, 2)

\* What the importer reads and what the mail tools search, page, open and show, over the
\* inputs above (ImportText.tla, MailReading.tla).
TextsRead ==
  LET s == sample IN
  /\ s.kind = "export" => Text!AutoReads(s.value)
  /\ s.kind = "sizes" => Text!ChunksComplete(s.value)
  /\ s.kind = "total" => Text!SelectionSpans(s.value)
  /\ s.kind = "lines" => Text!LinesRead(s.value)
  /\ s.kind = "tree" => Text!BranchRead(s.parent, s.node, s.time)
  /\ s.kind = "search" => Read!SearchesAgree(s.request, s.mail)
  /\ s.kind = "pages" => Read!PagesComplete(s.hits, s.later, s.wanted)
  /\ s.kind = "reference" => Read!FoundIsOpened(s.provider, s.account, s.mailbox, s.uid)
  /\ s.kind = "parts" => Read!PartsReachable(s.root)
===============================================================================
