------------------------------ MODULE FileImports ------------------------------
(***************************************************************************)
(* Uploaded files and what is done with them (handlers/files.rs,           *)
(* handlers/conversations.rs, files_actions.rs, conversations.rs,          *)
(* jossie-integration-files).                                              *)
(*                                                                         *)
(* A file has a record in the database and its data on disk.  It is        *)
(* attached to messages or imported as a chat export; an unused draft can  *)
(* be deleted, and so can an archived conversation with its files.  A      *)
(* deletion moves the data aside, deletes the record if it is still        *)
(* allowed to, and then removes the data or puts it back; one that fails   *)
(* or is dropped in between may leave the data aside.  The importer        *)
(* claims an import, reads the data, has it analysed chunk by chunk and    *)
(* saves what it learned, one memory after the other.                      *)
(***************************************************************************)
EXTENDS Naturals, FiniteSets, SequencesExt

CONSTANTS
  Files, Conversations,
  Requests,    \* deletions under way at the same time
  Workers,     \* tasks spawned for imports
  Chunks,      \* chunks of an export that are analysed
  Learned,     \* the memories in each chunk
  Sensitive,   \* memories that look sensitive
  MaxMemories, \* MAX_MEMORIES
  MaxAttempts, \* bound on the attempts at an import
  MaxFaults,   \* bound on failing statements
  MaxCrashes   \* bound on server crashes

FileAssumption ==
  /\ IsFiniteSet(Chunks) /\ DOMAIN Learned = Chunks /\ \A c \in Chunks : IsFiniteSet(Learned[c])
  /\ MaxMemories \in Nat /\ MaxAttempts \in Nat /\ MaxFaults \in Nat /\ MaxCrashes \in Nat
  /\ Requests \intersect {"absent", "uploads", "trash", "gone"} = {}

VARIABLES
  record,       \* files that have a row
  place,        \* where the data is: "uploads", a request that moved it to the trash, "trash"
                \* when no request will touch it there, "gone"
  savedFor,     \* the conversation in the record, "none" for an upload
  attached,     \* the conversations whose messages have the file
  conversation, \* "open", "archived" or "deleted"
  depends,      \* active work depends on the conversation
  request,      \* the deletions
  import,       \* status of the file's chat_imports row
  stopAsked, importRun,  \* cancel_requested and status of its work run
  worker,       \* the import tasks
  memories,     \* saved memories: file, what, and the number in its key
  attempts,     \* attempts claimed
  up, faults, crashes

fileVars == <<record, place, savedFor, attached>>
conversationVars == <<conversation, depends>>
importVars == <<import, stopAsked, importRun, worker, memories, attempts>>
vars == <<fileVars, conversationVars, request, importVars, up, faults, crashes>>

NoRequest == [at |-> "none", of |-> "draft", files |-> {}, todo |-> {}, staged |-> {}, deleted |-> {}]
NoWorker == [at |-> "none", file |-> "none", todo |-> <<>>, saved |-> 0]

Init ==
  /\ record = {} /\ place = [f \in Files |-> "absent"]
  /\ savedFor = [f \in Files |-> "none"] /\ attached = [f \in Files |-> {}]
  /\ conversation = [c \in Conversations |-> "open"]
  /\ depends = [c \in Conversations |-> FALSE]
  /\ request = [r \in Requests |-> NoRequest]
  /\ import = [f \in Files |-> "absent"]
  /\ stopAsked = [f \in Files |-> FALSE] /\ importRun = [f \in Files |-> "none"]
  /\ worker = [w \in Workers |-> NoWorker]
  /\ memories = {} /\ attempts = [f \in Files |-> 0]
  /\ up = TRUE /\ faults = 0 /\ crashes = 0

NoFault == UNCHANGED <<up, faults, crashes>>
Fault == faults < MaxFaults /\ faults' = faults + 1 /\ UNCHANGED <<up, crashes>>

-------------------------------------------------------------------------------
(* Uploads, messages and conversations *)

\* upload_file, persist_media_message: the data, then the record; media from a chat is saved
\* for its conversation, before the message with it.
Upload(f) ==
  /\ up /\ place[f] = "absent"
  /\ place' = [place EXCEPT ![f] = "uploads"]
  /\ \/ /\ record' = record \union {f}
        /\ \E c \in {x \in Conversations : conversation[x] # "deleted"} \union {"none"} :
             savedFor' = [savedFor EXCEPT ![f] = c]
        /\ NoFault
     \/ UNCHANGED <<record, savedFor>> /\ Fault
  /\ UNCHANGED <<attached, conversationVars, request, importVars>>

\* save_message: a message with a file opens an archived conversation again; a file
\* without a record makes the whole transaction fail.
Attach(f, c) ==
  /\ up /\ f \in record /\ conversation[c] # "deleted"
  /\ attached' = [attached EXCEPT ![f] = @ \union {c}]
  /\ conversation' = [conversation EXCEPT ![c] = "open"]
  /\ UNCHANGED <<record, place, savedFor, depends, request, importVars>> /\ NoFault

\* update_conversation; what depends on the conversation matters from here on.
Archive(c) ==
  /\ up /\ conversation[c] = "open"
  /\ conversation' = [conversation EXCEPT ![c] = "archived"]
  /\ UNCHANGED <<fileVars, depends, request, importVars>> /\ NoFault

\* Work, an approval, a schedule or a goal begins or ends.
Depend(c) ==
  /\ up /\ conversation[c] = "archived"
  /\ depends' = [depends EXCEPT ![c] = ~@]
  /\ UNCHANGED <<fileVars, conversation, request, importVars>> /\ NoFault

-------------------------------------------------------------------------------
(* Deletions *)

Unused(f) == attached[f] = {} /\ import[f] = "absent"
Deletable(c) == conversation[c] = "archived" /\ ~depends[c]
\* conversation_delete_files
OnlyIn(c, f) == import[f] = "absent" /\ attached[f] \subseteq {c} /\ (attached[f] = {c} \/ savedFor[f] = c)

Begin(r, of, files) ==
  /\ up /\ request[r].at = "none"
  /\ request' = [request EXCEPT ![r] =
       [NoRequest EXCEPT !.at = "staging", !.of = of, !.files = files, !.todo = files]]
  /\ UNCHANGED <<fileVars, conversationVars, importVars>> /\ NoFault

\* delete_file: get_unattached_file_record
DeleteDraft(r, f) == f \in record /\ Unused(f) /\ Begin(r, "draft", {f})

\* delete_conversation: the checks and the list of its files
DeleteConversation(r, c) == Deletable(c) /\ Begin(r, c, {f \in record : OnlyIn(c, f)})

\* The data of one file is moved to the trash, if it is there.
Stage(r, f) ==
  /\ request[r].at = "staging" /\ f \in request[r].todo
  /\ LET there == place[f] = "uploads" IN
     /\ place' = [place EXCEPT ![f] = IF there THEN r ELSE @]
     /\ request' = [request EXCEPT ![r].todo = @ \ {f},
                                   ![r].staged = IF there THEN @ \union {f} ELSE @]
  /\ UNCHANGED <<record, savedFor, attached, conversationVars, importVars>> /\ NoFault

\* Mutant of Gone: what was checked before the data was moved is taken for granted.
GoneUnchecked(r) == request[r].files \intersect record

\* The records to delete: a draft unless it is used by now, the files of a conversation
\* that may still be deleted, except for those used elsewhere by now.
Gone(r) ==
  LET rq == request[r] IN
  {f \in rq.files \intersect record :
     IF rq.of = "draft" THEN Unused(f)
     ELSE Deletable(rq.of) /\ import[f] = "absent" /\ attached[f] \subseteq {rq.of}}

\* delete_file_record_if_unattached; delete_conversation_data in one transaction
DeleteRecords(r) ==
  /\ request[r].at = "staging" /\ request[r].todo = {}
  /\ record' = record \ Gone(r)
  /\ request' = [request EXCEPT ![r].at = "settling", ![r].deleted = Gone(r)]
  /\ LET c == request[r].of IN
     IF c # "draft" /\ Deletable(c)
     THEN /\ conversation' = [conversation EXCEPT ![c] = "deleted"]
          /\ attached' = [f \in Files |-> attached[f] \ {c}]
          /\ savedFor' = [f \in Files |-> IF savedFor[f] = c THEN "none" ELSE savedFor[f]]
     ELSE UNCHANGED <<conversation, attached, savedFor>>
  /\ UNCHANGED <<place, depends, importVars>> /\ NoFault

\* The statement or a move fails: what was moved is put back.
DeletionFails(r) ==
  /\ request[r].at = "staging" /\ Fault
  /\ request' = [request EXCEPT ![r].at = "settling"]
  /\ UNCHANGED <<fileVars, conversationVars, importVars>>

\* The data of a deleted record is removed, other data moves back.
Settle(r, f) ==
  /\ request[r].at = "settling" /\ f \in request[r].staged
  /\ place' = [place EXCEPT ![f] = IF f \in request[r].deleted THEN "gone" ELSE "uploads"]
  /\ request' = [request EXCEPT ![r].staged = @ \ {f}]
  /\ UNCHANGED <<record, savedFor, attached, conversationVars, importVars>> /\ NoFault

\* Moving it back or removing it may fail, which is only logged.
SettleFails(r, f) ==
  /\ request[r].at = "settling" /\ f \in request[r].staged /\ Fault
  /\ place' = [place EXCEPT ![f] = "trash"]
  /\ request' = [request EXCEPT ![r].staged = @ \ {f}]
  /\ UNCHANGED <<record, savedFor, attached, conversationVars, importVars>>

\* What a request that is no more had in its hands stays where it is.
LeftBy(R) == [f \in Files |-> IF place[f] \in R THEN "trash" ELSE place[f]]

\* try_exists or create_dir_all fails, which ends the request without putting anything back;
\* or its client goes away and the handler is dropped where it waits.
CutShort(r) ==
  /\ request[r].at # "none" /\ Fault
  /\ place' = LeftBy({r})
  /\ request' = [request EXCEPT ![r] = NoRequest]
  /\ UNCHANGED <<record, savedFor, attached, conversationVars, importVars>>

EndRequest(r) ==
  /\ request[r].at = "settling" /\ request[r].staged = {}
  /\ request' = [request EXCEPT ![r] = NoRequest]
  /\ UNCHANGED <<fileVars, conversationVars, importVars>> /\ NoFault

-------------------------------------------------------------------------------
(* Imports *)

Working(w) == worker[w].at \notin {"none", "spawned"}
Spawn(w, f) == worker[w].at = "none" /\ worker' = [worker EXCEPT ![w] = [NoWorker EXCEPT !.at = "spawned", !.file = f]]
Go(w, from, to) == worker[w].at = from /\ worker' = [worker EXCEPT ![w].at = to]
File(w) == worker[w].file

\* enqueue with create_chat_import: one row per file; a queued or failed one gets a task.
Enqueue(w, f) ==
  /\ up /\ f \in record /\ attempts[f] < MaxAttempts
  /\ import' = [import EXCEPT ![f] = IF @ = "absent" THEN "queued" ELSE @]
  /\ IF import[f] \in {"absent", "queued", "failed"} THEN Spawn(w, f) ELSE UNCHANGED worker
  /\ UNCHANGED <<fileVars, conversationVars, request, stopAsked, importRun, memories, attempts>>
  /\ NoFault

\* Mutant of ClaimImport: a row at work is claimed again.
ClaimImportAgain(w) ==
  /\ Go(w, "spawned", "reading")
  /\ import' = [import EXCEPT ![File(w)] = "processing"]
  /\ importRun' = [importRun EXCEPT ![File(w)] = "running"]
  /\ attempts' = [attempts EXCEPT ![File(w)] = @ + 1]
  /\ UNCHANGED <<fileVars, conversationVars, request, stopAsked, memories>> /\ NoFault

\* claim_chat_import, then the run of the import is created or set to running again.
ClaimImport(w) ==
  /\ Go(w, "spawned", "reading")
  /\ import[File(w)] \in {"queued", "failed"}
  /\ import' = [import EXCEPT ![File(w)] = "processing"]
  /\ importRun' = [importRun EXCEPT ![File(w)] = "running"]
  /\ attempts' = [attempts EXCEPT ![File(w)] = @ + 1]
  /\ UNCHANGED <<fileVars, conversationVars, request, stopAsked, memories>> /\ NoFault

NotClaimed(w) ==
  /\ worker[w].at = "spawned" /\ import[File(w)] \notin {"queued", "failed"}
  /\ worker' = [worker EXCEPT ![w] = NoWorker]
  /\ UNCHANGED <<fileVars, conversationVars, request, import, stopAsked, importRun, memories, attempts>>
  /\ NoFault

\* Record and data are read and the export is parsed, unless it is gone or makes no sense.
ReadExport(w) ==
  /\ \/ /\ Go(w, "reading", "checking")
        /\ File(w) \in record /\ place[File(w)] = "uploads"
     \/ Go(w, "reading", "failing")
  /\ UNCHANGED <<fileVars, conversationVars, request, import, stopAsked, importRun, memories, attempts>>
  /\ NoFault

\* Whether a stop was asked for is looked at before the analysis.
StartAnalysis(w) ==
  /\ worker[w].at = "checking"
  /\ Go(w, "checking", IF stopAsked[File(w)] THEN "failing" ELSE "analysing")
  /\ UNCHANGED <<fileVars, conversationVars, request, import, stopAsked, importRun, memories, attempts>>
  /\ NoFault

\* The memories worth saving, in the order the chunks are done in.
ToSave(chunks) == FoldLeft(LAMBDA all, c : all \o SetToSeq(Learned[c] \ (Sensitive \union ToSet(all))), <<>>, chunks)

\* Mutant of ToSave: nothing is compared with what an earlier chunk had.
ToSaveAll(chunks) == FoldLeft(LAMBDA all, c : all \o SetToSeq(Learned[c]), <<>>, chunks)

\* The chunks are analysed concurrently and their results come in any order; some may fail,
\* not all.  After that a stop is looked at again.
Analyse(w) ==
  /\ worker[w].at = "analysing"
  /\ \/ \E done \in SUBSET Chunks \ {{}} : \E order \in SetToSeqs(done) :
          worker' = [worker EXCEPT ![w].at = IF stopAsked[File(w)] THEN "failing" ELSE "saving",
                                   ![w].todo = IF stopAsked[File(w)] THEN <<>> ELSE ToSave(order)]
     \/ worker' = [worker EXCEPT ![w].at = "failing"]
  /\ UNCHANGED <<fileVars, conversationVars, request, import, stopAsked, importRun, memories, attempts>>
  /\ NoFault

Saved(w) == worker[w].todo = <<>> \/ worker[w].saved = MaxMemories

\* memory_save_with_prompt_metadata: the key counts the memories of this attempt.
SaveMemory(w) ==
  /\ worker[w].at = "saving" /\ ~Saved(w)
  /\ memories' = memories \union {<<File(w), Head(worker[w].todo), worker[w].saved + 1>>}
  /\ worker' = [worker EXCEPT ![w].todo = Tail(@), ![w].saved = @ + 1]
  /\ UNCHANGED <<fileVars, conversationVars, request, import, stopAsked, importRun, attempts>> /\ NoFault

\* complete_chat_import
CompleteImport(w) ==
  /\ Saved(w) /\ Go(w, "saving", "completing")
  /\ import' = [import EXCEPT ![File(w)] = "completed"]
  /\ UNCHANGED <<fileVars, conversationVars, request, stopAsked, importRun, memories, attempts>> /\ NoFault

\* fail_chat_import
FailImport(w) ==
  /\ Go(w, "failing", "failed")
  /\ import' = [import EXCEPT ![File(w)] = "failed"]
  /\ UNCHANGED <<fileVars, conversationVars, request, stopAsked, importRun, memories, attempts>> /\ NoFault

\* The run is closed: an import that failed with a stop asked for counts as cancelled.
CloseImportRun(w) ==
  /\ worker[w].at \in {"completing", "failed"}
  /\ importRun' = [importRun EXCEPT ![File(w)] = IF worker[w].at = "completing" THEN "completed"
                                                 ELSE IF stopAsked[File(w)] THEN "cancelled" ELSE "failed"]
  /\ worker' = [worker EXCEPT ![w] = NoWorker]
  /\ UNCHANGED <<fileVars, conversationVars, request, import, stopAsked, memories, attempts>> /\ NoFault

\* A failing statement makes the attempt fail; the error of the last ones is dropped.
ImportStatementFails(w) ==
  /\ Working(w) /\ Fault
  /\ worker' = [worker EXCEPT ![w].at = IF @ = "completing" THEN @ ELSE IF @ \in {"failing", "failed"} THEN "failed" ELSE "failing"]
  /\ UNCHANGED <<fileVars, conversationVars, request, import, stopAsked, importRun, memories, attempts>>

\* cancel_run: the request stays with the run, also for later attempts.
StopImport(f) ==
  /\ up /\ importRun[f] = "running"
  /\ stopAsked' = [stopAsked EXCEPT ![f] = TRUE]
  /\ UNCHANGED <<fileVars, conversationVars, request, import, importRun, worker, memories, attempts>> /\ NoFault

-------------------------------------------------------------------------------
Crash ==
  /\ up /\ crashes < MaxCrashes
  /\ crashes' = crashes + 1 /\ up' = FALSE
  /\ place' = LeftBy(Requests)
  /\ request' = [r \in Requests |-> NoRequest] /\ worker' = [w \in Workers |-> NoWorker]
  /\ UNCHANGED <<record, savedFor, attached, conversationVars, import, stopAsked, importRun, memories, attempts,
                 faults>>

\* requeue_interrupted_chat_imports and resume_pending; each queued import gets a task.
Restart ==
  /\ ~up /\ up' = TRUE
  /\ import' = [f \in Files |-> IF import[f] = "processing" THEN "queued" ELSE import[f]]
  /\ importRun' = [f \in Files |-> IF importRun[f] = "running" THEN "interrupted" ELSE importRun[f]]
  /\ \E assign \in [Workers -> Files \union {"none"}] :
       /\ \A f \in Files : import'[f] = "queued" <=> \E w \in Workers : assign[w] = f
       /\ \A v, w \in Workers : v # w /\ assign[v] = assign[w] => assign[v] = "none"
       /\ worker' = [w \in Workers |-> IF assign[w] = "none" THEN NoWorker
                                       ELSE [NoWorker EXCEPT !.at = "spawned", !.file = assign[w]]]
  /\ UNCHANGED <<fileVars, conversationVars, request, stopAsked, memories, attempts, faults, crashes>>

Import(w) ==
  \/ ClaimImport(w) \/ NotClaimed(w) \/ ReadExport(w) \/ StartAnalysis(w) \/ Analyse(w) \/ SaveMemory(w)
  \/ CompleteImport(w) \/ FailImport(w) \/ CloseImportRun(w) \/ ImportStatementFails(w)

Delete(r) ==
  \/ \E f \in Files : Stage(r, f) \/ Settle(r, f) \/ SettleFails(r, f)
  \/ DeleteRecords(r) \/ DeletionFails(r) \/ CutShort(r) \/ EndRequest(r)

Next ==
  \/ \E f \in Files : Upload(f) \/ StopImport(f)
  \/ \E f \in Files, c \in Conversations : Attach(f, c)
  \/ \E c \in Conversations : Archive(c) \/ Depend(c)
  \/ \E r \in Requests, f \in Files : DeleteDraft(r, f)
  \/ \E r \in Requests, c \in Conversations : DeleteConversation(r, c)
  \/ \E r \in Requests : Delete(r)
  \/ \E w \in Workers, f \in Files : Enqueue(w, f)
  \/ \E w \in Workers : Import(w)
  \/ Crash \/ Restart

Spec == Init /\ [][Next]_vars

\* Requests and import tasks go on, a server that stopped is started again.
Fairness ==
  /\ \A r \in Requests : WF_vars(Delete(r))
  /\ \A w \in Workers : WF_vars(Import(w))
  /\ WF_vars(Restart)
FairSpec == Spec /\ Fairness

-------------------------------------------------------------------------------
(* Properties *)

TypeOK ==
  /\ record \subseteq Files
  /\ place \in [Files -> Requests \union {"absent", "uploads", "trash", "gone"}]
  /\ savedFor \in [Files -> Conversations \union {"none"}]
  /\ attached \in [Files -> SUBSET Conversations]
  /\ conversation \in [Conversations -> {"open", "archived", "deleted"}]
  /\ depends \in [Conversations -> BOOLEAN]
  /\ \A r \in Requests : request[r].at \in {"none", "staging", "settling"}
                         /\ request[r].of \in Conversations \union {"draft"}
  /\ import \in [Files -> {"absent", "queued", "processing", "failed", "completed"}]
  /\ importRun \in [Files -> {"none", "running", "completed", "failed", "cancelled", "interrupted"}]
  /\ attempts \in [Files -> Nat] /\ up \in BOOLEAN

\* A file in use, by a message or an import, has its record, and the data of a file with a
\* record is never destroyed, however deletions, messages and imports interleave: it is in
\* place or in the hands of a request that will put it back, and it is left in the trash
\* only after a crash or a failure.
FilesKept ==
  \A f \in Files :
    /\ attached[f] # {} \/ import[f] # "absent" => f \in record
    /\ f \in record =>
         \/ place[f] = "uploads"
         \/ \E r \in Requests : place[f] = r /\ f \in request[r].staged \ request[r].deleted
         \/ place[f] = "trash" /\ (crashes > 0 \/ faults > 0)

\* One task at a time works on an import, one that is at work has its task, and what it
\* learns is saved at most once per attempt; what looks sensitive is never saved.
ImportedOnce ==
  /\ \A f \in Files :
       LET tasks == {w \in Workers : Working(w) /\ File(w) = f} IN
       /\ Cardinality({w \in tasks : worker[w].at \notin {"completing", "failed"}}) <= 1
       /\ import[f] = "processing" => tasks # {} \/ ~up \/ faults > 0
       /\ \A m \in UNION {Learned[c] : c \in Chunks} :
            Cardinality({k \in memories : k[1] = f /\ k[2] = m}) <= (IF m \in Sensitive THEN 0 ELSE attempts[f])

\* An import that was asked for is completed or fails in the end, also across a restart.
Importing(f) == import[f] \in {"queued", "processing"} /\ faults = 0
ImportsSettle == \A f \in Files : Importing(f) ~> ~Importing(f)
===============================================================================
