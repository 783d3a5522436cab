---------------------------- MODULE SecretaryDrafts ----------------------------
(***************************************************************************)
(* Replies drafted for one managed Telegram chat: jossie-telegram/src/     *)
(* secretary.rs, agent/secretary.rs and handlers/actions.rs of the server, *)
(* repositories/telegram_secretary.rs and files_actions.rs of the database.*)
(*                                                                         *)
(* Telegram reports messages, edits and deletions; each report is handled  *)
(* by a task of its own, which changes the transcript, counts the change   *)
(* in transcript_revision, supersedes the pending drafts and, for what the *)
(* correspondent wrote, drafts a reply.  The owner edits, rejects or       *)
(* approves drafts from several clients; an approved reply is sent.        *)
(* The connection stays enabled.  Every await of the code is a step here.  *)
(***************************************************************************)
EXTENDS Naturals

CONSTANTS
  Inbound, OwnMessages,   \* messages of the correspondent, of the owner's own phone
  Edits, Deletions,       \* of messages of the correspondent
  NoTask,                 \* nobody owns the conversation
  MaxRevision,            \* bound on the revisions of a draft
  MaxFaults, MaxCrashes   \* bounds on failing statements and calls, and on crashes

Tasks == Inbound \union OwnMessages \union Edits \union Deletions
Drafters == Inbound \union Edits     \* a task drafts at most one reply

ASSUME DraftAssumption ==
  /\ Inbound \intersect (OwnMessages \union Edits \union Deletions) = {}
  /\ OwnMessages \intersect (Edits \union Deletions) = {} /\ Edits \intersect Deletions = {}
  /\ NoTask \notin Tasks
  /\ MaxRevision \in Nat \ {0} /\ MaxFaults \in Nat /\ MaxCrashes \in Nat

VARIABLES
  written,   \* the changes the messages table has
  counted,   \* the changes transcript_revision has counted
  rev,       \* transcript_revision
  owner,     \* the task that owns the conversation
  pc, cur, read,                     \* a task: its step, `current`, the transcript it read
  status, revision, source, basis,   \* a draft: its row, and the transcript it was written from
  exec,      \* the request that decides a draft: its step
  approved,  \* the revision the owner approved
  known,     \* the changes counted at that moment
  sent,      \* the revisions Telegram may have taken
  faults, crashes

chatVars == <<written, counted, rev>>
taskVars == <<owner, pc, cur, read>>
rowVars == <<status, revision, source, basis>>
sendVars == <<exec, approved, known, sent>>
vars == <<chatVars, taskVars, rowVars, sendVars, faults, crashes>>

Reply(d) == <<"reply", d>>
Changes == Tasks \union {Reply(d) : d \in Drafters}

Goto(t, from, to) == pc[t] = from /\ pc' = [pc EXCEPT ![t] = to]
Fault == faults < MaxFaults /\ faults' = faults + 1
Superseded == [d \in Drafters |-> IF status[d] = "pending" THEN "rejected" ELSE status[d]]

Init ==
  /\ written = {} /\ counted = {} /\ rev = 0
  /\ owner = NoTask
  /\ pc = [t \in Tasks |-> "idle"]
  /\ cur = [t \in Tasks |-> 0]
  /\ read = [t \in Tasks |-> {}]
  /\ status = [d \in Drafters |-> "absent"]
  /\ revision = [d \in Drafters |-> 0]
  /\ source = [d \in Drafters |-> 0]
  /\ basis = [d \in Drafters |-> {}]
  /\ exec = [d \in Drafters |-> "none"]
  /\ approved = [d \in Drafters |-> 0]
  /\ known = [d \in Drafters |-> {}]
  /\ sent = [d \in Drafters |-> {}]
  /\ faults = 0 /\ crashes = 0

-------------------------------------------------------------------------------
(* The transcript: process_secretary_messages, handle_edited_secretary_message, *)
(* handle_deleted_secretary_messages                                            *)

\* The message or the new content is stored; an edit of a message that is not
\* recorded changes nothing.
Write(t) ==
  /\ t \notin Deletions
  /\ t \in Edits => counted \intersect Inbound # {}
  /\ Goto(t, "idle", "counting")
  /\ written' = written \union {t}
  /\ UNCHANGED <<counted, rev, owner, cur, read, rowVars, sendVars, faults, crashes>>

\* record_telegram_business_message, or the second statement of
\* update_telegram_business_message.
Count(t) ==
  /\ Goto(t, "counting", "superseding")
  /\ counted' = counted \union {t} /\ rev' = rev + 1
  /\ UNCHANGED <<written, owner, cur, read, rowVars, sendVars, faults, crashes>>

\* mark_telegram_business_messages_deleted: one transaction.
Delete(t) ==
  /\ t \in Deletions
  /\ Goto(t, "idle", "superseding")
  /\ written' = written \union {t} /\ counted' = counted \union {t} /\ rev' = rev + 1
  /\ UNCHANGED <<owner, cur, read, rowVars, sendVars, faults, crashes>>

\* supersede_secretary_drafts after the change
Supersede(t) ==
  /\ Goto(t, "superseding", IF t \in Drafters THEN "claiming" ELSE "done")
  /\ status' = Superseded
  /\ UNCHANGED <<chatVars, owner, cur, read, revision, source, basis, sendVars, faults, crashes>>

-------------------------------------------------------------------------------
(* create_secretary_draft *)

\* Mutant of ClaimConversation: a draft is written beside another one.
ClaimShared(t) ==
  /\ Goto(t, "claiming", "reading")
  /\ owner' = t
  /\ UNCHANGED <<chatVars, cur, read, rowVars, sendVars, faults, crashes>>

\* claim_conversation: a foreground claim is refused while another task owns
\* the conversation, and the refusal is only logged.
ClaimConversation(t) ==
  /\ IF owner = NoTask
     THEN Goto(t, "claiming", "reading") /\ owner' = t
     ELSE Goto(t, "claiming", "done") /\ UNCHANGED owner
  /\ UNCHANGED <<chatVars, cur, read, rowVars, sendVars, faults, crashes>>

\* `current`
ReadChat(t) ==
  /\ Goto(t, "reading", "clearing")
  /\ cur' = [cur EXCEPT ![t] = rev]
  /\ UNCHANGED <<chatVars, owner, read, rowVars, sendVars, faults, crashes>>

ClearDrafts(t) ==
  /\ Goto(t, "clearing", "loading")
  /\ status' = Superseded
  /\ UNCHANGED <<chatVars, owner, cur, read, revision, source, basis, sendVars, faults, crashes>>

ReadMessages(t) ==
  /\ Goto(t, "loading", "drafting")
  /\ read' = [read EXCEPT ![t] = written]
  /\ UNCHANGED <<chatVars, owner, cur, rowVars, sendVars, faults, crashes>>

\* The model has written the reply; `latest` must still be `current`.
CheckChat(t) ==
  /\ Goto(t, "drafting", IF rev = cur[t] THEN "inserting" ELSE "releasing")
  /\ UNCHANGED <<chatVars, owner, cur, read, rowVars, sendVars, faults, crashes>>

\* Mutant of Insert: the draft takes the revision of the chat as it is now.
InsertLatest(t) ==
  /\ Goto(t, "inserting", "releasing")
  /\ status' = [status EXCEPT ![t] = "pending"] /\ revision' = [revision EXCEPT ![t] = 1]
  /\ source' = [source EXCEPT ![t] = rev] /\ basis' = [basis EXCEPT ![t] = read[t]]
  /\ UNCHANGED <<chatVars, owner, cur, read, sendVars, faults, crashes>>

\* create_pending_action, and the event that shows it to the owner
Insert(t) ==
  /\ Goto(t, "inserting", "releasing")
  /\ status' = [status EXCEPT ![t] = "pending"] /\ revision' = [revision EXCEPT ![t] = 1]
  /\ source' = [source EXCEPT ![t] = cur[t]] /\ basis' = [basis EXCEPT ![t] = read[t]]
  /\ UNCHANGED <<chatVars, owner, cur, read, sendVars, faults, crashes>>

Release(t) ==
  /\ Goto(t, "releasing", "done")
  /\ owner' = IF owner = t THEN NoTask ELSE owner
  /\ UNCHANGED <<chatVars, cur, read, rowVars, sendVars, faults, crashes>>

\* A statement or the model fails: the error is logged and the task is over, but
\* an edit goes on when the older drafts cannot be superseded.
TaskFails(t) ==
  /\ Fault
  /\ \/ pc[t] \in {"counting", "superseding", "claiming"} /\ pc' = [pc EXCEPT ![t] = "done"]
     \/ t \in Edits /\ Goto(t, "superseding", "claiming")
     \/ /\ pc[t] \in {"reading", "clearing", "loading", "drafting", "inserting"}
        /\ pc' = [pc EXCEPT ![t] = "releasing"]
  /\ UNCHANGED <<chatVars, owner, cur, read, rowVars, sendVars, crashes>>

-------------------------------------------------------------------------------
(* The owner *)

\* update_secretary_draft, from the browser or after revise_secretary_draft: a
\* compare-and-set on the revision.
Edit(d) ==
  /\ status[d] = "pending" /\ revision[d] < MaxRevision
  /\ revision' = [revision EXCEPT ![d] = @ + 1]
  /\ UNCHANGED <<chatVars, taskVars, status, source, basis, sendVars, faults, crashes>>

\* Mutant of Approve: the claim does not compare the revision.
ApproveWhatever(d) ==
  /\ status[d] = "pending"
  /\ \E shown \in 1..revision[d] : approved' = [approved EXCEPT ![d] = shown]
  /\ known' = [known EXCEPT ![d] = counted]
  /\ status' = [status EXCEPT ![d] = "executing"] /\ exec' = [exec EXCEPT ![d] = "checking"]
  /\ UNCHANGED <<chatVars, taskVars, revision, source, basis, sent, faults, crashes>>

\* claim_pending_action_at_revision: the owner approves a revision some client
\* shows; anything but the latest is refused.
Approve(d) ==
  /\ status[d] = "pending"
  /\ \E shown \in 1..revision[d] :
       shown = revision[d] /\ approved' = [approved EXCEPT ![d] = shown]
  /\ known' = [known EXCEPT ![d] = counted]
  /\ status' = [status EXCEPT ![d] = "executing"] /\ exec' = [exec EXCEPT ![d] = "checking"]
  /\ UNCHANGED <<chatVars, taskVars, revision, source, basis, sent, faults, crashes>>

Reject(d) ==
  /\ status[d] = "pending"
  /\ status' = [status EXCEPT ![d] = "executing"] /\ exec' = [exec EXCEPT ![d] = "rejecting"]
  /\ UNCHANGED <<chatVars, taskVars, revision, source, basis, approved, known, sent, faults, crashes>>

-------------------------------------------------------------------------------
(* execute_secretary_reply and the end of the decision *)

ExecGoto(d, from, to) == exec[d] = from /\ exec' = [exec EXCEPT ![d] = to]

\* Mutant of CheckSource: the transcript's revision is not compared.
CheckNothing(d) ==
  /\ ExecGoto(d, "checking", "sending")
  /\ UNCHANGED <<chatVars, taskVars, rowVars, approved, known, sent, faults, crashes>>

\* "A newer Telegram message arrived"; the rights or the 24-hour window may
\* refuse the reply as well.
CheckSource(d) ==
  /\ \/ ExecGoto(d, "checking", "sending") /\ source[d] = rev
     \/ ExecGoto(d, "checking", "failing")
  /\ UNCHANGED <<chatVars, taskVars, rowVars, approved, known, sent, faults, crashes>>

\* run_secretary_send_loop: accepted; or an error, after which Telegram may have
\* taken the message all the same.
Send(d) ==
  /\ \/ ExecGoto(d, "sending", "storing") /\ sent' = [sent EXCEPT ![d] = @ \union {revision[d]}]
     \/ ExecGoto(d, "sending", "failing") /\ sent' = [sent EXCEPT ![d] = @ \union {revision[d]}]
     \/ ExecGoto(d, "sending", "failing") /\ UNCHANGED sent
  /\ UNCHANGED <<chatVars, taskVars, rowVars, approved, known, faults, crashes>>

StoreReply(d) ==
  /\ ExecGoto(d, "storing", "recording")
  /\ written' = written \union {Reply(d)}
  /\ UNCHANGED <<counted, rev, taskVars, rowVars, approved, known, sent, faults, crashes>>

RecordReply(d) ==
  /\ ExecGoto(d, "recording", "completing")
  /\ counted' = counted \union {Reply(d)} /\ rev' = rev + 1
  /\ UNCHANGED <<written, taskVars, rowVars, approved, known, sent, faults, crashes>>

\* resolve_pending_action
Resolve(d, from, to) ==
  /\ ExecGoto(d, from, "none")
  /\ status' = [status EXCEPT ![d] = to]
  /\ UNCHANGED <<chatVars, taskVars, revision, source, basis, approved, known, sent, faults, crashes>>

Complete(d) == Resolve(d, "completing", "completed")

\* Mutant of FailReply: a status that resolve_pending_action does not know.
FailAsError(d) == Resolve(d, "failing", "error")

\* Mutant of FailReply: a reply that was not sent can be approved again.
FailAndReopen(d) == Resolve(d, "failing", "pending")

FailReply(d) == Resolve(d, "failing", "failed")
FinishReject(d) == Resolve(d, "rejecting", "rejected")

\* A statement fails: an error of execute_secretary_reply fails the action, sent
\* or not; one of the decision itself leaves it executing.
DecisionFails(d) ==
  /\ Fault
  /\ \/ exec[d] \in {"checking", "storing", "recording", "completing"}
        /\ exec' = [exec EXCEPT ![d] = "failing"]
     \/ exec[d] \in {"failing", "rejecting"} /\ exec' = [exec EXCEPT ![d] = "none"]
  /\ UNCHANGED <<chatVars, taskVars, rowVars, approved, known, sent, crashes>>

-------------------------------------------------------------------------------

\* The server stops and starts again: tasks and leases are gone, an executing
\* action is marked as uncertain (mark_interrupted_actions_uncertain).
Crash ==
  /\ crashes < MaxCrashes /\ crashes' = crashes + 1
  /\ owner' = NoTask
  /\ pc' = [t \in Tasks |-> IF pc[t] = "idle" THEN "idle" ELSE "done"]
  /\ status' = [d \in Drafters |-> IF status[d] = "executing" THEN "uncertain" ELSE status[d]]
  /\ exec' = [d \in Drafters |-> "none"]
  /\ UNCHANGED <<chatVars, cur, read, revision, source, basis, approved, known, sent, faults>>

TaskStep(t) ==
  \/ Count(t) \/ Supersede(t) \/ ClaimConversation(t) \/ ReadChat(t) \/ ClearDrafts(t)
  \/ ReadMessages(t) \/ CheckChat(t) \/ Insert(t) \/ Release(t)

DecisionStep(d) ==
  \/ CheckSource(d) \/ Send(d) \/ StoreReply(d) \/ RecordReply(d)
  \/ Complete(d) \/ FailReply(d) \/ FinishReject(d)

OwnerStep(d) == Edit(d) \/ Approve(d) \/ Reject(d)

Next ==
  \/ \E t \in Tasks : Write(t) \/ Delete(t) \/ TaskStep(t) \/ TaskFails(t)
  \/ \E d \in Drafters : OwnerStep(d) \/ DecisionStep(d) \/ DecisionFails(d)
  \/ Crash

Spec == Init /\ [][Next]_vars

\* The runtime goes on with tasks and decisions; a call of the model ends.
FairSpec ==
  /\ Spec
  /\ \A t \in Tasks : WF_vars(TaskStep(t))
  /\ \A d \in Drafters : WF_vars(DecisionStep(d))

-------------------------------------------------------------------------------
(* Properties *)

TaskPcs == {"idle", "counting", "superseding", "claiming", "reading", "clearing", "loading",
            "drafting", "inserting", "releasing", "done"}
ExecPcs == {"none", "checking", "sending", "storing", "recording", "completing", "failing", "rejecting"}
Statuses == {"absent", "pending", "executing", "completed", "failed", "rejected", "uncertain"}

TypeOK ==
  /\ written \subseteq Changes /\ counted \subseteq Changes /\ rev \in Nat
  /\ owner \in Tasks \union {NoTask}
  /\ pc \in [Tasks -> TaskPcs] /\ cur \in [Tasks -> Nat] /\ read \in [Tasks -> SUBSET Changes]
  /\ status \in [Drafters -> Statuses] /\ revision \in [Drafters -> 0..MaxRevision]
  /\ source \in [Drafters -> Nat] /\ basis \in [Drafters -> SUBSET Changes]
  /\ exec \in [Drafters -> ExecPcs] /\ approved \in [Drafters -> 0..MaxRevision]
  /\ known \in [Drafters -> SUBSET Changes] /\ sent \in [Drafters -> SUBSET (0..MaxRevision)]
  /\ faults \in 0..MaxFaults /\ crashes \in 0..MaxCrashes

\* What is sent is the revision the owner approved, "exactly as written"
\* (secretary.rs 359), while other clients and the model edit the draft.
SentAsApproved == \A d \in Drafters : sent[d] \subseteq {approved[d]}

\* A reply that is sent was written from a transcript with everything that had
\* been counted when the owner approved it: messages, edits, deletions and
\* replies that come while it is drafted, reviewed or checked are not overlooked,
\* although revision and messages are read and changed by separate statements.
NothingOverlooked == \A d \in Drafters : sent[d] # {} => known[d] \subseteq basis[d]

\* The owner has one draft to decide at a time: however reports, drafting,
\* crashes and decisions interleave, an older draft is never left beside a newer.
OnePendingDraft ==
  \A d, e \in Drafters : status[d] = "pending" /\ status[e] = "pending" => d = e

\* A reply that is reported as completed was sent and is in the transcript; one
\* that was sent never comes back for a decision and is never shown as rejected.
OutcomeTrue ==
  \A d \in Drafters :
    /\ status[d] = "completed" => sent[d] # {} /\ Reply(d) \in counted
    /\ sent[d] # {} => status[d] \notin {"absent", "pending", "rejected"}

\* "I'll draft replies for review" (secretary.rs 52): a message of the
\* correspondent is answered by some draft in the end.  Fails: README section 5; not part of
\* a run.
EveryMessageDrafted ==
  \A m \in Inbound :
    pc[m] = "superseding" ~> \E d \in Drafters : status[d] # "absent" /\ m \in basis[d]
===============================================================================
