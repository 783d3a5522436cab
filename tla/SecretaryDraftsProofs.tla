------------------------- MODULE SecretaryDraftsProofs -------------------------
(***************************************************************************)
(* Proofs about the drafts of a managed chat, for any number of messages,  *)
(* edits, deletions, revisions, failing statements and crashes.            *)
(***************************************************************************)
EXTENDS SecretaryDrafts, TLAPS

\* What is counted is in the messages table before it is counted.
WrittenFirst ==
  /\ counted \subseteq written
  /\ \A t \in Tasks : pc[t] # "idle" => t \in written
  /\ \A d \in Drafters : exec[d] \in {"recording", "completing"} => Reply(d) \in written

\* The chat's revision only grows, so a task or a draft that has the latest one
\* has read everything that was counted by then.
ReadsLatest ==
  /\ \A t \in Tasks :
       /\ cur[t] <= rev
       /\ pc[t] \in {"drafting", "inserting"} /\ cur[t] = rev => counted \subseteq read[t]
  /\ \A d \in Drafters : source[d] <= rev /\ (source[d] = rev => counted \subseteq basis[d])

\* A task that drafts owns the conversation, and it has the only draft.
Drafting ==
  \A t \in Tasks :
    /\ pc[t] \notin {"idle", "counting", "superseding", "done"} => t \in Drafters
    /\ pc[t] \in {"reading", "clearing", "loading", "drafting", "inserting", "releasing"} => owner = t
    /\ pc[t] \in {"loading", "drafting", "inserting"} =>
         \A d \in Drafters : status[d] # "pending"
    /\ t \in Drafters /\ pc[t] \notin {"releasing", "done"} => status[t] = "absent"

\* A request decides a draft that is executing, and what it knows about it.
Deciding ==
  \A d \in Drafters :
    /\ exec[d] # "none" => status[d] = "executing"
    /\ exec[d] \in {"checking", "sending"} => sent[d] = {} /\ approved[d] = revision[d]
    /\ exec[d] \in {"sending", "storing", "recording", "completing"} => known[d] \subseteq basis[d]
    /\ exec[d] \in {"storing", "recording", "completing"} => sent[d] # {}
    /\ exec[d] = "completing" => Reply(d) \in counted
    /\ exec[d] = "rejecting" => sent[d] = {}
    /\ known[d] \subseteq counted

IInv ==
  /\ TypeOK /\ WrittenFirst /\ ReadsLatest /\ Drafting /\ Deciding
  /\ SentAsApproved /\ NothingOverlooked /\ OnePendingDraft /\ OutcomeTrue

-------------------------------------------------------------------------------

\* What the tasks of the reports do keeps every variable in its type.
LEMMA TaskType ==
  ASSUME TypeOK, NEW t \in Tasks, Write(t) \/ Delete(t) \/ TaskStep(t) \/ TaskFails(t)
  PROVE  TypeOK'
<1> USE DraftAssumption DEF DraftAssumption, TypeOK, Changes, Goto, TaskPcs, Statuses
<1>1. CASE Write(t)
  BY <1>1 DEF Write, rowVars, sendVars
<1>2. CASE Delete(t)
  BY <1>2 DEF Delete, rowVars, sendVars
<1>3. CASE Count(t)
  BY <1>3 DEF Count, rowVars, sendVars
<1>4. CASE Supersede(t)
  BY <1>4 DEF Supersede, Superseded, chatVars, sendVars
<1>5. CASE ClaimConversation(t)
  BY <1>5 DEF ClaimConversation, chatVars, rowVars, sendVars
<1>6. CASE ReadChat(t)
  BY <1>6 DEF ReadChat, chatVars, rowVars, sendVars
<1>7. CASE ClearDrafts(t)
  BY <1>7 DEF ClearDrafts, Superseded, chatVars, sendVars
<1>8. CASE ReadMessages(t)
  BY <1>8 DEF ReadMessages, chatVars, rowVars, sendVars
<1>9. CASE CheckChat(t)
  BY <1>9 DEF CheckChat, chatVars, rowVars, sendVars
<1>10. CASE Insert(t)
  <2>1. pc' \in [Tasks -> TaskPcs]
    BY <1>10 DEF Insert
  <2>2. status' \in [Drafters -> Statuses]
    BY <1>10 DEF Insert
  <2>3. 1 \in 0..MaxRevision
    OBVIOUS
  <2>4. revision' \in [Drafters -> 0..MaxRevision] /\ source' \in [Drafters -> Nat]
    BY <1>10, <2>3 DEF Insert
  <2>5. read[t] \subseteq Changes /\ basis' = [basis EXCEPT ![t] = read[t]]
    BY <1>10 DEF Insert
  <2>6. basis' \in [Drafters -> SUBSET Changes]
    BY <2>5
  <2> QED
    BY <1>10, <2>1, <2>2, <2>4, <2>6 DEF Insert, chatVars, sendVars
<1>11. CASE Release(t)
  BY <1>11 DEF Release, chatVars, rowVars, sendVars
<1>12. CASE TaskFails(t)
  BY <1>12 DEF TaskFails, Fault, chatVars, rowVars, sendVars
<1> QED
  BY <1>1, <1>2, <1>3, <1>4, <1>5, <1>6, <1>7, <1>8, <1>9, <1>10, <1>11, <1>12 DEF TaskStep

\* So does what the owner, a decision and a crash do.
LEMMA DecisionType ==
  ASSUME TypeOK,
         (\E d \in Drafters : OwnerStep(d) \/ DecisionStep(d) \/ DecisionFails(d)) \/ Crash
  PROVE  TypeOK'
<1> USE DraftAssumption DEF DraftAssumption, TypeOK, Changes, ExecGoto, ExecPcs, Statuses
<1>1. ASSUME NEW d \in Drafters, Edit(d) PROVE TypeOK'
  BY <1>1 DEF Edit, chatVars, taskVars, sendVars
<1>2. ASSUME NEW d \in Drafters, Approve(d) PROVE TypeOK'
  BY <1>2 DEF Approve, chatVars, taskVars
<1>3. ASSUME NEW d \in Drafters, Reject(d) PROVE TypeOK'
  BY <1>3 DEF Reject, chatVars, taskVars
<1>4. ASSUME NEW d \in Drafters, CheckSource(d) PROVE TypeOK'
  BY <1>4 DEF CheckSource, chatVars, taskVars, rowVars
<1>5. ASSUME NEW d \in Drafters, Send(d) PROVE TypeOK'
  BY <1>5 DEF Send, chatVars, taskVars, rowVars
<1>6. ASSUME NEW d \in Drafters, StoreReply(d) PROVE TypeOK'
  BY <1>6 DEF StoreReply, taskVars, rowVars
<1>7. ASSUME NEW d \in Drafters, RecordReply(d) PROVE TypeOK'
  BY <1>7 DEF RecordReply, taskVars, rowVars
<1>8. ASSUME NEW d \in Drafters, Complete(d) \/ FailReply(d) \/ FinishReject(d) PROVE TypeOK'
  BY <1>8 DEF Complete, FailReply, FinishReject, Resolve, chatVars, taskVars
<1>9. ASSUME NEW d \in Drafters, DecisionFails(d) PROVE TypeOK'
  BY <1>9 DEF DecisionFails, Fault, chatVars, taskVars, rowVars
<1>10. CASE Crash
  BY <1>10 DEF Crash, TaskPcs, chatVars
<1> QED
  BY <1>1, <1>2, <1>3, <1>4, <1>5, <1>6, <1>7, <1>8, <1>9, <1>10 DEF OwnerStep, DecisionStep

\* Every step keeps every variable in its type.
LEMMA TypeStep == TypeOK /\ [Next]_vars => TypeOK'
<1>1. ASSUME TypeOK, UNCHANGED vars PROVE TypeOK'
  BY <1>1 DEF TypeOK, vars, chatVars, taskVars, rowVars, sendVars
<1> QED
  BY <1>1, TaskType, DecisionType DEF Next

-------------------------------------------------------------------------------

\* A change is counted only by a task or a decision that has written it.
LEMMA WrittenFirstStep == IInv /\ Next => WrittenFirst'
<1> SUFFICES ASSUME IInv, Next PROVE WrittenFirst'
  OBVIOUS
<1> USE DraftAssumption
    DEF DraftAssumption, IInv, TypeOK, WrittenFirst, Goto,
        chatVars, taskVars, rowVars, sendVars
<1>1. ASSUME NEW t \in Tasks, Write(t) \/ Delete(t) \/ Count(t) \/ Supersede(t)
      PROVE  WrittenFirst'
  BY <1>1 DEF Write, Delete, Count, Supersede, Superseded
<1>2. ASSUME NEW t \in Tasks,
             \/ ClaimConversation(t) \/ ReadChat(t) \/ ClearDrafts(t) \/ ReadMessages(t)
             \/ CheckChat(t) \/ Insert(t) \/ Release(t)
      PROVE  WrittenFirst'
  BY <1>2 DEF ClaimConversation, ReadChat, ClearDrafts, ReadMessages, CheckChat, Insert,
     Release, Superseded
<1>3. ASSUME NEW t \in Tasks, TaskFails(t)
      PROVE  WrittenFirst'
  BY <1>3 DEF TaskFails, Fault
<1>4. ASSUME NEW d \in Drafters, OwnerStep(d)
      PROVE  WrittenFirst'
  BY <1>4 DEF OwnerStep, Edit, Approve, Reject
<1>5. ASSUME NEW d \in Drafters, DecisionStep(d)
      PROVE  WrittenFirst'
  BY <1>5 DEF DecisionStep, ExecGoto, Resolve, CheckSource, Send, StoreReply, RecordReply, Complete,
     FailReply, FinishReject
<1>6. ASSUME NEW d \in Drafters, DecisionFails(d)
      PROVE  WrittenFirst'
  BY <1>6 DEF DecisionFails, ExecGoto, Fault
<1>7. CASE Crash
  BY <1>7 DEF Crash
<1> QED
  BY <1>1, <1>2, <1>3, <1>4, <1>5, <1>6, <1>7 DEF Next, TaskStep

\* The revision is read before the messages, so a count in between spoils it.
LEMMA ReadsLatestStep == IInv /\ Next => ReadsLatest'
<1> SUFFICES ASSUME IInv, Next PROVE ReadsLatest'
  OBVIOUS
<1> USE DraftAssumption
    DEF DraftAssumption, IInv, TypeOK, WrittenFirst, Drafting, ReadsLatest, Goto,
        chatVars, taskVars, rowVars, sendVars
<1>1. ASSUME NEW t \in Tasks, Write(t) \/ Delete(t) \/ Count(t) \/ Supersede(t)
      PROVE  ReadsLatest'
  BY <1>1 DEF Write, Delete, Count, Supersede, Superseded
<1>2. ASSUME NEW t \in Tasks,
             \/ ClaimConversation(t) \/ ReadChat(t) \/ ClearDrafts(t) \/ ReadMessages(t)
             \/ CheckChat(t) \/ Insert(t) \/ Release(t)
      PROVE  ReadsLatest'
  BY <1>2 DEF ClaimConversation, ReadChat, ClearDrafts, ReadMessages, CheckChat, Insert,
     Release, Superseded
<1>3. ASSUME NEW t \in Tasks, TaskFails(t)
      PROVE  ReadsLatest'
  BY <1>3 DEF TaskFails, Fault
<1>4. ASSUME NEW d \in Drafters, OwnerStep(d)
      PROVE  ReadsLatest'
  BY <1>4 DEF OwnerStep, Edit, Approve, Reject
<1>5. ASSUME NEW d \in Drafters, DecisionStep(d)
      PROVE  ReadsLatest'
  BY <1>5 DEF DecisionStep, ExecGoto, Resolve, CheckSource, Send, StoreReply, RecordReply, Complete,
     FailReply, FinishReject
<1>6. ASSUME NEW d \in Drafters, DecisionFails(d)
      PROVE  ReadsLatest'
  BY <1>6 DEF DecisionFails, ExecGoto, Fault
<1>7. CASE Crash
  BY <1>7 DEF Crash
<1> QED
  BY <1>1, <1>2, <1>3, <1>4, <1>5, <1>6, <1>7 DEF Next, TaskStep

\* A draft is inserted by the owner of the conversation, after it cleared the others.
LEMMA DraftingStep == IInv /\ Next => Drafting'
<1> SUFFICES ASSUME IInv, Next PROVE Drafting'
  OBVIOUS
<1> USE DraftAssumption
    DEF DraftAssumption, IInv, TypeOK, Deciding, Drafting, Goto,
        chatVars, taskVars, rowVars, sendVars
<1>1. ASSUME NEW t \in Tasks, Write(t) \/ Delete(t) \/ Count(t) \/ Supersede(t)
      PROVE  Drafting'
  BY <1>1 DEF Write, Delete, Count, Supersede, Superseded
<1>2. ASSUME NEW t \in Tasks,
             \/ ClaimConversation(t) \/ ReadChat(t) \/ ClearDrafts(t) \/ ReadMessages(t)
             \/ CheckChat(t) \/ Insert(t) \/ Release(t)
      PROVE  Drafting'
  BY <1>2 DEF ClaimConversation, ReadChat, ClearDrafts, ReadMessages, CheckChat, Insert,
     Release, Superseded
<1>3. ASSUME NEW t \in Tasks, TaskFails(t)
      PROVE  Drafting'
  <2>1. UNCHANGED <<owner, status>> /\ \A u \in Tasks \ {t} : pc'[u] = pc[u]
    BY <1>3 DEF TaskFails
  <2>2. CASE pc'[t] = "done"
    BY <2>1, <2>2
  <2>3. CASE pc'[t] = "claiming" /\ pc[t] = "superseding" /\ t \in Edits
    BY <2>1, <2>3 DEF Drafters
  <2>4. CASE pc'[t] = "releasing" /\ pc[t] \in {"reading", "clearing", "loading", "drafting", "inserting"}
    BY <2>1, <2>4
  <2> QED
    BY <1>3, <2>2, <2>3, <2>4 DEF TaskFails
<1>4. ASSUME NEW d \in Drafters, OwnerStep(d)
      PROVE  Drafting'
  BY <1>4 DEF OwnerStep, Edit, Approve, Reject
<1>5. ASSUME NEW d \in Drafters, DecisionStep(d)
      PROVE  Drafting'
  BY <1>5 DEF DecisionStep, ExecGoto, Resolve, CheckSource, Send, StoreReply, RecordReply, Complete,
     FailReply, FinishReject
<1>6. ASSUME NEW d \in Drafters, DecisionFails(d)
      PROVE  Drafting'
  BY <1>6 DEF DecisionFails, ExecGoto, Fault
<1>7. CASE Crash
  BY <1>7 DEF Crash
<1> QED
  BY <1>1, <1>2, <1>3, <1>4, <1>5, <1>6, <1>7 DEF Next, TaskStep

\* The source check finds what the owner knew in the transcript the draft was written from.
LEMMA DecidingStep == IInv /\ Next => Deciding'
<1> SUFFICES ASSUME IInv, Next PROVE Deciding'
  OBVIOUS
<1> USE DraftAssumption
    DEF DraftAssumption, IInv, TypeOK, WrittenFirst, ReadsLatest, Drafting, OutcomeTrue, Deciding, Goto,
        chatVars, taskVars, rowVars, sendVars
<1>1. ASSUME NEW t \in Tasks, Write(t) \/ Delete(t) \/ Count(t) \/ Supersede(t)
      PROVE  Deciding'
  BY <1>1 DEF Write, Delete, Count, Supersede, Superseded
<1>2. ASSUME NEW t \in Tasks,
             \/ ClaimConversation(t) \/ ReadChat(t) \/ ClearDrafts(t) \/ ReadMessages(t)
             \/ CheckChat(t) \/ Insert(t) \/ Release(t)
      PROVE  Deciding'
  BY <1>2 DEF ClaimConversation, ReadChat, ClearDrafts, ReadMessages, CheckChat, Insert,
     Release, Superseded
<1>3. ASSUME NEW t \in Tasks, TaskFails(t)
      PROVE  Deciding'
  BY <1>3 DEF TaskFails, Fault
<1>4. ASSUME NEW d \in Drafters, OwnerStep(d)
      PROVE  Deciding'
  BY <1>4 DEF OwnerStep, Edit, Approve, Reject
<1>5. ASSUME NEW d \in Drafters, DecisionStep(d)
      PROVE  Deciding'
  <2>1. CASE Send(d)
    <3>1. exec'[d] \in {"storing", "failing"} /\ exec[d] = "sending"
      BY <2>1 DEF Send, ExecGoto
    <3>2. exec'[d] = "storing" => sent'[d] = sent[d] \union {revision[d]}
      BY <2>1 DEF Send, ExecGoto
    <3>3. \A x \in Drafters \ {d} : exec'[x] = exec[x] /\ sent'[x] = sent[x]
      BY <2>1 DEF Send, ExecGoto
    <3>4. UNCHANGED <<status, approved, revision, known, basis, counted>>
      BY <2>1 DEF Send
    <3>5. exec'[d] = "storing" => sent'[d] # {}
      BY <3>2
    <3> QED
      BY <3>1, <3>3, <3>4, <3>5
  <2>2. CASE ~Send(d)
    BY <1>5, <2>2 DEF DecisionStep, ExecGoto, Resolve, CheckSource, StoreReply, RecordReply, Complete,
     FailReply, FinishReject
  <2> QED
    BY <2>1, <2>2
<1>6. ASSUME NEW d \in Drafters, DecisionFails(d)
      PROVE  Deciding'
  BY <1>6 DEF DecisionFails, ExecGoto, Fault
<1>7. CASE Crash
  BY <1>7 DEF Crash
<1> QED
  BY <1>1, <1>2, <1>3, <1>4, <1>5, <1>6, <1>7 DEF Next, TaskStep

\* Nothing changes the revision of a draft that is executing.
LEMMA SentAsApprovedStep == IInv /\ Next => SentAsApproved'
<1> SUFFICES ASSUME IInv, Next PROVE SentAsApproved'
  OBVIOUS
<1> USE DraftAssumption
    DEF DraftAssumption, IInv, TypeOK, Deciding, OutcomeTrue, SentAsApproved, Goto,
        chatVars, taskVars, rowVars, sendVars
<1>1. ASSUME NEW t \in Tasks, Write(t) \/ Delete(t) \/ Count(t) \/ Supersede(t)
      PROVE  SentAsApproved'
  BY <1>1 DEF Write, Delete, Count, Supersede, Superseded
<1>2. ASSUME NEW t \in Tasks,
             \/ ClaimConversation(t) \/ ReadChat(t) \/ ClearDrafts(t) \/ ReadMessages(t)
             \/ CheckChat(t) \/ Insert(t) \/ Release(t)
      PROVE  SentAsApproved'
  BY <1>2 DEF ClaimConversation, ReadChat, ClearDrafts, ReadMessages, CheckChat, Insert,
     Release, Superseded
<1>3. ASSUME NEW t \in Tasks, TaskFails(t)
      PROVE  SentAsApproved'
  BY <1>3 DEF TaskFails, Fault
<1>4. ASSUME NEW d \in Drafters, OwnerStep(d)
      PROVE  SentAsApproved'
  BY <1>4 DEF OwnerStep, Edit, Approve, Reject
<1>5. ASSUME NEW d \in Drafters, DecisionStep(d)
      PROVE  SentAsApproved'
  BY <1>5 DEF DecisionStep, ExecGoto, Resolve, CheckSource, Send, StoreReply, RecordReply, Complete,
     FailReply, FinishReject
<1>6. ASSUME NEW d \in Drafters, DecisionFails(d)
      PROVE  SentAsApproved'
  BY <1>6 DEF DecisionFails, ExecGoto, Fault
<1>7. CASE Crash
  BY <1>7 DEF Crash
<1> QED
  BY <1>1, <1>2, <1>3, <1>4, <1>5, <1>6, <1>7 DEF Next, TaskStep

\* What is sent passed the source check, and its draft is not written again.
LEMMA NothingOverlookedStep == IInv /\ Next => NothingOverlooked'
<1> SUFFICES ASSUME IInv, Next PROVE NothingOverlooked'
  OBVIOUS
<1> USE DraftAssumption
    DEF DraftAssumption, IInv, TypeOK, Drafting, Deciding, OutcomeTrue, NothingOverlooked, Goto,
        chatVars, taskVars, rowVars, sendVars
<1>1. ASSUME NEW t \in Tasks, Write(t) \/ Delete(t) \/ Count(t) \/ Supersede(t)
      PROVE  NothingOverlooked'
  BY <1>1 DEF Write, Delete, Count, Supersede, Superseded
<1>2. ASSUME NEW t \in Tasks,
             \/ ClaimConversation(t) \/ ReadChat(t) \/ ClearDrafts(t) \/ ReadMessages(t)
             \/ CheckChat(t) \/ Insert(t) \/ Release(t)
      PROVE  NothingOverlooked'
  BY <1>2 DEF ClaimConversation, ReadChat, ClearDrafts, ReadMessages, CheckChat, Insert,
     Release, Superseded
<1>3. ASSUME NEW t \in Tasks, TaskFails(t)
      PROVE  NothingOverlooked'
  BY <1>3 DEF TaskFails, Fault
<1>4. ASSUME NEW d \in Drafters, OwnerStep(d)
      PROVE  NothingOverlooked'
  BY <1>4 DEF OwnerStep, Edit, Approve, Reject
<1>5. ASSUME NEW d \in Drafters, DecisionStep(d)
      PROVE  NothingOverlooked'
  BY <1>5 DEF DecisionStep, ExecGoto, Resolve, CheckSource, Send, StoreReply, RecordReply, Complete,
     FailReply, FinishReject
<1>6. ASSUME NEW d \in Drafters, DecisionFails(d)
      PROVE  NothingOverlooked'
  BY <1>6 DEF DecisionFails, ExecGoto, Fault
<1>7. CASE Crash
  BY <1>7 DEF Crash
<1> QED
  BY <1>1, <1>2, <1>3, <1>4, <1>5, <1>6, <1>7 DEF Next, TaskStep

\* A draft is inserted when no other is pending, and none comes back.
LEMMA OnePendingDraftStep == IInv /\ Next => OnePendingDraft'
<1> SUFFICES ASSUME IInv, Next PROVE OnePendingDraft'
  OBVIOUS
<1> USE DraftAssumption
    DEF DraftAssumption, IInv, TypeOK, Drafting, Deciding, OnePendingDraft, Goto,
        chatVars, taskVars, rowVars, sendVars
<1>1. ASSUME NEW t \in Tasks, Write(t) \/ Delete(t) \/ Count(t) \/ Supersede(t)
      PROVE  OnePendingDraft'
  BY <1>1 DEF Write, Delete, Count, Supersede, Superseded
<1>2. ASSUME NEW t \in Tasks,
             \/ ClaimConversation(t) \/ ReadChat(t) \/ ClearDrafts(t) \/ ReadMessages(t)
             \/ CheckChat(t) \/ Insert(t) \/ Release(t)
      PROVE  OnePendingDraft'
  BY <1>2 DEF ClaimConversation, ReadChat, ClearDrafts, ReadMessages, CheckChat, Insert,
     Release, Superseded
<1>3. ASSUME NEW t \in Tasks, TaskFails(t)
      PROVE  OnePendingDraft'
  BY <1>3 DEF TaskFails, Fault
<1>4. ASSUME NEW d \in Drafters, OwnerStep(d)
      PROVE  OnePendingDraft'
  BY <1>4 DEF OwnerStep, Edit, Approve, Reject
<1>5. ASSUME NEW d \in Drafters, DecisionStep(d)
      PROVE  OnePendingDraft'
  BY <1>5 DEF DecisionStep, ExecGoto, Resolve, CheckSource, Send, StoreReply, RecordReply, Complete,
     FailReply, FinishReject
<1>6. ASSUME NEW d \in Drafters, DecisionFails(d)
      PROVE  OnePendingDraft'
  BY <1>6 DEF DecisionFails, ExecGoto, Fault
<1>7. CASE Crash
  BY <1>7 DEF Crash
<1> QED
  BY <1>1, <1>2, <1>3, <1>4, <1>5, <1>6, <1>7 DEF Next, TaskStep

\* The status of a draft that was sent is only changed by the end of its decision.
LEMMA OutcomeTrueStep == IInv /\ Next => OutcomeTrue'
<1> SUFFICES ASSUME IInv, Next PROVE OutcomeTrue'
  OBVIOUS
<1> USE DraftAssumption
    DEF DraftAssumption, IInv, TypeOK, Drafting, Deciding, OutcomeTrue, Goto,
        chatVars, taskVars, rowVars, sendVars
<1>1. ASSUME NEW t \in Tasks, Write(t) \/ Delete(t) \/ Count(t) \/ Supersede(t)
      PROVE  OutcomeTrue'
  BY <1>1 DEF Write, Delete, Count, Supersede, Superseded
<1>2. ASSUME NEW t \in Tasks,
             \/ ClaimConversation(t) \/ ReadChat(t) \/ ClearDrafts(t) \/ ReadMessages(t)
             \/ CheckChat(t) \/ Insert(t) \/ Release(t)
      PROVE  OutcomeTrue'
  BY <1>2 DEF ClaimConversation, ReadChat, ClearDrafts, ReadMessages, CheckChat, Insert,
     Release, Superseded
<1>3. ASSUME NEW t \in Tasks, TaskFails(t)
      PROVE  OutcomeTrue'
  BY <1>3 DEF TaskFails, Fault
<1>4. ASSUME NEW d \in Drafters, OwnerStep(d)
      PROVE  OutcomeTrue'
  BY <1>4 DEF OwnerStep, Edit, Approve, Reject
<1>5. ASSUME NEW d \in Drafters, DecisionStep(d)
      PROVE  OutcomeTrue'
  BY <1>5 DEF DecisionStep, ExecGoto, Resolve, CheckSource, Send, StoreReply, RecordReply, Complete,
     FailReply, FinishReject
<1>6. ASSUME NEW d \in Drafters, DecisionFails(d)
      PROVE  OutcomeTrue'
  BY <1>6 DEF DecisionFails, ExecGoto, Fault
<1>7. CASE Crash
  BY <1>7 DEF Crash
<1> QED
  BY <1>1, <1>2, <1>3, <1>4, <1>5, <1>6, <1>7 DEF Next, TaskStep

\* The invariant holds before the first report.
LEMMA InitInv == Init => IInv
<1> SUFFICES ASSUME Init PROVE IInv
  OBVIOUS
<1> USE DraftAssumption DEF DraftAssumption, Init
<1>1. TypeOK
  BY DEF TypeOK, TaskPcs, ExecPcs, Statuses
<1>2. WrittenFirst /\ ReadsLatest /\ Drafting /\ Deciding
  BY DEF WrittenFirst, ReadsLatest, Drafting, Deciding
<1>3. SentAsApproved /\ NothingOverlooked /\ OnePendingDraft /\ OutcomeTrue
  BY DEF SentAsApproved, NothingOverlooked, OnePendingDraft, OutcomeTrue
<1> QED
  BY <1>1, <1>2, <1>3 DEF IInv

\* Every step keeps the invariant.
LEMMA InvStep == IInv /\ [Next]_vars => IInv'
<1>1. ASSUME IInv, UNCHANGED vars PROVE IInv'
  BY <1>1 DEF IInv, TypeOK, WrittenFirst, ReadsLatest, Drafting, Deciding,
     SentAsApproved, NothingOverlooked, OnePendingDraft, OutcomeTrue,
     vars, chatVars, taskVars, rowVars, sendVars
<1>2. ASSUME IInv, Next PROVE IInv'
  BY <1>2, TypeStep, WrittenFirstStep, ReadsLatestStep, DraftingStep, DecidingStep,
     SentAsApprovedStep, NothingOverlookedStep, OnePendingDraftStep, OutcomeTrueStep DEF IInv
<1> QED
  BY <1>1, <1>2

\* The invariant holds in every reachable state.
LEMMA Invariance == Spec => []IInv
<1> QED
  BY InitInv, InvStep, PTL DEF Spec

-------------------------------------------------------------------------------

\* Every reachable state is well typed.
THEOREM TypeCorrect == Spec => []TypeOK
<1>1. IInv => TypeOK
  BY DEF IInv
<1> QED
  BY <1>1, Invariance, PTL

\* Only the revision that was approved is sent, however many edits and decisions race
\* for the draft (files_actions.rs 441-495, actions.rs 282-383).
THEOREM ApprovedIsSent == Spec => []SentAsApproved
<1>1. IInv => SentAsApproved
  BY DEF IInv
<1> QED
  BY <1>1, Invariance, PTL

\* A reply that is sent was written from everything that was counted when it was
\* approved, for any number of reports in any order (agent/secretary.rs 84-270).
THEOREM NothingIsOverlooked == Spec => []NothingOverlooked
<1>1. IInv => NothingOverlooked
  BY DEF IInv
<1> QED
  BY <1>1, Invariance, PTL

\* Two drafts of a chat are never open at once (agent/secretary.rs 25-97).
THEOREM OneDraft == Spec => []OnePendingDraft
<1>1. IInv => OnePendingDraft
  BY DEF IInv
<1> QED
  BY <1>1, Invariance, PTL

\* What the store says of a draft that was sent is true, whatever fails or crashes
\* (actions.rs 161-251, files_actions.rs 569-612).
THEOREM Outcome == Spec => []OutcomeTrue
<1>1. IInv => OutcomeTrue
  BY DEF IInv
<1> QED
  BY <1>1, Invariance, PTL

===============================================================================
