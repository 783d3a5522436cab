----------------------------- MODULE EventDelivery -----------------------------
(***************************************************************************)
(* The queue of integration events and the one worker that evaluates them  *)
(* and tells the user (src/event_loop/events.rs, event_delivery.rs,        *)
(* worker.rs, jossie-db/src/event_retries.rs and                           *)
(* repositories/integrations.rs).                                          *)
(*                                                                         *)
(* Integrations and webhooks insert events at any time.  The worker lists  *)
(* the due ones (fewer than PENDING_LIMIT here) and takes them in groups:  *)
(* each other event alone, then all mail, then all calendar changes.  A    *)
(* statement may fail at any point, the server may stop at any point.      *)
(***************************************************************************)
EXTENDS Naturals, FiniteSets

CONSTANTS
  Singles, Emails, Calendars,  \* the events, by how they are grouped
  MaxFaults,                   \* bound on failing statements
  MaxCrashes                   \* bound on server crashes

ASSUME EventAssumption ==
  /\ Singles \intersect (Emails \union Calendars) = {} /\ Emails \intersect Calendars = {}
  /\ MaxFaults \in Nat /\ MaxCrashes \in Nat

Events == Singles \union Emails \union Calendars

VARIABLES
  status,      \* integration_events.status
  delivering,  \* delivery_started_at is set
  window,      \* retry_started_at: unset, open, or 24 hours ago
  due,         \* next_attempt_at is unset or past
  told,        \* Telegram requests that may have reached the user
  pc, listed, batch, left,  \* the worker: its step, the rest of its list, its group,
                            \* the events the present loop has left
  outcome,     \* what the loop is to do to each event of the group
  telegram,    \* the group goes to a Telegram chat
  faults, crashes

rowVars == <<status, delivering, window, due>>
workVars == <<pc, listed, batch, left, outcome, telegram>>
vars == <<rowVars, told, workVars, faults, crashes>>

Outcomes == {"processed", "new", "retry", "failed"}
Pending == {e \in Events : status[e] = "new" /\ due[e]}

\* The next group of the list.
Groups ==
  IF listed \intersect Singles # {} THEN {{e} : e \in listed \intersect Singles}
  ELSE IF listed \intersect Emails # {} THEN {listed \intersect Emails}
  ELSE {listed \intersect Calendars} \ {{}}

Goto(p) == pc' = p /\ UNCHANGED <<listed, batch, telegram>>
Each(what) == [e \in Events |-> IF e \in batch THEN what ELSE "new"]
NoOutcome == [e \in Events |-> "new"]
\* A loop over the events of the group.
Loop(p, what) == Goto(p) /\ left' = batch /\ outcome' = what
\* The worker leaves the group and goes on with the list.
Leave ==
  /\ pc' = "choosing" /\ batch' = {} /\ left' = {} /\ outcome' = NoOutcome
  /\ UNCHANGED <<listed, telegram>>
Fault == faults < MaxFaults /\ faults' = faults + 1

Init ==
  /\ status = [e \in Events |-> "absent"]
  /\ delivering = [e \in Events |-> FALSE]
  /\ window = [e \in Events |-> "unset"]
  /\ due = [e \in Events |-> TRUE]
  /\ told = [e \in Events |-> 0]
  /\ pc = "recovering" /\ listed = {} /\ batch = {} /\ left = {}
  /\ outcome = NoOutcome /\ telegram = FALSE
  /\ faults = 0 /\ crashes = 0

-------------------------------------------------------------------------------
(* Rows *)

\* Mutant of Retry: the 24 hours count from the last failure.
RetryForever(e) ==
  /\ window' = [window EXCEPT ![e] = "open"]
  /\ status' = [status EXCEPT ![e] = IF delivering[e] THEN "failed" ELSE "new"]
  /\ due' = [due EXCEPT ![e] = delivering[e]]
  /\ UNCHANGED delivering

\* retry_integration_event on an event in processing.
Retry(e) ==
  LET final == delivering[e] \/ window[e] = "expired" IN
  /\ window' = [window EXCEPT ![e] = IF @ = "unset" THEN "open" ELSE @]
  /\ status' = [status EXCEPT ![e] = IF final THEN "failed" ELSE "new"]
  /\ due' = [due EXCEPT ![e] = final]
  /\ UNCHANGED delivering

\* Mutant of Apply: the outcome is stored as it is.
ApplyOutcome(e) ==
  /\ status' = [status EXCEPT ![e] = outcome[e]]
  /\ UNCHANGED <<delivering, window, due>>

\* What a loop does to an event: mark_integration_event_processed and _failed
\* look at nothing, mark_integration_event_new and retry_integration_event at
\* the status.
Apply(e) ==
  CASE outcome[e] \in {"processed", "failed"} ->
         /\ status' = [status EXCEPT ![e] = outcome[e]]
         /\ due' = [due EXCEPT ![e] = TRUE]
         /\ UNCHANGED <<delivering, window>>
    [] outcome[e] = "new" /\ status[e] = "processing" /\ ~delivering[e] ->
         /\ status' = [status EXCEPT ![e] = "new"]
         /\ due' = [due EXCEPT ![e] = TRUE]
         /\ UNCHANGED <<delivering, window>>
    [] outcome[e] = "retry" /\ status[e] = "processing" -> Retry(e)
    [] OTHER -> UNCHANGED rowVars

\* insert_integration_event ignores an event it knows.
Insert(e) ==
  /\ status[e] = "absent"
  /\ status' = [status EXCEPT ![e] = "new"]
  /\ UNCHANGED <<delivering, window, due, told, workVars, faults, crashes>>

\* Time passes: the next attempt of an event is due; its 24 hours are over.
ComesDue(e) ==
  /\ ~due[e]
  /\ due' = [due EXCEPT ![e] = TRUE]
  /\ UNCHANGED <<status, delivering, window, told, workVars, faults, crashes>>

Expires(e) ==
  /\ window[e] = "open" /\ status[e] \in {"new", "processing"}
  /\ window' = [window EXCEPT ![e] = "expired"]
  /\ UNCHANGED <<status, delivering, due, told, workVars, faults, crashes>>

-------------------------------------------------------------------------------
(* A group: claim, evaluation *)

\* process_pending_events: the list and the chat it reports to.
Tick ==
  /\ pc = "idle" /\ Pending # {}
  /\ pc' = "choosing" /\ listed' = Pending /\ telegram' \in BOOLEAN
  /\ UNCHANGED <<rowVars, told, batch, left, outcome, faults, crashes>>

EndTick ==
  /\ pc = "choosing" /\ listed = {}
  /\ pc' = "idle" /\ telegram' = FALSE
  /\ UNCHANGED <<rowVars, told, listed, batch, left, outcome, faults, crashes>>

Choose ==
  /\ pc = "choosing"
  /\ \E group \in Groups :
       /\ batch' = group /\ left' = group /\ listed' = listed \ group
       /\ pc' = "claiming"
  /\ UNCHANGED <<rowVars, told, outcome, telegram, faults, crashes>>

\* mark_integration_event_processing: nothing else claims events.
Claim(e) ==
  /\ pc = "claiming" /\ e \in left /\ status[e] = "new" /\ due[e]
  /\ status' = [status EXCEPT ![e] = "processing"]
  /\ left' = left \ {e}
  /\ Goto(IF left = {e} THEN "claimed" ELSE "claiming")
  /\ UNCHANGED <<delivering, window, due, told, outcome, faults, crashes>>

\* A claim fails, or the work run of a single event cannot be written: what has
\* been claimed stays claimed.
ClaimFails ==
  /\ \/ pc = "claiming"
     \/ pc = "claimed" /\ batch \subseteq Singles
  /\ Fault /\ Leave
  /\ UNCHANGED <<rowVars, told, crashes>>

\* Nothing to tell (the agent skips, or every calendar change is filtered).
Skip ==
  /\ pc = "claimed"
  /\ Loop("marking", Each("processed"))
  /\ UNCHANGED <<rowVars, told, faults, crashes>>

\* The conversation is busy, or a turn interrupts the evaluation.
Defer ==
  /\ pc = "claimed"
  /\ Loop("marking", Each("new"))
  /\ UNCHANGED <<rowVars, told, faults, crashes>>

\* The evaluation fails, for now or for good.
FailEvaluation ==
  /\ pc = "claimed"
  /\ \E o \in {"retry", "failed"} : Loop("finishing", Each(o))
  /\ UNCHANGED <<rowVars, told, faults, crashes>>

\* inspect_email_evidence: each mail that cannot be read fails by itself, the
\* others go back to the queue.
FailInspection ==
  /\ pc = "claimed" /\ batch \subseteq Emails
  /\ \E unread \in [batch -> {"new", "retry", "failed"}] :
       /\ \E e \in batch : unread[e] # "new"
       /\ Loop("finishing", [e \in Events |-> IF e \in batch THEN unread[e] ELSE "new"])
  /\ UNCHANGED <<rowVars, told, faults, crashes>>

Notify ==
  /\ pc = "claimed"
  /\ Goto("deciding")
  /\ UNCHANGED <<rowVars, told, left, outcome, faults, crashes>>

-------------------------------------------------------------------------------
(* deliver_event_notification *)

\* is_current: younger than a minute, and no turn has come.
Current ==
  /\ \/ pc = "deciding" /\ Goto(IF telegram THEN "starting" ELSE "recording")
     \/ pc = "rechecking" /\ Goto("sending")
  /\ UNCHANGED <<rowVars, told, left, outcome, faults, crashes>>

Superseded ==
  /\ \/ pc = "deciding" /\ Loop("finishing", Each("new"))
     \/ pc = "rechecking" /\ Loop("clearing", Each("new"))
  /\ UNCHANGED <<rowVars, told, faults, crashes>>

\* begin_integration_event_delivery: one transaction, which fails when an event
\* of the group is not eligible.
BeginDelivery ==
  /\ pc = "starting"
  /\ IF \A e \in batch : status[e] = "processing" /\ ~delivering[e]
     THEN /\ delivering' = [e \in Events |-> delivering[e] \/ e \in batch]
          /\ Goto("rechecking") /\ UNCHANGED <<left, outcome>>
     ELSE Loop("finishing", Each("retry")) /\ UNCHANGED delivering
  /\ UNCHANGED <<status, window, due, told, faults, crashes>>

Reaches == told' = [e \in Events |-> IF e \in batch THEN told[e] + 1 ELSE told[e]]

\* send_notification: accepted; or rate limited or refused, hence not shown.
Send ==
  /\ pc = "sending"
  /\ \/ /\ Reaches /\ Goto("recording")
        /\ UNCHANGED <<left, outcome>>
     \/ /\ UNCHANGED told
        /\ \E o \in {"retry", "failed"} : Loop("clearing", Each(o))
  /\ UNCHANGED <<rowVars, faults, crashes>>

\* Mutant of SendUncertain: a timeout is retried like a rate limit.
SendRetried ==
  /\ pc = "sending"
  /\ Reaches \/ UNCHANGED told
  /\ Loop("clearing", Each("retry"))
  /\ UNCHANGED <<rowVars, faults, crashes>>

\* A timeout or a broken connection: Telegram may have taken the message.
SendUncertain ==
  /\ pc = "sending"
  /\ Reaches \/ UNCHANGED told
  /\ Loop("finishing", Each("failed"))
  /\ UNCHANGED <<rowVars, faults, crashes>>

\* clear_integration_event_delivery
ClearDelivery ==
  /\ pc = "clearing"
  /\ delivering' = [e \in Events |-> delivering[e] /\ ~(e \in batch /\ status[e] = "processing")]
  /\ Goto("finishing")
  /\ UNCHANGED <<status, window, due, told, left, outcome, faults, crashes>>

\* The message and its fingerprint are stored.
Record ==
  /\ pc = "recording"
  /\ Loop("marking", Each("processed"))
  /\ UNCHANGED <<rowVars, told, faults, crashes>>

\* A statement of the delivery, or of the loop that marks the group, fails.
DeliveryFails ==
  /\ pc \in {"starting", "clearing", "recording", "marking"}
  /\ Fault
  /\ Loop("finishing", Each("retry"))
  /\ UNCHANGED <<rowVars, told, crashes>>

-------------------------------------------------------------------------------
(* The loops that settle a group: mark_events_processed, mark_events_new and *)
(* finish_event_failure                                                      *)

Settle(e) ==
  /\ pc \in {"marking", "finishing"} /\ e \in left
  /\ Apply(e)
  /\ IF left = {e} THEN Leave
     ELSE left' = left \ {e} /\ UNCHANGED <<pc, listed, batch, outcome, telegram>>
  /\ UNCHANGED <<told, faults, crashes>>

\* A statement of finish_event_failure fails: the rest is left in processing.
FinishFails ==
  /\ pc = "finishing"
  /\ Fault /\ Leave
  /\ UNCHANGED <<rowVars, told, crashes>>

-------------------------------------------------------------------------------
(* Crashes and the next start *)

Crash ==
  /\ crashes < MaxCrashes /\ crashes' = crashes + 1
  /\ pc' = "recovering" /\ listed' = {} /\ batch' = {} /\ left' = {}
  /\ outcome' = NoOutcome /\ telegram' = FALSE
  /\ UNCHANGED <<rowVars, told, faults>>

\* recover_interrupted_event_evaluations
Recover(e) ==
  /\ pc = "recovering" /\ status[e] = "processing"
  /\ Retry(e)
  /\ UNCHANGED <<told, workVars, faults, crashes>>

\* Mutant of StartLoop: the loop starts without recovering first.
StartLoopAtOnce ==
  /\ pc = "recovering"
  /\ Goto("idle")
  /\ UNCHANGED <<rowVars, told, left, outcome, faults, crashes>>

StartLoop ==
  /\ pc = "recovering" /\ \A e \in Events : status[e] # "processing"
  /\ Goto("idle")
  /\ UNCHANGED <<rowVars, told, left, outcome, faults, crashes>>

-------------------------------------------------------------------------------

WorkerStep ==
  \/ Tick \/ EndTick \/ Choose
  \/ \E e \in Events : Claim(e) \/ Settle(e) \/ Recover(e)
  \/ Skip \/ Defer \/ FailEvaluation \/ FailInspection \/ Notify
  \/ Current \/ Superseded \/ BeginDelivery \/ Send \/ SendUncertain
  \/ ClearDelivery \/ Record \/ StartLoop

Faults == ClaimFails \/ DeliveryFails \/ FinishFails

Next ==
  \/ WorkerStep \/ Faults \/ Crash
  \/ \E e \in Events : Insert(e) \/ ComesDue(e) \/ Expires(e)

Spec == Init /\ [][Next]_vars

\* The worker never blocks and time passes.  A conversation is not busy at every
\* evaluation, and no decision is always overtaken: turns end, and so does the
\* minute only for a slow model.
FairSpec ==
  /\ Spec
  /\ WF_vars(WorkerStep)
  /\ SF_vars(Skip \/ FailEvaluation \/ FailInspection \/ Notify)
  /\ SF_vars(pc = "deciding" /\ Current)
  /\ SF_vars(pc = "rechecking" /\ Current)
  /\ \A e \in Events : WF_vars(ComesDue(e)) /\ WF_vars(Expires(e))

-------------------------------------------------------------------------------
(* Properties *)

Pcs == {"recovering", "idle", "choosing", "claiming", "claimed", "deciding", "starting",
        "rechecking", "sending", "clearing", "recording", "marking", "finishing"}

TypeOK ==
  /\ status \in [Events -> {"absent", "new", "processing", "processed", "failed"}]
  /\ delivering \in [Events -> BOOLEAN]
  /\ window \in [Events -> {"unset", "open", "expired"}]
  /\ due \in [Events -> BOOLEAN]
  /\ told \in [Events -> Nat]
  /\ pc \in Pcs /\ telegram \in BOOLEAN
  /\ listed \subseteq Events /\ batch \subseteq Events /\ left \subseteq batch
  /\ outcome \in [Events -> Outcomes]
  /\ faults \in 0..MaxFaults /\ crashes \in 0..MaxCrashes

Abandoned(e) == status[e] = "processing" /\ e \notin batch /\ pc # "recovering"

\* An event that is marked as processing is in the worker's hands, through every
\* evaluation, delivery, deferral and restart; only a failing statement loses one,
\* and only until the next start.
ClaimedIsInHand == faults = 0 => \A e \in Events : ~Abandoned(e)

\* "Once delivery starts, an ambiguous failure must be reviewed instead of
\* potentially sending the same alert twice" (event_retries.rs): whatever fails,
\* and however the groups change between attempts, an event is sent at most once,
\* and one that has been settled is not taken up again.
Promise == INSTANCE EventPromise WITH
  phase <- [e \in Events |-> CASE status[e] = "absent" -> "absent"
                               [] status[e] \in {"new", "processing"} -> "waiting"
                               [] OTHER -> "settled"]
ImplementsPromise == Promise!Spec

\* Every event is dealt with in the end: told, skipped, or given up with an error
\* after its 24 hours, unless a failing statement left it in processing.
EventSettles ==
  \A e \in Events : status[e] = "new" ~> status[e] \in {"processed", "failed"} \/ Abandoned(e)
===============================================================================
