-------------------------------- MODULE Outbox --------------------------------
(***************************************************************************)
(* The background loop with its outbox and its heartbeat                   *)
(* (src/event_loop/worker.rs, scheduler.rs from process_oob_messages on,   *)
(* heartbeat.rs, the outbox of repositories/scheduler.rs).                 *)
(*                                                                         *)
(* The loop does its parts one after the other.  The outbox tells each     *)
(* pending note to Telegram, writes it to the conversation, marks it as    *)
(* sent and completes its delivery run, each with a statement of its own;  *)
(* the heartbeat takes the slot of its interval before it evaluates.       *)
(* A statement may fail and the server may stop between any two.           *)
(***************************************************************************)
EXTENDS Naturals, FiniteSets, Functions

CONSTANTS
  Notes,      \* out-of-band messages
  Linked,     \* those whose conversation has a Telegram chat
  Recorded,   \* results of continuations: the transcript has them already
  MaxFaults,  \* bound on failing statements
  MaxCrashes, \* bound on server crashes
  MaxBeats    \* bound on the intervals of the heartbeat that pass

OutboxAssumption ==
  /\ Linked \subseteq Notes /\ Recorded \subseteq Notes /\ "none" \notin Notes
  /\ IsFiniteSet(Notes)
  /\ MaxFaults \in Nat /\ MaxCrashes \in Nat /\ MaxBeats \in Nat

VARIABLES
  stage,       \* the part of the tick the loop is at, or "down"
  batch,       \* the rest of the outbox's list
  inHand, step,  \* the note at work and the statement that comes next
  note,        \* status in out_of_band_messages
  told, shown, \* how often each was sent to Telegram, stored in the conversation
  deliveryRun, \* status of the work run of each delivery
  taken,       \* the heartbeat's slot of this interval is taken
  beat,        \* where the heartbeat stands
  beatRun,     \* status of its last work run
  evaluated,   \* evaluations begun
  beats, faults, crashes

outboxVars == <<batch, inHand, step, note, told, shown, deliveryRun>>
beatVars == <<taken, beat, beatRun, evaluated, beats>>
vars == <<stage, outboxVars, beatVars, faults, crashes>>

Init ==
  /\ stage = "poll"
  /\ batch = {} /\ inHand = "none" /\ step = "none"
  /\ note = [n \in Notes |-> "absent"]
  /\ told = [n \in Notes |-> 0] /\ shown = [n \in Notes |-> 0]
  /\ deliveryRun = [n \in Notes |-> "none"]
  /\ taken = FALSE /\ beat = "none" /\ beatRun = "none" /\ evaluated = 0
  /\ beats = 0 /\ faults = 0 /\ crashes = 0

NoFault == UNCHANGED <<faults, crashes>>
Step(from, to) == step = from /\ step' = to
Beat(from, to) == stage = "heartbeat" /\ beat = from /\ beat' = to

-------------------------------------------------------------------------------
(* The loop *)

\* Polling, events and scheduled tasks: whether one fails or not, the next one follows.
OtherPart ==
  /\ \/ stage = "poll" /\ stage' = "events"
     \/ stage = "events" /\ stage' = "tasks"
     \/ stage = "tasks" /\ stage' = "outbox"
  /\ UNCHANGED <<outboxVars, beatVars>> /\ NoFault

-------------------------------------------------------------------------------
(* The outbox *)

\* queue_oob_message and queue_continuation_result_delivery
Queue(n) ==
  /\ stage # "down"
  /\ note[n] = "absent"
  /\ note' = [note EXCEPT ![n] = "pending"]
  /\ UNCHANGED <<stage, batch, inHand, step, told, shown, deliveryRun, beatVars>> /\ NoFault

\* list_pending_oob_messages
ListNotes ==
  /\ stage = "outbox" /\ Step("none", "next")
  /\ batch' = {n \in Notes : note[n] = "pending"}
  /\ UNCHANGED <<stage, inHand, note, told, shown, deliveryRun, beatVars>> /\ NoFault

EndOfList ==
  /\ batch = {} /\ Step("next", "none")
  /\ stage' = "heartbeat"
  /\ UNCHANGED <<batch, inHand, note, told, shown, deliveryRun, beatVars>> /\ NoFault

\* create_work_run keeps the run of an earlier attempt.
OpenRun(n) ==
  /\ n \in batch /\ Step("next", "starting")
  /\ batch' = batch \ {n} /\ inHand' = n
  /\ deliveryRun' = [deliveryRun EXCEPT ![n] = IF @ = "none" THEN "queued" ELSE @]
  /\ UNCHANGED <<stage, note, told, shown, beatVars>> /\ NoFault

StartRun ==
  /\ Step("starting", "telling")
  /\ deliveryRun' = [deliveryRun EXCEPT ![inHand] = "running"]
  /\ UNCHANGED <<stage, batch, inHand, note, told, shown, beatVars>> /\ NoFault

\* The message to Telegram, if there is a chat.
Tell ==
  /\ Step("telling", "posting")
  /\ told' = [told EXCEPT ![inHand] = IF inHand \in Linked THEN @ + 1 ELSE @]
  /\ UNCHANGED <<stage, batch, inHand, note, shown, deliveryRun, beatVars>> /\ NoFault

TellFails ==
  /\ inHand \in Linked /\ Step("telling", "failing")
  /\ UNCHANGED <<stage, batch, inHand, note, told, shown, deliveryRun, beatVars>> /\ NoFault

\* persist_message, except for what the transcript has already
Post ==
  /\ Step("posting", "marking")
  /\ shown' = [shown EXCEPT ![inHand] = IF inHand \in Recorded THEN @ ELSE @ + 1]
  /\ UNCHANGED <<stage, batch, inHand, note, told, deliveryRun, beatVars>> /\ NoFault

\* Mutant of Mark: the note is marked before it is stored.
MarkFirst ==
  /\ \/ Step("posting", "closing") /\ note' = [note EXCEPT ![inHand] = "sent"]
     \/ Step("failing", "closing") /\ note' = [note EXCEPT ![inHand] = "failed"]
  /\ UNCHANGED <<stage, batch, inHand, told, shown, deliveryRun, beatVars>> /\ NoFault

\* mark_oob_message_sent or mark_oob_message_failed
Mark ==
  /\ \/ Step("marking", "closing") /\ note' = [note EXCEPT ![inHand] = "sent"]
     \/ Step("failing", "closing") /\ note' = [note EXCEPT ![inHand] = "failed"]
  /\ UNCHANGED <<stage, batch, inHand, told, shown, deliveryRun, beatVars>> /\ NoFault

\* update_work_run
CloseRun ==
  /\ Step("closing", "next")
  /\ deliveryRun' = [deliveryRun EXCEPT ![inHand] =
                       IF note[inHand] = "sent" THEN "completed" ELSE "failed"]
  /\ inHand' = "none"
  /\ UNCHANGED <<stage, batch, note, told, shown, beatVars>> /\ NoFault

\* Mutant of OutboxFails: the rest of the batch is forgotten as if it had been sent.
OutboxDropped ==
  /\ step # "none" /\ faults < MaxFaults
  /\ faults' = faults + 1
  /\ note' = [n \in Notes |-> IF n \in batch THEN "dropped" ELSE note[n]]
  /\ stage' = "heartbeat" /\ batch' = {} /\ inHand' = "none" /\ step' = "none"
  /\ UNCHANGED <<told, shown, deliveryRun, beatVars, crashes>>

\* A failing statement ends the part for this tick; the rest waits for the next one.
OutboxFails ==
  /\ step # "none" /\ faults < MaxFaults
  /\ faults' = faults + 1
  /\ stage' = "heartbeat" /\ batch' = {} /\ inHand' = "none" /\ step' = "none"
  /\ UNCHANGED <<note, told, shown, deliveryRun, beatVars, crashes>>

-------------------------------------------------------------------------------
(* The heartbeat *)

\* The interval has passed since the slot was taken.
IntervalPasses ==
  /\ taken /\ beats < MaxBeats
  /\ taken' = FALSE /\ beats' = beats + 1
  /\ UNCHANGED <<stage, outboxVars, beat, beatRun, evaluated>> /\ NoFault

\* heartbeat_is_due says no: the tick ends.
NotDue ==
  /\ taken /\ Beat("none", "none")
  /\ stage' = "poll"
  /\ UNCHANGED <<outboxVars, taken, beatRun, evaluated, beats>> /\ NoFault

\* Mutant of TakeSlot: the slot is taken when the evaluation is over.
TakeSlotLater ==
  /\ ~taken /\ Beat("none", "taken")
  /\ UNCHANGED <<stage, outboxVars, taken, beatRun, evaluated, beats>> /\ NoFault

\* The slot is taken before anything else.
TakeSlot ==
  /\ ~taken /\ Beat("none", "taken")
  /\ taken' = TRUE
  /\ UNCHANGED <<stage, outboxVars, beatRun, evaluated, beats>> /\ NoFault

\* There is no conversation, or a turn is active in it: the interval goes by unused.
SkipBeat ==
  /\ Beat("taken", "none")
  /\ stage' = "poll"
  /\ UNCHANGED <<outboxVars, taken, beatRun, evaluated, beats>> /\ NoFault

\* A run is created, set to running, and the model is asked.
Evaluate ==
  /\ Beat("taken", "evaluating")
  /\ beatRun' = "running" /\ evaluated' = evaluated + 1
  /\ UNCHANGED <<stage, outboxVars, taken, beats>> /\ NoFault

\* Nothing to say, deferred to a turn, or an error.
EndEvaluation ==
  /\ Beat("evaluating", "none")
  /\ beatRun' \in {"completed", "cancelled", "failed"}
  /\ stage' = "poll"
  /\ UNCHANGED <<outboxVars, taken, evaluated, beats>> /\ NoFault

Speak ==
  /\ Beat("evaluating", "delivering")
  /\ UNCHANGED <<stage, outboxVars, taken, beatRun, evaluated, beats>> /\ NoFault

\* Delivered, deferred by a turn that has begun, or failed.
EndDelivery ==
  /\ Beat("delivering", "none")
  /\ beatRun' \in {"completed", "cancelled", "failed"}
  /\ stage' = "poll"
  /\ UNCHANGED <<outboxVars, taken, evaluated, beats>> /\ NoFault

\* A failing statement ends the tick.
BeatFails ==
  /\ stage = "heartbeat" /\ faults < MaxFaults
  /\ faults' = faults + 1
  /\ stage' = "poll" /\ beat' = "none"
  /\ UNCHANGED <<outboxVars, taken, beatRun, evaluated, beats, crashes>>

-------------------------------------------------------------------------------
Crash ==
  /\ stage # "down" /\ crashes < MaxCrashes
  /\ crashes' = crashes + 1
  /\ stage' = "down" /\ batch' = {} /\ inHand' = "none" /\ step' = "none" /\ beat' = "none"
  /\ UNCHANGED <<note, told, shown, deliveryRun, taken, beatRun, evaluated, beats, faults>>

\* mark_running_work_interrupted at startup
Interrupted(run) == IF run = "running" THEN "interrupted" ELSE run
Restart ==
  /\ stage = "down"
  /\ stage' = "poll"
  /\ deliveryRun' = [n \in Notes |-> Interrupted(deliveryRun[n])]
  /\ beatRun' = Interrupted(beatRun)
  /\ UNCHANGED <<batch, inHand, step, note, told, shown, taken, beat, evaluated, beats>> /\ NoFault

Loop ==
  \/ OtherPart
  \/ ListNotes \/ EndOfList \/ (\E n \in Notes : OpenRun(n)) \/ StartRun \/ Tell \/ TellFails \/ Post \/ Mark
  \/ CloseRun \/ OutboxFails
  \/ NotDue \/ TakeSlot \/ SkipBeat \/ Evaluate \/ EndEvaluation \/ Speak \/ EndDelivery \/ BeatFails

Next ==
  \/ Loop
  \/ \E n \in Notes : Queue(n)
  \/ IntervalPasses
  \/ Crash \/ Restart

Spec == Init /\ [][Next]_vars

\* The loop goes on and a server that stopped is started again.
Fairness == WF_vars(Loop) /\ WF_vars(Restart)
FairSpec == Spec /\ Fairness

-------------------------------------------------------------------------------
(* Properties *)

TypeOK ==
  /\ stage \in {"down", "poll", "events", "tasks", "outbox", "heartbeat"}
  /\ batch \subseteq Notes /\ inHand \in Notes \union {"none"}
  /\ step \in {"none", "next", "starting", "telling", "posting", "marking", "failing", "closing"}
  /\ note \in [Notes -> {"absent", "pending", "sent", "failed"}]
  /\ told \in [Notes -> Nat] /\ shown \in [Notes -> Nat]
  /\ deliveryRun \in [Notes -> {"none", "queued", "running", "completed", "failed", "interrupted"}]
  /\ taken \in BOOLEAN /\ beat \in {"none", "taken", "evaluating", "delivering"}
  /\ beatRun \in {"none", "running", "completed", "cancelled", "failed", "interrupted"}
  /\ evaluated \in Nat

Again(times) == [n \in Notes |-> IF times[n] > 0 THEN times[n] - 1 ELSE 0]

\* A note that counts as sent was told and is in the conversation, and its
\* run says the same.  Every time a note is told or stored again was paid for by a statement that
\* failed, or a crash, between the delivery and its mark.
NotesToldOnce ==
  /\ \A n \in Notes :
       /\ note[n] = "sent" => /\ n \in Linked => told[n] > 0
                              /\ n \notin Recorded => shown[n] > 0
       /\ note[n] = "absent" => told[n] = 0 /\ shown[n] = 0
       /\ deliveryRun[n] = "completed" => note[n] = "sent"
       /\ deliveryRun[n] = "failed" => note[n] = "failed"
  /\ SumFunctionOnSet(Again(told), Notes) <= faults + crashes
  /\ SumFunctionOnSet(Again(shown), Notes) <= faults + crashes

\* The model is asked at most once per interval, also when the server is restarted again
\* and again ("Claim this slot immediately ... so a heartbeat run that takes a while
\* doesn't get re-triggered by the next tick"): as often as slots were taken.
HeartbeatPaced == evaluated <= beats + (IF taken THEN 1 ELSE 0)

\* Every note is sent or has failed in the end: a failure of another one, of another part
\* of the tick or a restart does not keep it in the queue.
Waiting(n) == note[n] = "pending"
NotesSettle == \A n \in Notes : Waiting(n) ~> ~Waiting(n)
===============================================================================
