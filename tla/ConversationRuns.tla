--------------------------- MODULE ConversationRuns ---------------------------
(***************************************************************************)
(* Conversation ownership: crates/jossie-server/src/conversation_runs.rs,  *)
(* with the cancellation registry of state.rs and the claim and release    *)
(* wrappers of the agent loop.                                             *)
(*                                                                         *)
(* Three kinds of worker share a conversation.  A foreground worker runs a *)
(* user's turn: it may wait for background work to stop.  A continuation   *)
(* resumes durable work, an evaluator judges an integration event: both    *)
(* are background, never wait, and stop when their lease is cancelled.     *)
(* Every step between two awaits of the code is one action here.           *)
(***************************************************************************)

CONSTANTS
  Conversations,
  Foreground,      \* run_agent_loop*, streaming turns, secretary drafting
  Continuations,   \* dispatch_work_continuations
  Evaluators,      \* generate_event_message
  ConvOf,          \* ConvOf[w]: the conversation worker w asks for
  NoWorker,        \* no token in a map entry
  Detached         \* the token of a lease that is gone

Background == Continuations \union Evaluators
Workers == Foreground \union Background
Runners == Foreground \union Continuations   \* the workers that run the agent loop

ASSUME WorkersAssumption ==
  /\ Foreground \intersect Background = {}
  /\ Continuations \intersect Evaluators = {}
  /\ NoWorker \notin Workers
  /\ Detached \notin Workers
  /\ NoWorker # Detached

ASSUME ConvOfAssumption == ConvOf \in [Workers -> Conversations]

VARIABLES
  active,     \* conversations with an entry in Owners.active
  token,      \* token[c]: the worker whose token the entry holds (Some), or NoWorker (None)
  waiting,    \* Owners.waiting
  notified,   \* waiters whose enabled `notified` future has been completed
  flag,       \* AppState.cancelled_conversations
  registry,   \* AppState.run_cancellations: whose token the map holds for c
  cancelled,  \* workers whose current cancellation token is cancelled
  watch,      \* the token a runner's pending select! listens to
  canceller,  \* progress of request_cancel in each conversation
  pc

ownerVars == <<active, token, waiting, notified>>
cancelVars == <<flag, registry, cancelled, canceller>>
vars == <<active, token, waiting, notified, flag, registry, cancelled, watch, canceller, pc>>

WaiterPcs == {"enable", "check", "sleep", "acquired"}
LoopPcs == {"running", "calling"}
HoldingPcs == {"acquired", "claimed", "flagCleared", "cleared", "running", "calling",
               "stopping", "releasing", "evaluating", "delivering", "dropping", "unreachable"}
Pcs == {"idle"} \union WaiterPcs \union HoldingPcs

Holds(w) == pc[w] \in HoldingPcs
Waits(f) == pc[f] \in WaiterPcs
Goto(w, from, to) == pc[w] = from /\ pc' = [pc EXCEPT ![w] = to]

\* notify_waiters completes the futures that are enabled, and only those.
NotifyWaiters == notified' = notified \union {f \in Foreground : pc[f] \in {"check", "sleep"}}

\* The entry is removed whoever put it there.  A token left in the registry no
\* longer belongs to a lease.
DropLease(w) ==
  LET c == ConvOf[w] IN
  /\ active' = active \ {c}
  /\ token' = [token EXCEPT ![c] = NoWorker]
  /\ registry' = [registry EXCEPT ![c] = IF @ = w THEN Detached ELSE @]
  /\ watch' = [watch EXCEPT ![w] = NoWorker]

Init ==
  /\ active = {}
  /\ token = [c \in Conversations |-> NoWorker]
  /\ waiting = {}
  /\ notified = {}
  /\ flag = {}
  /\ registry = [c \in Conversations |-> NoWorker]
  /\ cancelled = {}
  /\ watch = [w \in Workers |-> NoWorker]
  /\ canceller = [c \in Conversations |-> "idle"]
  /\ pc = [w \in Workers |-> "idle"]

-------------------------------------------------------------------------------
(* Claims *)

\* Mutant of ClaimBackground: waiters do not keep background work out.
ClaimBackgroundPastWaiter(b) ==
  LET c == ConvOf[b] IN
  /\ c \notin active
  /\ Goto(b, "idle", IF b \in Evaluators THEN "evaluating" ELSE "claimed")
  /\ active' = active \union {c}
  /\ token' = [token EXCEPT ![c] = b]
  /\ cancelled' = cancelled \ {b}
  /\ UNCHANGED <<waiting, notified, flag, registry, watch, canceller>>

\* claim_background: refused (no step) when the conversation has an owner or a
\* waiter; otherwise the entry carries the fresh token of the new lease.
ClaimBackground(b) ==
  LET c == ConvOf[b] IN
  /\ c \notin active \union waiting
  /\ Goto(b, "idle", IF b \in Evaluators THEN "evaluating" ELSE "claimed")
  /\ active' = active \union {c}
  /\ token' = [token EXCEPT ![c] = b]
  /\ cancelled' = cancelled \ {b}
  /\ UNCHANGED <<waiting, notified, flag, registry, watch, canceller>>

\* claim_foreground, first critical section: refused (no step) when another
\* turn waits or runs; otherwise background work is told to stop.
StartWaiting(f) ==
  LET c == ConvOf[f] IN
  /\ c \notin waiting
  /\ c \in active => token[c] # NoWorker
  /\ Goto(f, "idle", "enable")
  /\ waiting' = waiting \union {c}
  /\ cancelled' = IF c \in active THEN cancelled \union {token[c]} ELSE cancelled
  /\ UNCHANGED <<active, token, notified, flag, registry, watch, canceller>>

\* notified().enable(): from here on a notification is not missed.
EnableNotified(f) ==
  /\ Goto(f, "enable", "check")
  /\ notified' = notified \ {f}
  /\ UNCHANGED <<active, token, waiting, watch>>
  /\ UNCHANGED cancelVars

\* Mutant of TryAcquire: the entry of background work is taken over at once,
\* before its lease is dropped.
TryTakeOver(f) ==
  LET c == ConvOf[f] IN
  /\ \/ /\ c \notin active \/ token[c] # NoWorker
        /\ Goto(f, "check", "acquired")
        /\ active' = active \union {c}
        /\ token' = [token EXCEPT ![c] = NoWorker]
     \/ /\ c \in active /\ token[c] = NoWorker
        /\ Goto(f, "check", "sleep")
        /\ UNCHANGED <<active, token>>
  /\ UNCHANGED <<waiting, notified, watch>>
  /\ UNCHANGED cancelVars

\* The loop's critical section: take the entry when it is free, or wait.
TryAcquire(f) ==
  LET c == ConvOf[f] IN
  /\ \/ /\ c \notin active
        /\ Goto(f, "check", "acquired")
        /\ active' = active \union {c}
        /\ token' = [token EXCEPT ![c] = NoWorker]
     \/ /\ c \in active
        /\ Goto(f, "check", "sleep")
        /\ UNCHANGED <<active, token>>
  /\ UNCHANGED <<waiting, notified, watch>>
  /\ UNCHANGED cancelVars

WakeUp(f) ==
  /\ f \in notified
  /\ Goto(f, "sleep", "enable")
  /\ UNCHANGED <<watch>>
  /\ UNCHANGED ownerVars
  /\ UNCHANGED cancelVars

\* ForegroundWaiter::drop when claim_foreground returns its lease.
DropWaiter(f) ==
  /\ Goto(f, "acquired", "claimed")
  /\ waiting' = waiting \ {ConvOf[f]}
  /\ NotifyWaiters
  /\ UNCHANGED <<active, token, watch>>
  /\ UNCHANGED cancelVars

\* The future of a waiting claim is dropped: ForegroundWaiter::drop alone.
AbandonWaiting(f) ==
  /\ pc[f] \in {"enable", "check", "sleep"}
  /\ pc' = [pc EXCEPT ![f] = "idle"]
  /\ waiting' = waiting \ {ConvOf[f]}
  /\ notified' = (notified \union {g \in Foreground : pc[g] \in {"check", "sleep"}}) \ {f}
  /\ UNCHANGED <<active, token, watch>>
  /\ UNCHANGED cancelVars

-------------------------------------------------------------------------------
(* A run: claim_conversation and dispatch_work_continuations after the lease *)
(* is granted, the agent loop, release_conversation                          *)

\* clear_cancel takes one lock after the other.
ClearFlag(w) ==
  /\ \/ Goto(w, "claimed", "flagCleared")
     \/ Goto(w, "stopping", "releasing")
  /\ flag' = flag \ {ConvOf[w]}
  /\ UNCHANGED <<registry, cancelled, watch, canceller>>
  /\ UNCHANGED ownerVars

ClearRegistry(w) ==
  /\ \/ Goto(w, "flagCleared", "cleared")
     \/ Goto(w, "releasing", "dropping")
  /\ registry' = [registry EXCEPT ![ConvOf[w]] = NoWorker]
  /\ UNCHANGED <<flag, cancelled, watch, canceller>>
  /\ UNCHANGED ownerVars

\* Mutant of BeginRun: a continuation does not publish the token of its lease.
BeginRunUnpublished(w) ==
  /\ Goto(w, "cleared", "running")
  /\ registry' = IF w \in Foreground THEN [registry EXCEPT ![ConvOf[w]] = w] ELSE registry
  /\ cancelled' = IF w \in Foreground THEN cancelled \ {w} ELSE cancelled
  /\ UNCHANGED <<flag, watch, canceller>>
  /\ UNCHANGED ownerVars

\* A turn registers a new token, a continuation the token of its lease.
BeginRun(w) ==
  /\ Goto(w, "cleared", "running")
  /\ registry' = [registry EXCEPT ![ConvOf[w]] = w]
  /\ cancelled' = IF w \in Foreground THEN cancelled \ {w} ELSE cancelled
  /\ UNCHANGED <<flag, watch, canceller>>
  /\ UNCHANGED ownerVars

\* What ensure_run_not_cancelled reads.
CancelVisible(w) ==
  LET c == ConvOf[w] IN c \in flag \/ registry[c] \in cancelled

\* The top of an iteration, then the token the select! of the call listens to.
StartCall(w) ==
  /\ ~CancelVisible(w)
  /\ Goto(w, "running", "calling")
  /\ watch' = [watch EXCEPT ![w] = registry[ConvOf[w]]]
  /\ UNCHANGED ownerVars
  /\ UNCHANGED cancelVars

FinishCall(w) ==
  /\ Goto(w, "calling", "running")
  /\ watch' = [watch EXCEPT ![w] = NoWorker]
  /\ UNCHANGED ownerVars
  /\ UNCHANGED cancelVars

\* The select! fires on the watched token; the code then asserts with
\* unreachable!() that the cancellation is visible.
CallCancelled(w) ==
  /\ watch[w] \in cancelled
  /\ Goto(w, "calling", IF CancelVisible(w) THEN "stopping" ELSE "unreachable")
  /\ watch' = [watch EXCEPT ![w] = NoWorker]
  /\ UNCHANGED ownerVars
  /\ UNCHANGED cancelVars

ObserveCancel(w) ==
  /\ CancelVisible(w)
  /\ Goto(w, "running", "stopping")
  /\ UNCHANGED watch
  /\ UNCHANGED ownerVars
  /\ UNCHANGED cancelVars

FinishRun(w) ==
  /\ Goto(w, "running", "stopping")
  /\ UNCHANGED watch
  /\ UNCHANGED ownerVars
  /\ UNCHANGED cancelVars

\* ConversationLease::drop at the end of release_conversation, or of an evaluation.
Release(w) ==
  /\ Goto(w, "dropping", "idle")
  /\ DropLease(w)
  /\ NotifyWaiters
  /\ UNCHANGED <<waiting, flag, cancelled, canceller>>

\* The lease goes out of scope without release_conversation: a `?` between
\* the claim and the release, or the future of a turn dropped by its caller.
AbandonLease(w) ==
  /\ pc[w] \in {"claimed", "flagCleared", "cleared", "running", "calling", "stopping"}
  /\ pc' = [pc EXCEPT ![w] = "idle"]
  /\ DropLease(w)
  /\ NotifyWaiters
  /\ UNCHANGED <<waiting, flag, cancelled, canceller>>

-------------------------------------------------------------------------------
(* Event evaluation: no registry entry, only the token of the lease *)

EvaluationInterrupted(e) ==
  /\ e \in cancelled
  /\ Goto(e, "evaluating", "dropping")
  /\ UNCHANGED watch
  /\ UNCHANGED ownerVars
  /\ UNCHANGED cancelVars

\* A notification keeps the lease until its delivery is over.
EvaluationDone(e) ==
  /\ \/ Goto(e, "evaluating", "delivering")
     \/ Goto(e, "evaluating", "dropping")
  /\ e \notin cancelled
  /\ UNCHANGED watch
  /\ UNCHANGED ownerVars
  /\ UNCHANGED cancelVars

DeliveryDone(e) ==
  /\ Goto(e, "delivering", "dropping")
  /\ UNCHANGED watch
  /\ UNCHANGED ownerVars
  /\ UNCHANGED cancelVars

-------------------------------------------------------------------------------
(* AppState::request_cancel: the flag first, the registered token afterwards *)

RequestCancelFlag(c) ==
  /\ canceller[c] = "idle"
  /\ canceller' = [canceller EXCEPT ![c] = "flagged"]
  /\ flag' = flag \union {c}
  /\ UNCHANGED <<registry, cancelled, watch, pc>>
  /\ UNCHANGED ownerVars

\* Mutant of RequestCancelToken: the map is not asked whether it has a token.
RequestCancelTokenUnchecked(c) ==
  /\ canceller[c] = "flagged"
  /\ canceller' = [canceller EXCEPT ![c] = "idle"]
  /\ cancelled' = cancelled \union {registry[c]}
  /\ UNCHANGED <<flag, registry, watch, pc>>
  /\ UNCHANGED ownerVars

RequestCancelToken(c) ==
  /\ canceller[c] = "flagged"
  /\ canceller' = [canceller EXCEPT ![c] = "idle"]
  /\ cancelled' = cancelled \union ({registry[c]} \intersect Workers)
  /\ UNCHANGED <<flag, registry, watch, pc>>
  /\ UNCHANGED ownerVars

-------------------------------------------------------------------------------

ForegroundStep(f) ==
  \/ StartWaiting(f) \/ EnableNotified(f) \/ TryAcquire(f)
  \/ WakeUp(f) \/ DropWaiter(f) \/ AbandonWaiting(f)

RunStep(w) ==
  \/ ClearFlag(w) \/ ClearRegistry(w) \/ BeginRun(w)
  \/ StartCall(w) \/ FinishCall(w) \/ CallCancelled(w)
  \/ ObserveCancel(w) \/ FinishRun(w) \/ AbandonLease(w)

EvaluationStep(e) ==
  EvaluationInterrupted(e) \/ EvaluationDone(e) \/ DeliveryDone(e)

Next ==
  \/ \E b \in Background : ClaimBackground(b)
  \/ \E f \in Foreground : ForegroundStep(f)
  \/ \E w \in Runners : RunStep(w)
  \/ \E e \in Evaluators : EvaluationStep(e)
  \/ \E w \in Workers : Release(w)
  \/ \E c \in Conversations : RequestCancelFlag(c) \/ RequestCancelToken(c)

Spec == Init /\ [][Next]_vars

\* The steps the runtime takes on its own once they are possible.  Claims,
\* abandoned futures, the user's cancellations and the length of a call or an
\* iteration are left to the environment; a call ends (request and tool timeouts).
Fairness ==
  /\ \A f \in Foreground :
       WF_vars(EnableNotified(f)) /\ WF_vars(TryAcquire(f)) /\ WF_vars(WakeUp(f)) /\ WF_vars(DropWaiter(f))
  /\ \A w \in Runners :
       /\ WF_vars(ClearFlag(w)) /\ WF_vars(ClearRegistry(w)) /\ WF_vars(BeginRun(w))
       /\ WF_vars(FinishCall(w)) /\ WF_vars(CallCancelled(w)) /\ WF_vars(ObserveCancel(w))
  /\ \A e \in Evaluators :
       WF_vars(EvaluationInterrupted(e)) /\ WF_vars(EvaluationDone(e)) /\ WF_vars(DeliveryDone(e))
  /\ \A w \in Workers : WF_vars(Release(w))
  /\ \A c \in Conversations : WF_vars(RequestCancelToken(c))

FairSpec == Spec /\ Fairness

-------------------------------------------------------------------------------
(* Properties *)

TypeOK ==
  /\ active \subseteq Conversations
  /\ token \in [Conversations -> Background \union {NoWorker}]
  /\ waiting \subseteq Conversations
  /\ notified \subseteq Foreground
  /\ flag \subseteq Conversations
  /\ registry \in [Conversations -> Workers \union {NoWorker, Detached}]
  /\ cancelled \subseteq Workers
  /\ watch \in [Workers -> Workers \union {NoWorker, Detached}]
  /\ canceller \in [Conversations -> {"idle", "flagged"}]
  /\ pc \in [Workers -> Pcs]

\* Two workers never hold leases on the same conversation, although the drop of
\* a lease removes the entry of the conversation whoever made it
\* (conversation_runs.rs 26-30): two turns never interleave in one transcript.
MutualExclusion ==
  \A v, w \in Workers :
    v # w /\ ConvOf[v] = ConvOf[w] => ~(Holds(v) /\ Holds(w))

\* While a turn waits, the background worker it waits for has been told to stop:
\* no order of claims lets background work in, unaware, after the one
\* cancellation that claim_foreground sends before it waits.
PreemptionDelivered ==
  \A f \in Foreground, b \in Background :
    Waits(f) /\ Holds(b) /\ ConvOf[f] = ConvOf[b] => b \in cancelled

\* While a run is in the agent loop the registry maps its conversation to its
\* own token, so every stop and every preemption reaches this run: no other
\* worker's clear_cancel or registration comes in between.
OwnTokenRegistered ==
  \A w \in Runners :
    /\ pc[w] \in LoopPcs => registry[ConvOf[w]] = w
    /\ pc[w] = "calling" => watch[w] = w

\* The code's own assertion, run.rs 738: "a cancelled token must set the run
\* cancellation flag".
CancellationAssertion == \A w \in Workers : pc[w] # "unreachable"

\* A turn that starts to wait gets the conversation, or its caller drops it:
\* the notification of the lease's drop is not lost between the check of the
\* entry and the await, and no other worker is admitted first.
ForegroundAdmitted ==
  \A f \in Foreground : pc[f] = "enable" ~> pc[f] \in {"claimed", "idle"}

Holders == [c \in Conversations |-> {w \in Workers : ConvOf[w] = c /\ Holds(w)}]
Reservers == [c \in Conversations |-> {f \in Foreground : ConvOf[f] = c /\ Waits(f)}]

Lock == INSTANCE ConversationLock WITH holders <- Holders, reservers <- Reservers

\* The ownership protocol implements the abstract lock: whatever the order of
\* claims, drops, wake-ups and abandoned futures, a conversation has one holder
\* and a waiting turn is the next one (conversation_runs.rs 26-91).
ImplementsLock == Lock!Spec
===============================================================================
