------------------------------ MODULE ChatMessages ------------------------------
(***************************************************************************)
(* A message of the user on its way into a conversation (handlers/chat.rs, *)
(* work.rs).  Clients send it over the WebSocket or by POST and send it    *)
(* again, with the same client_message_id, when they do not know what      *)
(* became of it.  The message is stored, over the socket it gets a durable *)
(* run, and whoever claims the queued run starts the turn.                 *)
(*                                                                         *)
(* There is one client_message_id; the contents that come with it may      *)
(* differ.  A turn that runs out of its budget leaves a checkpoint and its *)
(* run queued for the dispatcher of continuations.                         *)
(***************************************************************************)
EXTENDS Integers, FiniteSets

CONSTANTS
  Clients,     \* requests that may be under way at once
  Sockets,     \* those that come over the WebSocket; the others are POSTs
  Content,     \* what each says: "yes" answers a pending action
  MaxSends,    \* bound: how often a client sends
  MaxTrouble   \* bounds: of faults, crashes and deferrals

ChatAssumption ==
  /\ Sockets \subseteq Clients /\ Clients \intersect {"none", "turn", "ending", "other", "continuation"} = {}
  /\ \A c \in Clients : Content[c] # "none"

VARIABLES
  at,       \* what the handler of each client does next
  reply,    \* what it answered last
  sends,    \* how often each client has sent
  stored,   \* content of the message with this id, "none" before it is stored
  runRow,   \* status of the run of the message, "none" before it is created
  waiting,  \* turns of it that are spawned and have not claimed the conversation
  holder,   \* who has the conversation
  action,   \* status of the action another run asked approval for
  kept,     \* status of the checkpoint of the run
  history,  \* turns begun for the message, by POST, deferrals
  trouble   \* faults, crashes so far

chatVars == <<at, reply, sends, stored, runRow, waiting, holder, action, kept, history, trouble>>

Init ==
  /\ at = [c \in Clients |-> "idle"] /\ reply = [c \in Clients |-> "none"] /\ sends = [c \in Clients |-> 0]
  /\ stored = "none" /\ runRow = "none" /\ waiting = 0 /\ holder = "none"
  /\ action \in {"none", "pending"} /\ kept = "none"
  /\ history = [turns |-> 0, posts |-> 0, deferrals |-> 0]
  /\ trouble = [faults |-> 0, crashes |-> 0]

Suffers(what) == trouble[what] < MaxTrouble[what] /\ trouble' = [trouble EXCEPT ![what] = @ + 1]
Counts(what) == history' = [history EXCEPT ![what] = @ + 1]
Goes(c, next) == at' = [at EXCEPT ![c] = next] /\ UNCHANGED <<reply, sends>>
Respond(c, answer) == at' = [at EXCEPT ![c] = "idle"] /\ reply' = [reply EXCEPT ![c] = answer] /\ UNCHANGED sends
NoTurn == UNCHANGED <<runRow, waiting, holder, kept, history>>

-------------------------------------------------------------------------------
(* A request *)

Send(c) ==
  /\ at[c] = "idle" /\ sends[c] < MaxSends
  /\ at' = [at EXCEPT ![c] = "look"] /\ sends' = [sends EXCEPT ![c] = @ + 1]
  /\ reply' = [reply EXCEPT ![c] = "none"]
  /\ NoTurn /\ UNCHANGED <<stored, action, trouble>>

\* Is there a message with this id?  It must say the same; a POST leaves it at that.
Look(c) ==
  /\ at[c] = "look"
  /\ IF stored = "none" THEN Goes(c, "list")
     ELSE IF stored # Content[c] THEN Respond(c, "error")
     ELSE IF c \in Sockets THEN Goes(c, "find")
     ELSE Respond(c, "already")
  /\ NoTurn /\ UNCHANGED <<stored, action, trouble>>

\* resolve_pending_reply: nothing else may be said while an action waits for a decision.
List(c) ==
  /\ at[c] = "list"
  /\ IF action # "pending" THEN Goes(c, "save")
     ELSE IF Content[c] = "yes" THEN Goes(c, "decide")
     ELSE Respond(c, "refused")
  /\ NoTurn /\ UNCHANGED <<stored, action, trouble>>

\* decide_action, which accepts that another request was faster.
Decide(c) ==
  /\ at[c] = "decide"
  /\ action' = "settled"
  /\ Respond(c, "decided")
  /\ NoTurn /\ UNCHANGED <<stored, trouble>>

\* The id is the primary key of messages.
Save(c) ==
  /\ at[c] = "save"
  /\ IF stored = "none"
     THEN stored' = Content[c] /\ Goes(c, IF c \in Sockets THEN "find" ELSE "post")
     ELSE UNCHANGED stored /\ Respond(c, "error")
  /\ NoTurn /\ UNCHANGED <<action, trouble>>

\* get_work_run_by_source
Find(c) ==
  /\ at[c] = "find"
  /\ Goes(c, IF runRow = "none" THEN "create" ELSE "claim")
  /\ NoTurn /\ UNCHANGED <<stored, action, trouble>>

\* create_work_run; if the source has a run by now that one is taken.
Create(c) ==
  /\ at[c] = "create"
  /\ runRow' = IF runRow = "none" THEN "queued" ELSE runRow
  /\ Goes(c, "claim")
  /\ UNCHANGED <<stored, action, waiting, holder, kept, history, trouble>>

\* Mutant of ClaimRun: the status is not part of the update's condition.
ClaimAnyRun(c) ==
  /\ at[c] = "claim"
  /\ runRow' = "running" /\ waiting' = waiting + 1
  /\ Respond(c, "accepted")
  /\ UNCHANGED <<stored, action, holder, kept, history, trouble>>

\* claim_queued_work_run: only who finds it queued spawns the turn.
ClaimRun(c) ==
  /\ at[c] = "claim"
  /\ IF runRow = "queued" THEN runRow' = "running" /\ waiting' = waiting + 1
     ELSE UNCHANGED <<runRow, waiting>>
  /\ Respond(c, "accepted")
  /\ UNCHANGED <<stored, action, holder, kept, history, trouble>>

RequestFails(c) ==
  /\ at[c] \in {"decide", "save", "create", "claim"} /\ Suffers("faults")
  /\ Respond(c, "error")
  /\ NoTurn /\ UNCHANGED <<stored, action>>

\* A POST runs the turn itself, with a run of its own, and ends with it; its client may leave.
Post(c) ==
  /\ at[c] = "post"
  /\ IF holder = "none"
     THEN holder' = c /\ history' = [history EXCEPT !.turns = @ + 1, !.posts = @ + 1] /\ Goes(c, "wait")
     ELSE Respond(c, "error") /\ UNCHANGED <<holder, history>>
  /\ UNCHANGED <<stored, action, runRow, waiting, kept, trouble>>

PostEnds(c) ==
  /\ c \notin Sockets
  /\ \/ at[c] = "wait" /\ Respond(c, "answered") /\ UNCHANGED trouble
     \/ at[c] # "idle" /\ Respond(c, "lost") /\ Suffers("faults")
  /\ holder' = IF holder = c THEN "none" ELSE holder
  /\ UNCHANGED <<stored, action, runRow, waiting, kept, history>>

-------------------------------------------------------------------------------
(* The turn of the run *)

NoRequest == UNCHANGED <<at, reply, sends, stored, trouble>>

Begin ==
  /\ waiting > 0 /\ waiting' = waiting - 1
  /\ IF holder = "none"
     THEN holder' = "turn" /\ runRow' = "running" /\ Counts("turns")
     ELSE runRow' = "failed" /\ UNCHANGED <<holder, history>>
  /\ NoRequest /\ UNCHANGED <<action, kept>>

\* How the turn ends is written before the conversation is released.
Settle(status) ==
  /\ holder = "turn" /\ holder' = "ending"
  /\ status \in {"completed", "failed", "waiting_for_approval", "queued"}
  /\ status = "queued" => history.deferrals < MaxTrouble.deferrals
  /\ runRow' = status
  /\ action' = IF status = "waiting_for_approval" THEN "pending" ELSE action
  /\ IF status = "queued" THEN kept' = "available" /\ Counts("deferrals") ELSE UNCHANGED <<kept, history>>
  /\ NoRequest /\ UNCHANGED waiting

Release ==
  /\ holder \in {"ending", "other"} /\ holder' = "none"
  /\ NoRequest /\ UNCHANGED <<runRow, waiting, action, kept, history>>

\* The conversation is used by other work.
Other ==
  /\ holder = "none" /\ holder' = "other"
  /\ NoRequest /\ UNCHANGED <<runRow, waiting, action, kept, history>>

\* The dispatcher continues the run from its checkpoint.
Continue ==
  /\ kept = "available" /\ runRow = "queued" /\ action # "pending" /\ holder = "none"
  /\ kept' = "claimed" /\ holder' = "continuation"
  /\ NoRequest /\ UNCHANGED <<runRow, waiting, action, history>>

Continued ==
  /\ holder = "continuation" /\ holder' = "none"
  /\ \/ kept' = "consumed" /\ runRow' = "completed"
     \/ kept' = "available" /\ UNCHANGED runRow
  /\ NoRequest /\ UNCHANGED <<waiting, action, history>>

\* The server ends; at the next start the runs it had begun are interrupted, and queued again
\* if they have a checkpoint.
Crash ==
  /\ Suffers("crashes")
  /\ at' = [c \in Clients |-> "idle"] /\ reply' = [c \in Clients |-> IF at[c] = "idle" THEN reply[c] ELSE "lost"]
  /\ waiting' = 0 /\ holder' = "none"
  /\ kept' = IF kept = "claimed" THEN "available" ELSE kept
  /\ runRow' = IF runRow \in {"running", "waiting_for_approval"}
               THEN IF kept' = "available" THEN "queued" ELSE "interrupted" ELSE runRow
  /\ UNCHANGED <<sends, stored, action, history>>

Handle(c) ==
  \/ Look(c) \/ List(c) \/ Decide(c) \/ Save(c) \/ Find(c) \/ Create(c) \/ ClaimRun(c) \/ RequestFails(c)
  \/ Post(c) \/ PostEnds(c)
Turn == Begin \/ Release \/ Continue \/ Continued \/ \E s \in {"completed", "failed", "waiting_for_approval", "queued"} : Settle(s)

Next == (\E c \in Clients : Send(c) \/ Handle(c)) \/ Turn \/ Other \/ Crash
Spec == Init /\ [][Next]_chatVars

-------------------------------------------------------------------------------
(* Properties *)

TypeOK ==
  /\ at \in [Clients -> {"idle", "look", "list", "decide", "save", "find", "create", "claim", "post", "wait"}]
  /\ runRow \in {"none", "queued", "running", "waiting_for_approval", "completed", "failed", "interrupted"}
  /\ waiting \in {0, 1}
  /\ kept \in {"none", "available", "claimed", "consumed"}

\* However often a message is sent, from wherever, its turn is begun once; once more if it was
\* first sent by POST, and for every time its run was queued again, because it was deferred or
\* interrupted with its checkpoint at hand (handlers/chat.rs 368-420).
BegunOnce == history.turns + waiting <= 1 + history.posts + history.deferrals + trouble.crashes

\* A client that is told its message was accepted over the socket can rely on it: it is stored
\* as sent, and its run was started or its row tells why not (handlers/chat.rs 319-429).
AcceptedIsKept ==
  \A c \in Sockets : reply[c] = "accepted" =>
    /\ stored = Content[c]
    /\ \/ runRow = "running" /\ (waiting > 0 \/ holder # "none")
       \/ runRow \in {"waiting_for_approval", "completed", "failed", "interrupted"}
       \/ runRow = "queued" /\ kept # "none"

ChatKept == BegunOnce /\ AcceptedIsKept

\* WEB_API.md:315: "Retrying the same ID and content acknowledges the existing turn rather than
\* creating a duplicate."  A retry after the turn was deferred finds its run queued.
TurnBegunOnce == history.turns <= 1
===============================================================================
