---------------------------- MODULE SecretaryReview ----------------------------
(***************************************************************************)
(* What the owner reads when they approve a draft.  In the browser it is   *)
(* the row that is decided; in Telegram it is the message that showed a    *)
(* revision, above buttons that name an action and a revision.  A decision *)
(* gives that message the buttons of what is then pending in the chat      *)
(* (secretary.rs 320-362, 460-508; turns.rs 185-198, 450-589).  Crashes    *)
(* are left to SecretaryDrafts.                                            *)
(***************************************************************************)
EXTENDS SecretaryDrafts

VARIABLES
  button,   \* what the buttons under each message that was sent decide
  tap,      \* the chat's callback: its step and the message tapped
  shown     \* a draft: the message, or the row, its approval was based on

reviewVars == <<vars, button, tap, shown>>

\* One message for each revision of a draft: its text.
Messages == Drafters \X (1..MaxRevision)

NoMessage == <<>>

Idle == [pc |-> "idle", at |-> NoMessage, draft |-> NoTask]
Settled(d) == status[d] \in {"completed", "failed", "rejected", "uncertain"}

ReviewInit ==
  /\ Init
  /\ button = [m \in {} |-> NoMessage]
  /\ tap = Idle
  /\ shown = [d \in Drafters |-> NoMessage]

\* notify_owner_of_secretary_draft, after create_secretary_draft or a revision;
\* a revision made in the browser, and one whose message fails, has none.
Notify(d, r) ==
  /\ pc[d] = "done" /\ r \in 1..revision[d]
  /\ <<d, r>> \notin DOMAIN button
  /\ button' = [m \in DOMAIN button \union {<<d, r>>} |->
                  IF m = <<d, r>> THEN m ELSE button[m]]
  /\ UNCHANGED <<vars, tap, shown>>

\* handle_callback, one at a time in the owner's chat (try_activate_chat); a
\* decision that is refused changes nothing.
Tap(m) ==
  LET d == button[m][1]
      r == button[m][2]
  IN
  /\ tap = Idle /\ m \in DOMAIN button /\ button[m] # NoMessage /\ revision[d] = r
  /\ \/ /\ Approve(d) /\ shown' = [shown EXCEPT ![d] = m]
        /\ tap' = [pc |-> "deciding", at |-> m, draft |-> d]
     \/ /\ Reject(d) /\ UNCHANGED shown
        /\ tap' = [pc |-> "deciding", at |-> m, draft |-> d]
     \/ /\ Settled(d) /\ UNCHANGED <<vars, shown>>
        /\ tap' = [pc |-> "refreshing", at |-> m, draft |-> d]
  /\ UNCHANGED button

\* An error of the decision itself leaves the buttons alone.
Answer ==
  /\ tap.pc = "deciding" /\ exec[tap.draft] = "none"
  /\ tap' = IF Settled(tap.draft) THEN [tap EXCEPT !.pc = "refreshing"] ELSE Idle
  /\ UNCHANGED <<vars, button, shown>>

\* pending_keyboard(remaining) under the message that was tapped; the edit may fail.
Refresh ==
  /\ tap.pc = "refreshing" /\ tap' = Idle
  /\ \/ \E d \in Drafters :
          status[d] = "pending" /\ button' = [button EXCEPT ![tap.at] = <<d, revision[d]>>]
     \/ /\ \A d \in Drafters : status[d] # "pending"
        /\ button' = [button EXCEPT ![tap.at] = NoMessage]
     \/ UNCHANGED button
  /\ UNCHANGED <<vars, shown>>

\* In the browser (WorkPage.tsx, Chat.tsx) the row that is shown is decided.
BrowserApprove(d) ==
  /\ Approve(d) /\ shown' = [shown EXCEPT ![d] = <<d, revision[d]>>]
  /\ UNCHANGED <<button, tap>>

ReviewNext ==
  \/ \E d \in Drafters, r \in 1..MaxRevision : Notify(d, r)
  \/ \E m \in Messages : Tap(m)
  \/ Answer \/ Refresh
  \/ \E d \in Drafters : BrowserApprove(d)
  \/ /\ \/ \E t \in Tasks : Write(t) \/ Delete(t) \/ TaskStep(t) \/ TaskFails(t)
        \/ \E d \in Drafters : Edit(d) \/ Reject(d) \/ DecisionStep(d) \/ DecisionFails(d)
     /\ UNCHANGED <<button, tap, shown>>

ReviewSpec == ReviewInit /\ [][ReviewNext]_reviewVars

\* "Use the buttons to send it exactly as written or reject it" (secretary.rs
\* 360): what an approval sends is the text of the message whose button was
\* tapped.
SentAsShown == \A d \in Drafters : \A r \in sent[d] : shown[d] = <<d, r>>
===============================================================================
