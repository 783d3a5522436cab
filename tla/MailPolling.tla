----------------------------- MODULE MailPolling -----------------------------
(***************************************************************************)
(* Polling of mail and calendars (jossie-integration-email/src/email/      *)
(* polling.rs, jossie-integration-google/src/google/{polling,              *)
(* gmail_provider,calendar_provider,auth_accounts}.rs).                    *)
(*                                                                         *)
(* One IMAP mailbox and one Google account with its feeds.  A poll asks    *)
(* the server several times, stores an event per message and then moves a  *)
(* cursor; messages arrive, the mailbox is replaced, the grant is revoked  *)
(* and renewed between any two of its steps.  A poll that fails, and one   *)
(* that is cut short by a stop of the server, leave what is stored.        *)
(***************************************************************************)
EXTENDS Integers, FiniteSets, FiniteSetsExt

CONSTANTS
  Feeds,         \* "gmail" and "calendar", or nothing: no Google account
  MaxMail,       \* bound on the messages of a mailbox
  MaxMailboxes,  \* bound on its UIDVALIDITY: how often it is replaced
  FetchLimit,    \* MAX_POLL_FETCH_UIDS
  MaxItems,      \* bound on the items of each feed
  MaxTokens,     \* bound on the refresh tokens the user has stored
  MaxResets,     \* bound on how often a cursor has become too old
  MaxFaults      \* bound on failures

PollingAssumption ==
  /\ Feeds \in {{}, {"gmail", "calendar"}} /\ MaxItems \in [Feeds -> Nat]
  /\ FetchLimit \in Nat \ {0} /\ MaxMailboxes \in Nat \ {0} /\ MaxTokens \in Nat \ {0}
  /\ {MaxMail, MaxResets, MaxFaults} \subseteq Nat

None == -1
Nowhere == [uid |-> None, validity |-> None]

VARIABLES
  at,                \* where the poll stands
  mailbox,           \* the INBOX: its validity, the last uid
  known,             \* what the first question said of it
  cursor,            \* imap_last_seen_uid, imap_uid_validity
  batch, position,   \* what is left to store, and the cursor to store then
  events,            \* integration events: <<source, validity, number>>
  seeded, seedings,  \* where the cursor was put last, and how often
  dropped,           \* messages nobody can see: expunged, not fetched, before a reset
  torn,              \* the mailbox was replaced and nobody can tell
  items, feedCursor, \* the items of each feed, and its stored cursor
  feed,              \* the feed at work
  current, revoked,  \* the refresh token in the account's row; those up to this one are revoked
  snapshot,          \* the token in the row the poll works with
  cached,            \* there is an access token
  status, pausedFor, \* account_status, account_paused_refresh_token
  resets, faults

mailVars == <<mailbox, known, cursor, torn>>
feedVars == <<items, feedCursor, feed>>
accountVars == <<current, revoked, snapshot, cached, status, pausedFor>>
storeVars == <<batch, position, events>>
seedVars == <<seeded, seedings, dropped>>
vars == <<at, mailVars, feedVars, accountVars, storeVars, seedVars, resets, faults>>

Sources == {"imap"} \union Feeds

Init ==
  /\ at = "idle"
  /\ mailbox = [validity |-> 1, last |-> 0] /\ known = mailbox
  /\ cursor = Nowhere
  /\ batch = {} /\ position = Nowhere
  /\ events = {}
  /\ seeded = [s \in Sources |-> None] /\ seedings = 0 /\ dropped = {} /\ torn = FALSE
  /\ items = [f \in Feeds |-> 0] /\ feedCursor = [f \in Feeds |-> None] /\ feed = "imap"
  /\ current = 1 /\ revoked = 0 /\ snapshot = 1 /\ cached = FALSE
  /\ status = "active" /\ pausedFor = 0
  /\ resets = 0 /\ faults = 0

At(from, to) == at = from /\ at' = to

-------------------------------------------------------------------------------
(* The world *)

\* A message arrives in the mailbox.
Arrives ==
  /\ mailbox.last < MaxMail
  /\ mailbox' = [mailbox EXCEPT !.last = @ + 1]
  /\ UNCHANGED <<at, known, cursor, torn, feedVars, accountVars, storeVars, seedVars, resets, faults>>

\* The mailbox is replaced: other messages under the same uids.  Within a poll, or when a failure
\* left the cursor without a validity, nobody can tell.
Replaced ==
  /\ MaxMail > 0 /\ mailbox.validity < MaxMailboxes
  /\ mailbox' = [validity |-> mailbox.validity + 1, last |-> 0]
  /\ torn' = (torn \/ at # "idle" \/ (cursor.uid # None /\ cursor.validity = None))
  /\ UNCHANGED <<at, known, cursor, feedVars, accountVars, storeVars, seedVars, resets, faults>>

\* A message arrives in Gmail, an entry of a calendar changes.
FeedGrows(f) ==
  /\ items[f] < MaxItems[f]
  /\ items' = [items EXCEPT ![f] = @ + 1]
  /\ UNCHANGED <<at, mailVars, feedCursor, feed, accountVars, storeVars, seedVars, resets, faults>>

Revoked ==
  /\ Feeds # {} /\ revoked < current
  /\ revoked' = current
  /\ UNCHANGED <<at, mailVars, feedVars, current, snapshot, cached, status, pausedFor, storeVars,
                 seedVars, resets, faults>>

\* The user connects the account again.
Reconnected ==
  /\ revoked = current /\ current < MaxTokens
  /\ current' = current + 1
  /\ UNCHANGED <<at, mailVars, feedVars, revoked, snapshot, cached, status, pausedFor, storeVars,
                 seedVars, resets, faults>>

AccessExpires ==
  /\ cached /\ cached' = FALSE
  /\ UNCHANGED <<at, mailVars, feedVars, current, revoked, snapshot, status, pausedFor, storeVars,
                 seedVars, resets, faults>>

-------------------------------------------------------------------------------
(* IMAP: poll_account *)

\* current_mailbox_state
Status ==
  /\ MaxMail > 0 /\ At("idle", "planning")
  /\ known' = mailbox /\ feed' = "imap"
  /\ UNCHANGED <<mailbox, cursor, torn, items, feedCursor, accountVars, storeVars, seedVars, resets, faults>>

\* Mutant of PlannedPoll: the validity is not looked at.
PlannedPollBlind ==
  IF cursor.uid = None THEN "seeding" ELSE IF known.last <= cursor.uid THEN "idle" ELSE "fetching"

\* plan_mailbox_poll, with the cursor just loaded
PlannedPoll ==
  IF cursor.uid = None \/ (cursor.validity # None /\ cursor.validity # known.validity) THEN "seeding"
  ELSE IF known.last <= cursor.uid THEN "idle" ELSE "fetching"

Plan ==
  /\ At("planning", PlannedPoll)
  /\ UNCHANGED <<mailVars, feedVars, accountVars, storeVars, seedVars, resets, faults>>

\* seed_mailbox_cursor: what is there already is not new.
Seed ==
  /\ At("seeding", "storing_uid")
  /\ position' = [uid |-> mailbox.last, validity |-> mailbox.validity]
  /\ seeded' = [seeded EXCEPT !["imap"] = mailbox.last] /\ seedings' = seedings + 1
  /\ UNCHANGED <<mailVars, feedVars, accountVars, batch, events, dropped, resets, faults>>

FirstOf(S, n) == {u \in S : Cardinality({v \in S : v < u}) < n}

\* fetch_new_message_summaries: the first few from the cursor on; those expunged
\* in the meantime are missing.  When none is left the cursor goes to the end the first
\* question told of, also past messages beyond the limit.
Fetch ==
  /\ At("fetching", "inserting")
  /\ LET uids == FirstOf((cursor.uid + 1)..mailbox.last, FetchLimit)
         Messages(U) == {<<"imap", mailbox.validity, u>> : u \in U} IN
     \E got \in {uids} \union {uids \ {u} : u \in uids} :
       LET end == IF got # {} THEN Max(got) ELSE Max({known.last, cursor.uid}) IN
       /\ batch' = Messages(got)
       /\ position' = [uid |-> end, validity |-> mailbox.validity]
       /\ dropped' = dropped \union
            Messages(IF got # {} \/ uids = {} THEN uids \ got ELSE (cursor.uid + 1)..end)
  /\ UNCHANGED <<mailVars, feedVars, accountVars, events, seeded, seedings, resets, faults>>

\* store_mailbox_cursor, the first setting
StoreUid ==
  /\ At("storing_uid", "storing_validity")
  /\ cursor' = [cursor EXCEPT !.uid = position.uid]
  /\ UNCHANGED <<mailbox, known, torn, feedVars, accountVars, storeVars, seedVars, resets, faults>>

\* and the second one
StoreValidity ==
  /\ At("storing_validity", "idle")
  /\ cursor' = [cursor EXCEPT !.validity = position.validity]
  /\ position' = Nowhere
  /\ UNCHANGED <<mailbox, known, torn, feedVars, accountVars, batch, events, seedVars, resets, faults>>

-------------------------------------------------------------------------------
(* Events: emit_new_email_events and the loops of the Google polls *)

First(S) == CHOOSE e \in S : \A d \in S : e[3] <= d[3]

\* insert_integration_event: one that is stored already is ignored.
Insert ==
  /\ at = "inserting" /\ batch # {}
  /\ events' = events \union {First(batch)}
  /\ batch' = batch \ {First(batch)}
  /\ UNCHANGED <<at, mailVars, feedVars, accountVars, position, seedVars, resets, faults>>

\* Mutant of Inserted: the cursor moves although events are left to store.
InsertedSome ==
  /\ At("inserting", IF feed = "imap" THEN "storing_uid" ELSE "storing_cursor")
  /\ batch' = {}
  /\ UNCHANGED <<mailVars, feedVars, accountVars, position, events, seedVars, resets, faults>>

Inserted ==
  /\ batch = {}
  /\ At("inserting", IF feed = "imap" THEN "storing_uid" ELSE "storing_cursor")
  /\ UNCHANGED <<mailVars, feedVars, accountVars, storeVars, seedVars, resets, faults>>

-------------------------------------------------------------------------------
(* Google: poll *)

\* is_account_paused: whether the token is another one than that of the pause
TokenChanged(token) == pausedFor \notin {None, 0} /\ pausedFor # token

\* The account's row is read once; a paused account is left alone until its token changes.
PollGoogle ==
  /\ Feeds # {} /\ at = "idle"
  /\ snapshot' = current
  /\ at' = IF status = "active" THEN "polling"
           ELSE IF TokenChanged(current) THEN "clearing" ELSE "idle"
  /\ feed' = IF status = "active" THEN "gmail" ELSE "imap"
  /\ UNCHANGED <<mailVars, items, feedCursor, current, revoked, cached, status, pausedFor, storeVars,
                 seedVars, resets, faults>>

\* clear_account_pause_state: the status first, the token of the pause last.
ClearStatus ==
  /\ At("clearing", "clearing_token")
  /\ status' = "active"
  /\ UNCHANGED <<mailVars, feedVars, current, revoked, snapshot, cached, pausedFor, storeVars, seedVars,
                 resets, faults>>

ClearToken ==
  /\ At("clearing_token", "polling")
  /\ pausedFor' = 0 /\ feed' = "gmail"
  /\ UNCHANGED <<mailVars, items, feedCursor, current, revoked, snapshot, cached, status, storeVars,
                 seedVars, resets, faults>>

NextFeed == IF feed = "gmail" THEN "calendar" ELSE "imap"
AfterFeed == IF feed = "gmail" THEN "polling" ELSE "idle"

\* get_access_token reads the token that is stored now.
Granted == cached \/ current > revoked

\* invalid_grant: pause_account_invalid_grant begins.
Refused ==
  /\ ~Granted /\ At("polling", "pausing_token")
  /\ status' = "paused"
  /\ UNCHANGED <<mailVars, feedVars, current, revoked, snapshot, cached, pausedFor, storeVars, seedVars,
                 resets, faults>>

\* Mutant of PauseToken: the token that is stored by now.
PauseTokenNow ==
  /\ At("pausing_token", "idle")
  /\ pausedFor' = current /\ cached' = FALSE
  /\ UNCHANGED <<mailVars, feedVars, current, revoked, snapshot, status, storeVars, seedVars, resets, faults>>

\* The token of the row the poll began with, not one stored since.
PauseToken ==
  /\ At("pausing_token", "idle")
  /\ pausedFor' = snapshot /\ cached' = FALSE
  /\ UNCHANGED <<mailVars, feedVars, current, revoked, snapshot, status, storeVars, seedVars, resets, faults>>

\* A feed without a cursor begins at what is there.
SeedFeed ==
  /\ Granted /\ feed # "imap" /\ feedCursor[feed] = None /\ At("polling", AfterFeed)
  /\ cached' = TRUE
  /\ feedCursor' = [feedCursor EXCEPT ![feed] = items[feed]]
  /\ seeded' = [seeded EXCEPT ![feed] = items[feed]]
  /\ feed' = NextFeed
  /\ UNCHANGED <<mailVars, items, current, revoked, snapshot, status, pausedFor, storeVars, seedings,
                 dropped, resets, faults>>

\* The history is gone, or updatedMin is too long ago: the cursor is put to now.
ResetFeed ==
  /\ Granted /\ feed # "imap" /\ feedCursor[feed] # None /\ At("polling", AfterFeed)
  /\ resets < MaxResets /\ resets' = resets + 1
  /\ cached' = TRUE
  /\ feedCursor' = [feedCursor EXCEPT ![feed] = items[feed]]
  /\ dropped' = dropped \union {<<feed, 0, i>> : i \in (feedCursor[feed] + 1)..items[feed]}
  /\ feed' = NextFeed
  /\ UNCHANGED <<mailVars, items, current, revoked, snapshot, status, pausedFor, storeVars, seeded,
                 seedings, faults>>

\* gmail_list_history, calendar_list_updated_events: what is new since the cursor.
ListFeed ==
  /\ Granted /\ feed # "imap" /\ feedCursor[feed] # None /\ At("polling", "inserting")
  /\ cached' = TRUE
  /\ batch' = {<<feed, 0, i>> : i \in (feedCursor[feed] + 1)..items[feed]}
  /\ position' = [uid |-> items[feed], validity |-> 0]
  /\ UNCHANGED <<mailVars, feedVars, current, revoked, snapshot, status, pausedFor, events, seedVars,
                 resets, faults>>

\* A summary that cannot be fetched is passed over.
SummaryFails ==
  /\ at = "inserting" /\ feed = "gmail" /\ batch # {}
  /\ faults < MaxFaults /\ faults' = faults + 1
  /\ dropped' = dropped \union {First(batch)}
  /\ batch' = batch \ {First(batch)}
  /\ UNCHANGED <<at, mailVars, feedVars, accountVars, position, events, seeded, seedings, resets>>

StoreCursor ==
  /\ At("storing_cursor", AfterFeed)
  /\ feedCursor' = [feedCursor EXCEPT ![feed] = position.uid]
  /\ feed' = NextFeed /\ position' = Nowhere
  /\ UNCHANGED <<mailVars, items, accountVars, batch, events, seedVars, resets, faults>>

-------------------------------------------------------------------------------
\* An error of a server or of a statement ends the poll of the account; so does a stop
\* of the server, which forgets the access token.
PollFails ==
  /\ at # "idle" /\ faults < MaxFaults
  /\ faults' = faults + 1
  /\ at' = "idle" /\ batch' = {} /\ position' = Nowhere /\ feed' = "imap"
  /\ cached' \in {cached, FALSE}
  /\ UNCHANGED <<mailVars, items, feedCursor, current, revoked, snapshot, status, pausedFor, events,
                 seedVars, resets>>

Poll ==
  \/ Status \/ Plan \/ Seed \/ Fetch \/ StoreUid \/ StoreValidity
  \/ Insert \/ Inserted
  \/ PollGoogle \/ ClearStatus \/ ClearToken \/ Refused \/ PauseToken \/ SeedFeed \/ ResetFeed
  \/ ListFeed \/ SummaryFails \/ StoreCursor \/ PollFails

World ==
  \/ Arrives \/ Replaced \/ Revoked \/ Reconnected \/ AccessExpires
  \/ \E f \in Feeds : FeedGrows(f)

Next == Poll \/ World

Spec == Init /\ [][Next]_vars

\* The event loop polls again and again; an access token lives for an hour.
Fairness == WF_vars(Poll) /\ WF_vars(AccessExpires)
FairSpec == Spec /\ Fairness

-------------------------------------------------------------------------------
(* Properties *)

TypeOK ==
  /\ at \in {"idle", "planning", "seeding", "fetching", "inserting", "storing_uid", "storing_validity",
             "polling", "clearing", "clearing_token", "pausing_token", "storing_cursor"}
  /\ mailbox \in [validity : 1..MaxMailboxes, last : 0..MaxMail] /\ known \in [validity : 1..MaxMailboxes, last : 0..MaxMail]
  /\ cursor.uid \in None..MaxMail /\ cursor.validity \in {None} \union 1..MaxMailboxes
  /\ feed \in {"imap", "gmail", "calendar"}
  /\ \A f \in Feeds : feedCursor[f] \in None..items[f] /\ items[f] \in 0..MaxItems[f]
  /\ status \in {"active", "paused"} /\ pausedFor \in 0..MaxTokens
  /\ revoked <= current /\ current <= MaxTokens
  /\ faults \in 0..MaxFaults /\ resets \in 0..MaxResets

\* What lies between where a cursor was put and where it is now has become an event, whatever
\* failed or stopped in between: the cursor never passes a message that was not stored.
\* Left out are messages that could not be fetched, and a mailbox whose replacement cannot be told.
\* A mailbox that is replaced, and only that one or a failure, makes the cursor begin anew.
NoMailPassed ==
  /\ ~torn /\ cursor.validity = mailbox.validity =>
       \A u \in (seeded["imap"] + 1)..cursor.uid :
         <<"imap", mailbox.validity, u>> \in events \union dropped
  /\ seedings <= mailbox.validity + faults
  /\ \A f \in Feeds : feedCursor[f] # None =>
       \A i \in (seeded[f] + 1)..feedCursor[f] : <<f, 0, i>> \in events \union dropped

\* A message that arrives after the cursor was put becomes an event in the end.
Unnoticed(u) ==
  /\ cursor.uid # None /\ cursor.uid < u /\ mailbox.last >= u /\ mailbox.validity = MaxMailboxes
  /\ cursor.validity = mailbox.validity /\ ~torn
Noticed(u) == <<"imap", MaxMailboxes, u>> \in events \union dropped \/ torn
MailNoticed == \A u \in 1..MaxMail : Unnoticed(u) ~> Noticed(u)

\* An account that was paused is polled again once the user has connected it again,
\* also when that happened while it was being paused ("If refresh token changed since
\* pause, resume polling automatically").  A statement that fails within the pause
\* leaves it without the token it was for.
LeftPaused == status = "paused" /\ current > revoked /\ faults = 0
AccountResumes == LeftPaused ~> ~LeftPaused
===============================================================================
