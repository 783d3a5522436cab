------------------------------- MODULE LlmClient -------------------------------
(***************************************************************************)
(* One answer of the language model (jossie-llm, and its reader in         *)
(* agent/streaming.rs): the client streams what the API sends into a       *)
(* channel and tries again when the API fails; the run collects it, shows  *)
(* it at once, and asks without a stream when a chained request fails      *)
(* before anything was shown.                                              *)
(*                                                                         *)
(* A piece of text is the number of the attempt it belongs to.             *)
(***************************************************************************)
EXTENDS Integers, Sequences, FiniteSets, SequencesExt, FiniteSetsExt

CONSTANTS
  MaxRetries,  \* retries of a request (13, unlimited for the flex tier)
  Capacity,    \* of the channel (200)
  MaxPieces    \* bound: pieces of text of an attempt

LlmAssumption == {MaxRetries, Capacity, MaxPieces} \subseteq Nat

VARIABLES
  client,   \* complete_stream_with_options
  channel,  \* events on their way to the run
  shown,    \* full_content of the run, and what its user sees
  ending,   \* how the run's collection ended
  chainedTo \* the request continues an earlier response

llmVars == <<client, channel, shown, ending, chainedTo>>

Fresh == [at |-> "request", attempt |-> 1, emitted |-> FALSE, pieces |-> 0, retryable |-> FALSE, retries |-> 0]

Init ==
  /\ client = Fresh /\ channel = <<>> /\ shown = <<>> /\ ending = "none"
  /\ chainedTo \in BOOLEAN

\* Mutant of Puts: the channel has no limit.
PutsAnyway(event) == channel' = Append(channel, event)
Puts(event) == Len(channel) < Capacity /\ channel' = Append(channel, event)
Client == UNCHANGED <<shown, ending, chainedTo>>

-------------------------------------------------------------------------------
(* The client *)

\* A request, or the stream of its answer, fails: for good or in a way that may pass.
Breaks ==
  /\ client.at \in {"request", "stream"}
  /\ \E retryable \in BOOLEAN : client' = [client EXCEPT !.at = "broken", !.retryable = retryable]
  /\ Client /\ UNCHANGED channel

Opens ==
  /\ client.at = "request"
  /\ client' = [client EXCEPT !.at = "stream", !.emitted = FALSE, !.pieces = 0]
  /\ Client /\ UNCHANGED channel

\* A piece of text, which may be empty.
Piece ==
  /\ client.at = "stream" /\ client.pieces < MaxPieces
  /\ \/ client' = [client EXCEPT !.emitted = TRUE] /\ UNCHANGED channel
     \/ /\ client' = [client EXCEPT !.emitted = TRUE, !.pieces = @ + 1]
        /\ Puts([kind |-> "delta", attempt |-> client.attempt])
  /\ Client

\* response.completed
Completes ==
  /\ client.at = "stream" /\ Puts([kind |-> "completed", attempt |-> client.attempt])
  /\ client' = [client EXCEPT !.at = "done"]
  /\ Client

Retries == client.retryable /\ client.retries < MaxRetries

\* Mutant of Retry: the reader is not told to forget it.
RetryWithoutReset ==
  /\ client.at = "broken" /\ Retries
  /\ UNCHANGED channel
  /\ client' = [client EXCEPT !.at = "request", !.attempt = @ + 1, !.retries = @ + 1]
  /\ Client

\* wait_to_retry, and Reset if something of the failed attempt was sent.
Retry ==
  /\ client.at = "broken" /\ Retries
  /\ IF client.emitted THEN Puts([kind |-> "reset", attempt |-> client.attempt]) ELSE UNCHANGED channel
  /\ client' = [client EXCEPT !.at = "request", !.attempt = @ + 1, !.retries = @ + 1, !.emitted = FALSE]
  /\ Client

\* Mutant of GivesUp: the channel is closed without the error.
GivesUpSilently ==
  /\ client.at = "broken" /\ ~Retries
  /\ client' = [client EXCEPT !.at = "done"]
  /\ Client /\ UNCHANGED channel

GivesUp ==
  /\ client.at = "broken" /\ ~Retries
  /\ Puts([kind |-> "error", attempt |-> client.attempt])
  /\ client' = [client EXCEPT !.at = "done"]
  /\ Client

-------------------------------------------------------------------------------
(* The run *)

Run == UNCHANGED <<client, chainedTo>>

Receive ==
  LET event == Head(channel) IN
  /\ ending = "none" /\ channel # <<>> /\ channel' = Tail(channel)
  /\ shown' = CASE event.kind = "delta" -> Append(shown, event.attempt)
                [] event.kind = "reset" -> <<>>
                [] OTHER -> shown
  /\ ending' = CASE event.kind = "completed" -> "answered"
                 [] event.kind = "error" -> IF chainedTo /\ shown = <<>> THEN "asking_again" ELSE "failed"
                 [] OTHER -> "none"
  /\ Run

\* The same request with the whole context and without a stream; it is retried, too.
AsksAgain ==
  /\ ending = "asking_again"
  /\ \/ ending' = "answered" /\ \E n \in 0 .. MaxPieces : shown' = [i \in 1 .. n |-> 0]
     \/ ending' = "failed" /\ UNCHANGED shown
  /\ Run /\ UNCHANGED channel

\* A stop ends the stream's task.
Stop ==
  /\ ending \in {"none", "asking_again"} /\ ending' = "stopped"
  /\ client' = [client EXCEPT !.at = "done"] /\ channel' = <<>>
  /\ UNCHANGED <<shown, chainedTo>>

Ends == Breaks \/ Opens \/ Completes \/ Retry \/ GivesUp
Streams == Piece \/ Ends
Collects == Receive \/ AsksAgain

Next == Streams \/ Collects \/ Stop
\* An attempt sends a finite stream, so the client is fair to its end.
Spec == Init /\ [][Next]_llmVars /\ WF_llmVars(Ends) /\ WF_llmVars(Collects)

-------------------------------------------------------------------------------
(* Functions: retries, chunks, outputs *)

\* generation_retry_delay in seconds, with a jitter of less than one.
RetryDelay(after, n, jitter) == Min({60, IF after # {} THEN Max(after) ELSE Min({60, 2 * 2 ^ Min({n, 5})}) + jitter})

\* StreamLineBuffer: what push and next_line make of the chunks of a text.
Push(b, chunk) == [b EXCEPT !.bytes = SubSeq(@, b.start + 1, Len(@)) \o chunk, !.start = 0, !.scanned = @ - b.start]
NextLine(b) ==
  LET breaks == {i \in b.scanned + 1 .. Len(b.bytes) : b.bytes[i] = "nl"} IN
  IF breaks = {} THEN [b EXCEPT !.scanned = Len(b.bytes), !.more = FALSE]
  ELSE [b EXCEPT !.lines = Append(@, SubSeq(b.bytes, b.start + 1, Min(breaks) - 1)),
                 !.start = Min(breaks), !.scanned = Min(breaks)]
LinesOf(chunks) ==
  LET Drain(b) == FoldLeft(LAMBDA c, i : IF c.more THEN NextLine(c) ELSE c,
                           [b EXCEPT !.more = TRUE], [i \in 1 .. Len(b.bytes) + 1 |-> i])
  IN FoldLeft(LAMBDA b, chunk : Drain(Push(b, chunk)),
              [bytes |-> <<>>, start |-> 0, scanned |-> 0, lines |-> <<>>, more |-> TRUE], chunks).lines

\* collect_response_output: the text and the calls of the items of an answer.
TextOf(items) == FlattenSeq([i \in DOMAIN items |-> IF items[i].type = "message" THEN items[i].text ELSE <<>>])
CallsOf(items) == LET calls == SelectSeq(items, LAMBDA x : x.type = "function_call")
                  IN [i \in DOMAIN calls |-> [id |-> calls[i].id, args |-> calls[i].args]]

\* handle_stream_event, collect_tool_calls: events build up the call at their index; the name
\* comes with the id.
NoCall == [id |-> 0, args |-> <<>>]
Heard(calls, e) ==
  [calls EXCEPT ![e.index] =
    CASE e.type = "added" -> [id |-> e.id, args |-> <<>>]
      [] e.type = "delta" -> [@ EXCEPT !.args = @ \o e.args]
      [] e.type = "done" -> [@ EXCEPT !.args = e.args]]
CallsHeard(events, indices) ==
  LET calls == FoldLeft(Heard, [i \in indices |-> NoCall], events)
  IN SelectSeq([n \in 1 .. Max(indices) |-> IF n \in indices THEN calls[n] ELSE NoCall], LAMBDA c : c.id # 0)

\* build_input: what a stored message of the assistant is in a later request.
InputOf(message) ==
  (IF message.text = <<>> THEN <<>> ELSE <<[type |-> "message", text |-> message.text, id |-> 0, args |-> <<>>]>>)
  \o [i \in DOMAIN message.calls |->
        [type |-> "function_call", text |-> <<>>, id |-> message.calls[i].id, args |-> message.calls[i].args]]

\* hydrate_attachment_payloads, then select_attachment_ids: the newest first, as long as they fit.
\* Before it is loaded the size in the record has to fit, too.
Fits(attachments, limit, loading) ==
  FoldLeft(LAMBDA acc, a : IF a.data <= acc.left /\ (loading => acc.left > 0 /\ a.size <= acc.left)
                           THEN [left |-> acc.left - a.data, taken |-> acc.taken \union {a.id}] ELSE acc,
           [left |-> limit, taken |-> {}], Reverse(attachments))
Hydrated(attachments, limit) ==
  Fits(SelectSeq(attachments, LAMBDA a : a.kind = "supported"), limit, TRUE).taken
Sent(attachments, limit, hydrated) ==
  Fits(SelectSeq(attachments, LAMBDA a : a.id \in hydrated /\ a.kind # "unknown"), limit, FALSE)

-------------------------------------------------------------------------------
(* Properties *)

TypeOK ==
  /\ client.at \in {"request", "stream", "broken", "done"} /\ client.retries \in 0 .. MaxRetries
  /\ Len(channel) <= Capacity
  /\ ending \in {"none", "answered", "asking_again", "failed", "stopped"}

\* The answer of a run is that of one attempt, all of it: nothing is left of attempts that
\* failed, and a second request is only made when nothing was shown (completion.rs, streaming.rs).
AnswerIsOne ==
  /\ ending = "answered" =>
       \/ \A i \in DOMAIN shown : shown[i] = 0
       \/ shown = [i \in 1 .. client.pieces |-> client.attempt]
  /\ ending = "asking_again" => shown = <<>>
  /\ (ending = "none" /\ client.at = "done") => channel # <<>>

\* The run gets an answer or an error.
AnswerArrives == ending = "none" ~> ending # "none"

\* Delays grow to a minute and never beyond (retry.rs).
DelaysHold(after, n, jitter) ==
  /\ RetryDelay(after, n, jitter) <= 60
  /\ after = {} => RetryDelay({}, n, jitter) <= RetryDelay({}, n + 1, jitter)

\* However the network cuts a stream, its lines are those of the whole text (completion.rs 163-197).
Whole(chunks) == FlattenSeq(chunks)
LinesWhole(chunks) ==
  LET text == Whole(chunks)
      ends == {i \in DOMAIN text : text[i] = "nl"}
      lines == LinesOf(chunks)
  IN /\ Len(lines) = Cardinality(ends)
     /\ FlattenSeq([i \in DOMAIN lines |-> Append(lines[i], "nl")]) = SubSeq(text, 1, Max(ends \union {0}))
     /\ \A i \in DOMAIN lines : \A k \in DOMAIN lines[i] : lines[i][k] # "nl"

\* A stream that announces each call before it completes its arguments, in whatever order the
\* calls come, gives the calls of the answer (completion.rs 209-264, 288-440).
Announced(events, index) ==
  LET own == SelectSeq(events, LAMBDA e : e.index = index)
  IN /\ own # <<>> /\ Last(own).type = "done"
     /\ \E i \in DOMAIN own : own[i].type = "added"
StreamAgrees(items, events) ==
  LET calls == {n \in DOMAIN items : items[n].type = "function_call"} IN
  (calls # {} /\ \A n \in calls : Announced(events, n)) => CallsHeard(events, calls) = CallsOf(items)

\* An answer that was stored is asked back with the same text and the same calls.
StoredIsSame(items) ==
  LET input == InputOf([text |-> TextOf(items), calls |-> CallsOf(items)])
  IN TextOf(input) = TextOf(items) /\ CallsOf(input) = CallsOf(items)

\* Every attachment that was loaded for a request is sent with it, and they fit.
LoadedIsSent(attachments, limit) ==
  LET hydrated == Hydrated(attachments, limit)
      sent == Sent(attachments, limit, hydrated)
  IN sent.taken = hydrated /\ sent.left >= 0
===============================================================================
