----------------------------- MODULE ContextWindow -----------------------------
(***************************************************************************)
(* What the agent shows to the model of a conversation: the functions of   *)
(* agent/context_window.rs.  A message is a record: its role, the ids of   *)
(* the tool calls it makes ({} for none), the id of the call it answers    *)
(* (tool messages) and the number of characters of its content.            *)
(***************************************************************************)
EXTENDS Integers, Sequences, FiniteSets, FiniteSetsExt

CONSTANTS
  MaxChars,       \* max_context_chars
  TargetChars,    \* context_compact_target_chars
  KeepRecent,     \* context_keep_recent_dialogue_messages
  MinChars        \* no message is cut below this (256 in the code)

ASSUME WindowAssumption ==
  /\ MaxChars \in Nat /\ TargetChars \in 0 .. MaxChars
  /\ KeepRecent \in Nat \ {0} /\ MinChars \in Nat

-------------------------------------------------------------------------------
(* Tool calls and their answers *)

\* The positions I in the order Before, and the messages of s that are at I.
Ordered(I, Before(_, _)) ==
  [n \in 1 .. Cardinality(I) |-> CHOOSE i \in I : Cardinality({j \in I : Before(j, i)}) = n - 1]
Positions(I) == Ordered(I, LAMBDA i, j : i < j)
Selected(s, I) == LET order == Positions(I) IN [n \in 1 .. Cardinality(I) |-> s[order[n]]]

Calls(m) == m.role = "assistant" /\ m.calls # {}

\* The last tool message of those that directly follow message i, i if there is none.
BlockEnd(s, i) == Max({i} \union {j \in i + 1 .. Len(s) : \A k \in i + 1 .. j : s[k].role = "tool"})

\* The message a tool message directly follows, with only tool messages between; i for others.
Owner(s, i) == IF s[i].role # "tool" THEN i ELSE Max({0} \union {j \in 1 .. i - 1 : s[j].role # "tool"})

AnswersIn(s, i) == {s[k].of : k \in i + 1 .. BlockEnd(s, i)}

Sanitized(s) ==
  Selected(s, {i \in DOMAIN s : LET h == Owner(s, i) IN
    /\ h # 0
    /\ h # i => Calls(s[h])
    /\ Calls(s[h]) => s[h].calls \subseteq AnswersIn(s, h)})

-------------------------------------------------------------------------------
(* Tool activity of finished turns *)

Chars(s) ==
  LET sum[n \in 0 .. Len(s)] == IF n = 0 THEN 0 ELSE sum[n - 1] + s[n].size
  IN sum[Len(s)]

Finals(s) == {i \in DOMAIN s : s[i].role = "assistant" /\ s[i].calls = {} /\ s[i].size > 0}

WithoutFinished(s) ==
  LET last == Max(Finals(s))
      finished == {i \in DOMAIN s : LET h == Owner(s, i) IN h # 0 /\ Calls(s[h]) /\ BlockEnd(s, h) < last}
  IN IF Finals(s) = {} \/ Chars(Selected(s, finished)) = 0 THEN s
     ELSE Selected(s, DOMAIN s \ finished)

-------------------------------------------------------------------------------
(* The limit *)

Dialogue(s) == {i \in DOMAIN s : s[i].role \in {"user", "assistant"}}
Of(s, role) == {i \in DOMAIN s : s[i].role = role}
Newest(I) == Max(I \union {0})

\* The system messages and everything since the oldest of the newest dialogue messages.
Recent(s) ==
  LET newest == {i \in Dialogue(s) : Cardinality({j \in Dialogue(s) : j > i}) < KeepRecent}
      first == Min(newest \union {Len(s) + 1})
  IN Sanitized(Selected(s, {i \in DOMAIN s : s[i].role = "system" \/ i >= first}))

\* A message cut by what the context is over the limit, down to MinChars at most.
Cut(s, i, limit) ==
  LET over == Chars(s) - limit
      desired == Max({MinChars, s[i].size - over})
  IN IF over <= 0 \/ s[i].size <= desired THEN s ELSE [s EXCEPT ![i].size = desired]

CutInOrder(s, order, limit) ==
  LET cut[n \in 0 .. Len(order)] == IF n = 0 THEN s ELSE Cut(cut[n - 1], order[n], limit)
  IN cut[Len(order)]

\* The largest tool message first, the newest last.
ToolsCut(s) ==
  LET tools == Of(s, "tool")
      Before(i, j) ==
        IF Newest(tools) \in {i, j} THEN i # j /\ j = Newest(tools)
        ELSE s[i].size > s[j].size \/ (s[i].size = s[j].size /\ i < j)
  IN CutInOrder(s, Ordered(tools, Before), TargetChars)

\* The oldest dialogue message first, the newest user message last.
DialogueCut(s) ==
  LET user == Newest(Of(s, "user"))
      others == {i \in Dialogue(s) : i # user /\ s[i].size > 0}
  IN CutInOrder(s, Positions(others) \o (IF user = 0 THEN <<>> ELSE <<user>>), MaxChars)

Bounded(s) == IF Chars(s) <= MaxChars THEN s ELSE DialogueCut(ToolsCut(Recent(s)))

-------------------------------------------------------------------------------
(* Properties *)

\* What the model accepts: a call is answered directly after it, and an answer answers one.
Paired(s) ==
  \A i \in DOMAIN s :
    /\ Calls(s[i]) => s[i].calls \subseteq AnswersIn(s, i)
    /\ s[i].role = "tool" => LET h == Owner(s, i) IN h # 0 /\ Calls(s[h])

\* Cleaning leaves a context the model accepts, and one it accepts alone.
CleanedIsPaired(s) ==
  /\ Paired(Sanitized(s))
  /\ Paired(s) => Sanitized(s) = s
  /\ Paired(s) => Paired(WithoutFinished(s))

\* Only whole turns are forgotten: the answers the running turn waits for stay.
OpenTurnKept(s) ==
  LET last == Max(Finals(s) \union {0}) IN
  \A i \in DOMAIN s : (i > last /\ Calls(s[i])) =>
    \E j \in DOMAIN WithoutFinished(s) : WithoutFinished(s)[j] = s[i]

\* A context that is too long is cut to the limit, or every message that may be cut was cut to
\* MinChars; system messages are not touched, and the newest user message that is left is only
\* cut when nothing else could be.
CutToLimit(s) ==
  LET b == Bounded(s)
      r == Recent(s)
      user == Newest(Of(b, "user"))
  IN Chars(s) > MaxChars =>
       /\ Len(b) = Len(r)
       /\ \A i \in DOMAIN b : b[i].role = "system" => b[i] = r[i]
       /\ (user # 0 /\ b[user] # r[user]) => \A i \in Dialogue(b) : i # user => b[i].size <= MinChars
       /\ Chars(b) > MaxChars => \A i \in DOMAIN b : b[i].role # "system" => b[i].size <= MinChars

WindowHolds(s) == CleanedIsPaired(s) /\ OpenTurnKept(s) /\ CutToLimit(s)
===============================================================================
