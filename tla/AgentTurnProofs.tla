---------------------------- MODULE AgentTurnProofs ----------------------------
(***************************************************************************)
(* The safety properties of AgentTurn.tla, proved of every conversation,   *)
(* whatever the model answers and however often the server ends.           *)
(***************************************************************************)
EXTENDS AgentTurn, WindowProofs

-------------------------------------------------------------------------------
(* The inductive invariants *)

Call == [id : Nat, tool : STRING, ok : BOOLEAN]
Goal == [status : {"active", "completed"}, done : {0, 1}]
ActionStatuses == {"pending", "uncertain", "told"} \union AtWork \union GivenUp
Action == [call : Nat, run : Nat, status : ActionStatuses, approved : BOOLEAN]
Checkpoint == [goal : Nat, reads : SUBSET {"read"}, scheduled : BOOLEAN]
Run ==
  [phase : Phases, from : SUBSET Checkpoint, scheduled : BOOLEAN, iteration : 0 .. MaxIterations,
   reflected : BOOLEAN, premature : 0 .. 2, previous : BOOLEAN, asked : SUBSET Nat, reply : Seq(Call),
   left : Seq(Call), approval : BOOLEAN,
   outcome : {"none", "interrupted", "deferred", "cancelled", "failed", "final", "waiting"}]
Tracker ==
  [goal : Nat, open : BOOLEAN, done : {0, 1}, batch : Seq(STRING), repeats : Nat,
   work : SUBSET {"read", "write"}, reads : SUBSET {"read"}]

\* What the variables are.
Types ==
  /\ transcript \in Seq(Message) /\ context \in Seq(Message) /\ chained \in Seq(Message)
  /\ goals \in Seq(Goal) /\ row \in Seq(Statuses) /\ issued \in Nat
  /\ actions \subseteq Action /\ IsFiniteSet(actions)
  /\ saved \subseteq Checkpoint /\ run \in Run /\ tracker \in Tracker

\* Rows and goals that are spoken of are there, and a run has a row.
Refers ==
  /\ \A a \in actions : a.run \in 1 .. Len(row)
  /\ \A c \in saved \union run.from : c.goal \in 1 .. Len(goals)
  /\ tracker.goal \in 0 .. Len(goals)
  /\ run.phase # "idle" => Len(row) # 0
  /\ run.phase # "idle" /\ run.from # {} => tracker.goal # 0
  /\ run.phase \notin {"idle", "top"} => run.iteration < MaxIterations

\* The goal of a run is as the run knows it, and closed when the user is answered.
GoalKnown ==
  /\ run.phase # "idle" => run.outcome = "none"
  /\ "plan" \notin spoiled /\ tracker.goal # 0 =>
       /\ run.phase # "idle" => tracker.open = (goals[tracker.goal].status = "active")
       /\ run.outcome = "final" /\ ~run.scheduled => goals[tracker.goal].status # "active"

\* The calls that wait for an answer: of the run, and of the actions that are to be decided.
Waits(calls, c) == \E n \in 1 .. Len(calls) : calls[n].id = c
Numbers(calls) == \A m, n \in 1 .. Len(calls) : calls[m].id = calls[n].id => m = n
AnsweredIn(s, c) == \E i \in 1 .. Len(s) : s[i].role = "tool" /\ s[i].of = c
OneAnswer(s) == \A i, j \in 1 .. Len(s) : s[i].role = "tool" /\ s[j].role = "tool" /\ s[i].of = s[j].of => i = j

\* A second answer of a call is a warning after a result.
WarnedIn(s, c) == \E i \in 1 .. Len(s) : s[i].role = "tool" /\ s[i].of = c /\ s[i].name # "result"
WarnedLast(s) ==
  \A i, j \in 1 .. Len(s) :
    i < j /\ s[i].role = "tool" /\ s[j].role = "tool" /\ s[i].of = s[j].of => s[i].name = "result" /\ s[j].name = "warning"

\* A call is answered, or waits with the run or with an action, one of these and once; an action
\* whose call is answered has been executed, and one whose call was warned of is uncertain.
OncePerCall ==
  /\ WarnedLast(transcript) /\ Numbers(run.reply) /\ Numbers(run.left)
  /\ \A a, b \in actions : a.call = b.call => a = b
  /\ \A c \in Nat :
       /\ AnsweredIn(transcript, c) => ~ Waits(run.reply, c) /\ ~ Waits(run.left, c)
       /\ AnsweredIn(transcript, c) => \A a \in actions : a.call = c => a.status \notin {"pending", "executing"}
       /\ WarnedIn(transcript, c) => \E a \in actions : a.call = c /\ a.status = "uncertain"
       /\ \A a \in actions : a.call = c => ~ Waits(run.reply, c) /\ ~ Waits(run.left, c)
       /\ Waits(run.left, c) => ~ Waits(run.reply, c)
       /\ c > issued => ~ AnsweredIn(transcript, c) /\ ~ Waits(run.reply, c) /\ ~ Waits(run.left, c)
                        /\ \A a \in actions : a.call # c

\* The message at h makes the calls asked, of which those in waits are not answered yet.
Opened(s, h, asked, calls) ==
  /\ h \in 1 .. Len(s) /\ Calls(s[h]) /\ s[h].calls = asked
  /\ \A i \in h + 1 .. Len(s) : s[i].role = "tool"
  /\ \A c \in asked : Waits(calls, c) \/ \E k \in h + 1 .. Len(s) : s[k].of = c
  /\ \A i \in 1 .. h - 1 : (Calls(s[i]) => Heard(s, i)) /\ (s[i].role = "tool" => Owned(s, i))

\* The context is whole, except for the calls that the run is executing.
ContextWhole ==
  run.phase # "idle" =>
    /\ Headed(context) /\ context[1] # System("goal_tracker")
    /\ run.phase \in {"top", "chained", "full", "text", "batch"} /\ "tool" \notin spoiled => Whole(context)
    /\ run.phase \in {"batch", "tools"} => run.reply # <<>>
    /\ run.phase = "tools" /\ "tool" \notin spoiled => \E h \in Nat : Opened(context, h, run.asked, run.reply)
    /\ run.phase \in {"executed", "answers"} /\ ~run.approval /\ "tool" \notin spoiled =>
         \E h \in Nat : Opened(context, h, run.asked, run.left)

\* What happened since the last response are the answers to its calls, so far.
SinceResponse ==
  /\ run.phase \in {"text", "batch", "tools", "executed"} => \A i \in 1 .. Len(chained) : chained[i].role # "tool"
  /\ run.phase \in {"batch", "tools"} => \A c \in Nat : c \in run.asked <=> Waits(run.reply, c)
  /\ run.phase \in {"executed", "answers"} /\ ~run.approval /\ "tool" \notin spoiled =>
       \A c \in Nat : c \in run.asked <=> (AnsweredIn(chained, c) \/ Waits(run.left, c))
  /\ run.phase \in {"top", "chained"} /\ run.previous /\ "tool" \notin spoiled =>
       \A c \in Nat : c \in run.asked <=> AnsweredIn(chained, c)
  /\ run.phase = "text" => run.asked = {}
  /\ run.phase = "chained" => run.previous
  /\ OneAnswer(chained) /\ \A c \in Nat : AnsweredIn(chained, c) => ~ Waits(run.left, c)

-------------------------------------------------------------------------------
(* Messages *)

LEMMA MessagesAre ==
  /\ UserSays \in Message /\ Says \in Message
  /\ UserSays.role = "user" /\ Says.role = "assistant" /\ ~ Calls(UserSays) /\ ~ Calls(Says)
<1>1. {} \in SUBSET Nat /\ 0 \in Nat /\ 1 \in Nat /\ "message" \in Name /\ "text" \in Name
  BY DEF Name
<1>2. UserSays \in Message /\ Says \in Message
  BY <1>1 DEF UserSays, Says, Plain, Message
<1>3. UserSays.role = "user" /\ Says.role = "assistant" /\ UserSays.calls = {} /\ Says.calls = {}
  BY DEF UserSays, Says, Plain
<1> QED
  BY <1>2, <1>3 DEF Calls

LEMMA SystemIs ==
  ASSUME NEW name \in Name
  PROVE  System(name) \in Message /\ System(name).role = "system" /\ ~ Calls(System(name))
BY DEF System, Plain, Message, Calls

LEMMA AsksIs ==
  ASSUME NEW calls \in SUBSET Nat
  PROVE  /\ Asks(calls) \in Message /\ Asks(calls).role = "assistant" /\ Asks(calls).calls = calls
         /\ calls # {} => Calls(Asks(calls))
<1>1. Says \in Message /\ Says.role = "assistant"
  BY MessagesAre
<1>2. Asks(calls) = [Says EXCEPT !.calls = calls]
  BY DEF Asks
<1>3. Asks(calls) \in Message /\ Asks(calls).role = "assistant" /\ Asks(calls).calls = calls
  BY <1>1, <1>2 DEF Message
<1> QED
  BY <1>3 DEF Calls

LEMMA AnswersIs ==
  ASSUME NEW c \in Nat
  PROVE  /\ Answers(c) \in Message /\ Answers(c).role = "tool" /\ Answers(c).of = c /\ ~ Calls(Answers(c))
         /\ Answers(c).name = "result"
<1> DEFINE plain == Plain("tool", "result")
<1>1. {} \in SUBSET Nat /\ 0 \in Nat /\ 1 \in Nat /\ "result" \in Name
  BY DEF Name
<1>2. plain \in Message
  BY <1>1 DEF Plain, Message
<1>3. plain.role = "tool" /\ plain.calls = {} /\ plain.name = "result"
  BY DEF Plain
<1> HIDE DEF plain
<1>4. Answers(c) = [plain EXCEPT !.of = c]
  BY DEF Answers, plain
<1>5. /\ Answers(c) \in Message /\ Answers(c).role = "tool" /\ Answers(c).of = c /\ Answers(c).calls = {}
      /\ Answers(c).name = "result"
  BY <1>2, <1>3, <1>4 DEF Message
<1> QED
  BY <1>5 DEF Calls

LEMMA WarnsIs ==
  ASSUME NEW c \in Nat
  PROVE  Warns(c) \in Message /\ Warns(c).role = "tool" /\ Warns(c).of = c /\ Warns(c).name = "warning"
<1> DEFINE plain == Plain("tool", "warning")
<1>1. {} \in SUBSET Nat /\ 0 \in Nat /\ 1 \in Nat /\ "warning" \in Name
  BY DEF Name
<1>2. plain \in Message /\ plain.role = "tool" /\ plain.name = "warning"
  BY <1>1 DEF Plain, Message
<1> HIDE DEF plain
<1>3. Warns(c) = [plain EXCEPT !.of = c]
  BY DEF Warns, plain
<1> QED
  BY <1>2, <1>3 DEF Message

\* What is true of the message i stays true when messages are added at the end.
LEMMA StaysPaired ==
  ASSUME NEW s \in Seq(Message), NEW m \in Message, NEW i \in 1 .. Len(s)
  PROVE  /\ Append(s, m)[i] = s[i]
         /\ Heard(s, i) => Heard(Append(s, m), i)
         /\ Owned(s, i) => Owned(Append(s, m), i)
<1> DEFINE t == Append(s, m)
<1>1. Len(s) \in Nat /\ Len(t) = Len(s) + 1 /\ \A j \in 1 .. Len(s) : t[j] = s[j]
  BY SeqFacts, AppendProperties
<1> HIDE DEF t
<1>2. ASSUME NEW h \in 1 .. Len(s), NEW k \in 1 .. Len(s), Follows(s, h, k) PROVE Follows(t, h, k)
  BY <1>1, <1>2 DEF Follows
<1>3. ASSUME Heard(s, i) PROVE Heard(t, i)
  <2> SUFFICES ASSUME NEW c \in t[i].calls PROVE \E k \in 1 .. Len(t) : Follows(t, i, k) /\ t[k].of = c
    BY DEF Heard
  <2>1. PICK k \in 1 .. Len(s) : Follows(s, i, k) /\ s[k].of = c
    BY <1>1, <1>3 DEF Heard
  <2>2. k \in 1 .. Len(t)
    BY <1>1
  <2> QED
    BY <1>1, <1>2, <2>1, <2>2
<1>4. ASSUME Owned(s, i) PROVE Owned(t, i)
  <2>1. PICK h \in 1 .. Len(s) : Calls(s[h]) /\ Follows(s, h, i)
    BY <1>4 DEF Owned
  <2>2. h \in 1 .. Len(t)
    BY <1>1
  <2> QED
    BY <1>1, <1>2, <2>1, <2>2 DEF Owned
<1> QED
  BY <1>1, <1>3, <1>4 DEF t

LEMMA AppendPlain ==
  ASSUME NEW s \in Seq(Message), NEW m \in Message, m.role # "tool", ~ Calls(m)
  PROVE  /\ Append(s, m) \in Seq(Message)
         /\ Whole(s) => Whole(Append(s, m))
         /\ Headed(s) => Headed(Append(s, m)) /\ Append(s, m)[1] = s[1]
<1> DEFINE t == Append(s, m)
<1>1. t \in Seq(Message) /\ Len(s) \in Nat /\ Len(t) = Len(s) + 1 /\ t[Len(s) + 1] = m /\ \A j \in 1 .. Len(s) : t[j] = s[j]
  BY SeqFacts, AppendProperties
<1>2. \A i \in 1 .. Len(s) : (Heard(s, i) => Heard(t, i)) /\ (Owned(s, i) => Owned(t, i))
  BY StaysPaired
<1> HIDE DEF t
<1>3. ASSUME Whole(s), NEW i \in 1 .. Len(t) PROVE (Calls(t[i]) => Heard(t, i)) /\ (t[i].role = "tool" => Owned(t, i))
  <2>1. CASE i = Len(s) + 1
    BY <1>1, <2>1
  <2>2. CASE i # Len(s) + 1
    <3>1. i \in 1 .. Len(s)
      BY <1>1, <2>2
    <3>2. t[i] = s[i]
      BY <3>1, <1>1
    <3> QED
      BY <1>2, <1>3, <3>1, <3>2 DEF Whole
  <2> QED
    BY <2>1, <2>2
<1>4. ASSUME Headed(s) PROVE Headed(t) /\ t[1] = s[1]
  BY <1>1, <1>4 DEF Headed
<1> QED
  BY <1>1, <1>3, <1>4 DEF t, Whole

\* One whole conversation after the other is whole.
LEMMA ConcatWhole ==
  ASSUME NEW a \in Seq(Message), NEW b \in Seq(Message)
  PROVE  /\ a \o b \in Seq(Message)
         /\ Whole(a) /\ Whole(b) => Whole(a \o b)
         /\ Headed(a) => Headed(a \o b) /\ (a \o b)[1] = a[1]
<1> DEFINE t == a \o b
           n == Len(a)
<1>1. /\ t \in Seq(Message) /\ n \in Nat /\ Len(b) \in Nat /\ Len(t) = n + Len(b)
      /\ \A i \in 1 .. n + Len(b) : t[i] = IF i <= n THEN a[i] ELSE b[i - n]
  BY ConcatProperties, SeqFacts
<1> HIDE DEF t, n
<1>2. \A i \in 1 .. n : i \in 1 .. Len(t) /\ t[i] = a[i]
  BY <1>1
<1>3. \A i \in 1 .. Len(b) : i + n \in 1 .. Len(t) /\ t[i + n] = b[i]
  <2> SUFFICES ASSUME NEW i \in 1 .. Len(b) PROVE i + n \in 1 .. Len(t) /\ t[i + n] = b[i]
    OBVIOUS
  <2>1. i + n \in 1 .. n + Len(b) /\ ~ (i + n <= n) /\ (i + n) - n = i
    BY <1>1
  <2> QED
    BY <1>1, <2>1
<1>4. ASSUME NEW h \in 1 .. n, NEW k \in 1 .. n, Follows(a, h, k) PROVE Follows(t, h, k)
  BY <1>1, <1>2, <1>4 DEF Follows
<1>5. ASSUME NEW h \in 1 .. Len(b), NEW k \in 1 .. Len(b), Follows(b, h, k) PROVE Follows(t, h + n, k + n)
  <2>1. h < k /\ \A j \in h + 1 .. k : b[j].role = "tool"
    BY <1>5 DEF Follows
  <2>2. ASSUME NEW j \in (h + n) + 1 .. k + n PROVE t[j].role = "tool"
    <3>1. j - n \in h + 1 .. k /\ j - n \in 1 .. Len(b) /\ (j - n) + n = j
      BY <1>1, <2>1
    <3> QED
      BY <1>3, <2>1, <3>1
  <2> QED
    BY <1>1, <2>1, <2>2 DEF Follows
<1>6. ASSUME Whole(a), NEW i \in 1 .. n PROVE (Calls(t[i]) => Heard(t, i)) /\ (t[i].role = "tool" => Owned(t, i))
  <2>1. ASSUME Calls(t[i]) PROVE Heard(t, i)
    <3>1. Heard(a, i)
      BY <1>2, <1>6, <2>1 DEF Whole, n
    <3> SUFFICES ASSUME NEW c \in t[i].calls PROVE \E k \in 1 .. Len(t) : Follows(t, i, k) /\ t[k].of = c
      BY DEF Heard
    <3>2. PICK k \in 1 .. n : Follows(a, i, k) /\ a[k].of = c
      BY <1>2, <3>1 DEF Heard, n
    <3> QED
      BY <1>2, <1>4, <3>2
  <2>2. ASSUME t[i].role = "tool" PROVE Owned(t, i)
    <3>1. PICK h \in 1 .. n : Calls(a[h]) /\ Follows(a, h, i)
      BY <1>2, <1>6, <2>2 DEF Whole, Owned, n
    <3> QED
      BY <1>2, <1>4, <3>1 DEF Owned
  <2> QED
    BY <2>1, <2>2
<1>7. ASSUME Whole(b), NEW i \in 1 .. Len(b)
      PROVE (Calls(t[i + n]) => Heard(t, i + n)) /\ (t[i + n].role = "tool" => Owned(t, i + n))
  <2>1. ASSUME Calls(t[i + n]) PROVE Heard(t, i + n)
    <3>1. Heard(b, i)
      BY <1>3, <1>7, <2>1 DEF Whole
    <3> SUFFICES ASSUME NEW c \in t[i + n].calls PROVE \E k \in 1 .. Len(t) : Follows(t, i + n, k) /\ t[k].of = c
      BY DEF Heard
    <3>2. PICK k \in 1 .. Len(b) : Follows(b, i, k) /\ b[k].of = c
      BY <1>3, <3>1 DEF Heard
    <3> QED
      BY <1>3, <1>5, <3>2
  <2>2. ASSUME t[i + n].role = "tool" PROVE Owned(t, i + n)
    <3>1. PICK h \in 1 .. Len(b) : Calls(b[h]) /\ Follows(b, h, i)
      BY <1>3, <1>7, <2>2 DEF Whole, Owned
    <3> QED
      BY <1>3, <1>5, <3>1 DEF Owned
  <2> QED
    BY <2>1, <2>2
<1>8. ASSUME Whole(a), Whole(b), NEW i \in 1 .. Len(t)
      PROVE (Calls(t[i]) => Heard(t, i)) /\ (t[i].role = "tool" => Owned(t, i))
  <2>1. CASE i <= n
    <3>1. i \in 1 .. n
      BY <1>1, <2>1
    <3> QED
      BY <1>6, <1>8, <3>1
  <2>2. CASE ~ (i <= n)
    <3>1. i - n \in 1 .. Len(b) /\ (i - n) + n = i
      BY <1>1, <2>2
    <3> QED
      BY <1>7, <1>8, <3>1
  <2> QED
    BY <2>1, <2>2
<1>9. ASSUME Headed(a) PROVE Headed(t) /\ t[1] = a[1]
  BY <1>1, <1>9 DEF Headed, n
<1> QED
  BY <1>1, <1>8, <1>9 DEF t, Whole

\* A single message.
LEMMA OneWhole ==
  ASSUME NEW m \in Message, m.role # "tool", ~ Calls(m)
  PROVE  <<m>> \in Seq(Message) /\ Whole(<<m>>) /\ Len(<<m>>) = 1 /\ <<m>>[1] = m
<1>1. <<m>> \in Seq(Message) /\ Len(<<m>>) = 1 /\ <<m>>[1] = m
  OBVIOUS
<1>2. \A i \in 1 .. Len(<<m>>) : <<m>>[i] = m
  BY <1>1
<1> QED
  BY <1>1, <1>2 DEF Whole

LEMMA NoneWhole == <<>> \in Seq(Message) /\ Whole(<<>>) /\ Len(<<>>) = 0
BY EmptySeq DEF Whole

\* The rest of a conversation that begins with a system message.
LEMMA TailWhole ==
  ASSUME NEW s \in Seq(Message), Headed(s), Whole(s)
  PROVE  Tail(s) \in Seq(Message) /\ Whole(Tail(s))
<1> DEFINE t == Tail(s)
<1>1. /\ t \in Seq(Message) /\ Len(s) \in Nat /\ Len(s) # 0 /\ Len(t) = Len(s) - 1
      /\ \A i \in 1 .. Len(t) : t[i] = s[i + 1]
  <2>1. s # <<>>
    BY EmptySeq DEF Headed
  <2> QED
    BY <2>1, HeadTailProperties, SeqFacts DEF Headed
<1> HIDE DEF t
<1>2. ASSUME NEW h \in 1 .. Len(t), NEW k \in 1 .. Len(t), Follows(s, h + 1, k + 1) PROVE Follows(t, h, k)
  <2>1. h < k /\ \A j \in (h + 1) + 1 .. k + 1 : s[j].role = "tool"
    BY <1>1, <1>2 DEF Follows
  <2>2. ASSUME NEW j \in h + 1 .. k PROVE t[j].role = "tool"
    <3>1. j + 1 \in (h + 1) + 1 .. k + 1 /\ j \in 1 .. Len(t)
      BY <1>1
    <3> QED
      BY <1>1, <2>1, <3>1
  <2> QED
    BY <2>1, <2>2 DEF Follows
<1>3. ~ Calls(s[1])
  BY DEF Headed, Calls
<1>4. ASSUME NEW i \in 1 .. Len(t), Calls(t[i]) PROVE Heard(t, i)
  <2>1. i + 1 \in 1 .. Len(s) /\ t[i] = s[i + 1]
    BY <1>1
  <2>2. Heard(s, i + 1)
    BY <1>4, <2>1 DEF Whole
  <2> SUFFICES ASSUME NEW c \in t[i].calls PROVE \E k \in 1 .. Len(t) : Follows(t, i, k) /\ t[k].of = c
    BY DEF Heard
  <2>3. PICK k \in 1 .. Len(s) : Follows(s, i + 1, k) /\ s[k].of = c
    BY <2>1, <2>2 DEF Heard
  <2>4. k - 1 \in 1 .. Len(t) /\ (k - 1) + 1 = k
    BY <1>1, <2>3 DEF Follows
  <2> QED
    BY <1>1, <1>2, <2>3, <2>4
<1>5. ASSUME NEW i \in 1 .. Len(t), t[i].role = "tool" PROVE Owned(t, i)
  <2>1. i + 1 \in 1 .. Len(s) /\ t[i] = s[i + 1]
    BY <1>1
  <2>2. PICK h \in 1 .. Len(s) : Calls(s[h]) /\ Follows(s, h, i + 1)
    BY <1>5, <2>1 DEF Whole, Owned
  <2>3. h # 1
    BY <1>3, <2>2
  <2>4. h - 1 \in 1 .. Len(t) /\ (h - 1) + 1 = h
    BY <1>1, <2>2, <2>3 DEF Follows
  <2> QED
    BY <1>1, <1>2, <2>2, <2>4 DEF Owned
<1> QED
  BY <1>1, <1>4, <1>5 DEF t, Whole

\* The message of the tracker at the second place, and nowhere else.
LEMMA TrackedOf ==
  ASSUME NEW s \in Seq(Message), Headed(s), s[1] # System("goal_tracker")
  PROVE  /\ Tracked(s) \in Seq(Message)
         /\ Whole(s) => Whole(Tracked(s))
         /\ Headed(Tracked(s)) /\ Tracked(s)[1] = s[1]
<1> DEFINE I == {i \in DOMAIN s : s[i] # System("goal_tracker")}
           q == Selected(s, I)
           note == System("goal_tracker")
<1>1. Len(s) \in Nat /\ DOMAIN s = 1 .. Len(s) /\ \A i \in 1 .. Len(s) : s[i] \in Message
  BY SeqFacts
<1>2. I \in SUBSET (1 .. Len(s)) /\ 1 \in I
  BY <1>1 DEF Headed
<1>3. note \in Message /\ note.role = "system" /\ ~ Calls(note)
  BY SystemIs DEF Name
<1>4. Tracked(s) = <<q[1], note>> \o Tail(q)
  BY DEF Tracked
<1> HIDE DEF note
<1>5. q \in Seq(Message) /\ Headed(q) /\ q[1] = s[1]
  <2>1. Len(q) # 0 /\ q[1] = s[1]
    BY <1>2, SelectedFirst
  <2>2. q \in Seq(Message)
    BY <1>2, SelectedOf
  <2> HIDE DEF q
  <2> QED
    BY <2>1, <2>2 DEF Headed
<1>6. ASSUME Whole(s) PROVE Whole(q)
  <2>1. \A i \in 1 .. Len(s) : s[i].role # "system" => i \in I
    BY <1>1, <1>3 DEF note
  <2>2. ASSUME NEW h \in I, NEW k \in 1 .. Len(s), Calls(s[h]) /\ Follows(s, h, k) PROVE k \in I
    <3>1. s[k].role = "tool"
      BY <1>2, <2>2, FollowsCall
    <3> QED
      BY <2>1, <3>1
  <2>3. ASSUME NEW k \in I, s[k].role = "tool" PROVE \E h \in I : Calls(s[h]) /\ Follows(s, h, k)
    <3>1. PICK h \in 1 .. Len(s) : Calls(s[h]) /\ Follows(s, h, k)
      BY <1>2, <1>6, <2>3 DEF Whole, Owned
    <3>2. s[h].role = "assistant"
      BY <3>1, CallsNoTool
    <3> QED
      BY <2>1, <3>1, <3>2
  <2>4. \A h \in I : Calls(s[h]) => Heard(s, h)
    BY <1>2, <1>6 DEF Whole
  <2> HIDE DEF I
  <2> QED
    BY <1>2, <2>2, <2>3, <2>4, SelectedWhole
<1> HIDE DEF q
<1>7. q[1] \in Message /\ q[1].role = "system" /\ ~ Calls(q[1])
  BY <1>5, SeqFacts DEF Headed, Calls
<1>8. Tail(q) \in Seq(Message)
  <2>1. q # <<>>
    BY <1>5, EmptySeq DEF Headed
  <2> QED
    BY <1>5, <2>1, HeadTailProperties
<1> DEFINE first == <<q[1]>>
           both == Append(first, note)
<1>9. first \in Seq(Message) /\ Whole(first) /\ Headed(first) /\ first[1] = q[1]
  BY <1>7, OneWhole DEF Headed
<1> HIDE DEF first
<1>10. both \in Seq(Message) /\ Whole(both) /\ Headed(both) /\ both[1] = q[1]
  BY <1>3, <1>9, AppendPlain
<1>11. both = <<q[1], note>>
  <2>1. /\ Len(both) = Len(first) + 1 /\ \A i \in 1 .. Len(first) : both[i] = first[i]
        /\ both[Len(first) + 1] = note
    BY <1>3, <1>9, AppendProperties
  <2>2. Len(first) = 1
    BY DEF first
  <2>3. Len(both) = 2 /\ both[1] = q[1] /\ both[2] = note
    BY <1>9, <2>1, <2>2
  <2>4. <<q[1], note>> \in Seq(Message) /\ Len(<<q[1], note>>) = 2
    BY <1>3, <1>7
  <2> HIDE DEF both
  <2>5. \A i \in 1 .. Len(both) : both[i] = <<q[1], note>>[i]
    BY <2>3
  <2> QED
    BY <1>10, <2>3, <2>4, <2>5, SeqEqual
<1> HIDE DEF both
<1>12. Tracked(s) = both \o Tail(q)
  BY <1>4, <1>11
<1>13. Whole(s) => Whole(Tail(q))
  BY <1>5, <1>6, TailWhole
<1>14. /\ both \o Tail(q) \in Seq(Message)
       /\ Whole(both) /\ Whole(Tail(q)) => Whole(both \o Tail(q))
       /\ Headed(both) => Headed(both \o Tail(q)) /\ (both \o Tail(q))[1] = both[1]
  BY <1>8, <1>10, ConcatWhole
<1> QED
  BY <1>5, <1>10, <1>12, <1>13, <1>14

\* What a run begins with, whatever is stored of the conversation.
LEMMA PreparedOf ==
  ASSUME transcript \in Seq(Message), NEW continues \in BOOLEAN, NEW scheduled \in BOOLEAN
  PROVE  LET s == Prepared(continues, scheduled) IN
         s \in Seq(Message) /\ Whole(s) /\ Headed(s) /\ s[1] = System("prompt")
<1> DEFINE window == SubSeq(transcript, Max({1, Len(transcript) - MaxWindow + 1}), Len(transcript))
           Extra(b, name) == IF b THEN <<System(name)>> ELSE <<>>
           x == <<System("prompt")>>
           y == Extra(scheduled, "scheduled_execution_mode")
           z == Extra(continues, "run_checkpoint")
           w == Bounded(Sanitized(WithoutFinished(Sanitized(window))))
           v == Extra(continues, "goal_tracker")
<1>1. window \in Seq(Message)
  <2> DEFINE n == Len(transcript)
             first == Max({1, n - MaxWindow + 1})
  <2>1. n \in Nat /\ MaxWindow \in Nat
    BY SeqFacts, TurnAssumption
  <2> HIDE DEF n
  <2> DEFINE k == n - MaxWindow + 1
  <2>2. k \in Int
    BY <2>1
  <2> HIDE DEF k
  <2>3. \E a \in {1, k} : \A b \in {1, k} : a >= b
    BY <2>2
  <2>4. Max({1, k}) \in {1, k} /\ \A b \in {1, k} : Max({1, k}) >= b
    BY <2>3 DEF Max
  <2>5. first \in Int /\ first >= 1
    BY <2>2, <2>4 DEF k
  <2> HIDE DEF first
  <2>6. \A i \in first .. n : i \in 1 .. Len(transcript)
    BY <2>1, <2>5 DEF n
  <2>7. \A i \in first .. n : transcript[i] \in Message
    BY <2>6, SeqFacts
  <2>8. n \in Int
    BY <2>1
  <2>9. SubSeq(transcript, first, n) \in Seq(Message)
    BY <2>5, <2>7, <2>8, SubSeqProperties
  <2> QED
    BY <2>9 DEF first, n
<1> HIDE DEF window
<1>2. w \in Seq(Message) /\ Whole(w)
  <2> DEFINE a == Sanitized(window)
             b == WithoutFinished(a)
             c == Sanitized(b)
  <2>1. a \in Seq(Message)
    BY <1>1, SanitizedWhole
  <2> HIDE DEF a
  <2>2. b \in Seq(Message)
    BY <2>1, WithoutFinishedIs
  <2> HIDE DEF b
  <2>3. c \in Seq(Message) /\ Whole(c)
    BY <2>2, SanitizedWhole
  <2> HIDE DEF c
  <2>4. Bounded(c) \in Seq(Message) /\ Whole(Bounded(c))
    BY <2>3, BoundedOf
  <2> QED
    BY <2>4 DEF a, b, c
<1> HIDE DEF w
<1>3. ASSUME NEW m \in {"scheduled_execution_mode", "run_checkpoint", "goal_tracker"}, NEW b \in BOOLEAN
      PROVE  Extra(b, m) \in Seq(Message) /\ Whole(Extra(b, m))
  <2>1. m \in Name
    BY DEF Name
  <2>2. System(m) \in Message /\ System(m).role = "system" /\ ~ Calls(System(m))
    BY <2>1, SystemIs
  <2> DEFINE note == System(m)
  <2> HIDE DEF note
  <2>3. <<note>> \in Seq(Message) /\ Whole(<<note>>)
    <3>1. note \in Message /\ note.role # "tool" /\ ~ Calls(note)
      BY <2>2 DEF note
    <3> QED
      BY <3>1, OneWhole
  <2> QED
    BY <2>3, NoneWhole DEF note
<1>4. y \in Seq(Message) /\ Whole(y) /\ z \in Seq(Message) /\ Whole(z) /\ v \in Seq(Message) /\ Whole(v)
  BY <1>3
<1> HIDE DEF y, z, v
<1>5. x \in Seq(Message) /\ Whole(x) /\ Headed(x) /\ x[1] = System("prompt")
  <2> DEFINE note == System("prompt")
  <2>1. note \in Message /\ note.role = "system" /\ ~ Calls(note)
    BY SystemIs DEF Name
  <2> HIDE DEF note
  <2>2. <<note>> \in Seq(Message) /\ Whole(<<note>>) /\ Len(<<note>>) = 1 /\ <<note>>[1] = note
    BY <2>1, OneWhole
  <2>3. Headed(<<note>>)
    BY <2>1, <2>2 DEF Headed
  <2> QED
    BY <2>2, <2>3 DEF note
<1> HIDE DEF x
<1> DEFINE xy == x \o y
           xyz == xy \o z
           xyzw == xyz \o w
           s == xyzw \o v
<1>6. xy \in Seq(Message) /\ Whole(xy) /\ Headed(xy) /\ xy[1] = System("prompt")
  BY <1>4, <1>5, ConcatWhole
<1> HIDE DEF xy
<1>7. xyz \in Seq(Message) /\ Whole(xyz) /\ Headed(xyz) /\ xyz[1] = System("prompt")
  BY <1>4, <1>6, ConcatWhole
<1> HIDE DEF xyz
<1>8. xyzw \in Seq(Message) /\ Whole(xyzw) /\ Headed(xyzw) /\ xyzw[1] = System("prompt")
  BY <1>2, <1>7, ConcatWhole
<1> HIDE DEF xyzw
<1>9. s \in Seq(Message) /\ Whole(s) /\ Headed(s) /\ s[1] = System("prompt")
  BY <1>4, <1>8, ConcatWhole
<1>10. Prepared(continues, scheduled) = s
  BY DEF Prepared, window, w, v, x, y, z, xy, xyz, xyzw
<1> QED
  BY <1>9, <1>10

LEMMA PromptIsNoTracker == System("prompt") # System("goal_tracker")
<1>1. System("prompt").name = "prompt" /\ System("goal_tracker").name = "goal_tracker"
  BY DEF System, Plain
<1> QED
  BY <1>1

\* A call is recorded, its answers come, and with the last one the context is whole.
LEMMA CallOpens ==
  ASSUME NEW s \in Seq(Message), Whole(s), NEW asked \in SUBSET Nat, asked # {}, NEW calls,
         \A c \in asked : Waits(calls, c)
  PROVE  Opened(Append(s, Asks(asked)), Len(s) + 1, asked, calls)
<1> DEFINE t == Append(s, Asks(asked))
<1>1. Asks(asked) \in Message /\ Calls(Asks(asked)) /\ Asks(asked).calls = asked
  BY AsksIs
<1>2. Len(s) \in Nat /\ Len(t) = Len(s) + 1 /\ t[Len(s) + 1] = Asks(asked)
  BY <1>1, SeqFacts, AppendProperties
<1>3. \A i \in 1 .. Len(s) : t[i] = s[i] /\ (Heard(s, i) => Heard(t, i)) /\ (Owned(s, i) => Owned(t, i))
  BY <1>1, StaysPaired
<1> HIDE DEF t
<1>4. \A i \in 1 .. Len(s) : (Calls(t[i]) => Heard(t, i)) /\ (t[i].role = "tool" => Owned(t, i))
  BY <1>3 DEF Whole
<1>5. Opened(t, Len(s) + 1, asked, calls)
  BY <1>1, <1>2, <1>4 DEF Opened
<1> QED
  BY <1>5 DEF t

LEMMA CallAnswered ==
  ASSUME NEW s \in Seq(Message), NEW h \in Nat, NEW asked \in SUBSET Nat, NEW calls, NEW rest, NEW c \in Nat,
         Opened(s, h, asked, calls), \A d \in asked : Waits(calls, d) => d = c \/ Waits(rest, d)
  PROVE  Opened(Append(s, Answers(c)), h, asked, rest)
<1> DEFINE t == Append(s, Answers(c))
<1>1. Answers(c) \in Message /\ Answers(c).role = "tool" /\ Answers(c).of = c
  BY AnswersIs
<1>2. Len(s) \in Nat /\ Len(t) = Len(s) + 1 /\ t[Len(s) + 1] = Answers(c)
  BY <1>1, SeqFacts, AppendProperties
<1>3. \A i \in 1 .. Len(s) : t[i] = s[i] /\ (Heard(s, i) => Heard(t, i)) /\ (Owned(s, i) => Owned(t, i))
  BY <1>1, StaysPaired
<1> HIDE DEF t
<1>4. /\ h \in 1 .. Len(s) /\ Calls(s[h]) /\ s[h].calls = asked
      /\ \A i \in h + 1 .. Len(s) : s[i].role = "tool"
      /\ \A d \in asked : Waits(calls, d) \/ \E k \in h + 1 .. Len(s) : s[k].of = d
      /\ \A i \in 1 .. h - 1 : (Calls(s[i]) => Heard(s, i)) /\ (s[i].role = "tool" => Owned(s, i))
  BY DEF Opened
<1>5. h \in 1 .. Len(t) /\ t[h] = s[h]
  BY <1>2, <1>3, <1>4
<1>6. ASSUME NEW i \in h + 1 .. Len(t) PROVE t[i].role = "tool"
  <2>1. CASE i = Len(s) + 1
    BY <1>1, <1>2, <2>1
  <2>2. CASE i # Len(s) + 1
    <3>1. i \in h + 1 .. Len(s) /\ i \in 1 .. Len(s)
      BY <1>2, <1>4, <2>2
    <3> QED
      BY <1>3, <1>4, <3>1
  <2> QED
    BY <2>1, <2>2
<1>7. ASSUME NEW d \in asked PROVE Waits(rest, d) \/ \E k \in h + 1 .. Len(t) : t[k].of = d
  <2>1. CASE \E k \in h + 1 .. Len(s) : s[k].of = d
    <3>1. PICK k \in h + 1 .. Len(s) : s[k].of = d
      BY <2>1
    <3>2. k \in 1 .. Len(s) /\ k \in h + 1 .. Len(t)
      BY <1>2, <1>4
    <3> QED
      BY <1>3, <3>1, <3>2
  <2>2. CASE Waits(calls, d)
    <3>1. Len(s) + 1 \in h + 1 .. Len(t) /\ t[Len(s) + 1].of = c
      BY <1>1, <1>2, <1>4
    <3> QED
      BY <2>2, <3>1
  <2> QED
    BY <1>4, <2>1, <2>2
<1>8. \A i \in 1 .. h - 1 : (Calls(t[i]) => Heard(t, i)) /\ (t[i].role = "tool" => Owned(t, i))
  <2>1. \A i \in 1 .. h - 1 : i \in 1 .. Len(s)
    BY <1>2, <1>4
  <2> QED
    BY <1>3, <1>4, <2>1
<1>9. Opened(t, h, asked, rest)
  BY <1>4, <1>5, <1>6, <1>7, <1>8 DEF Opened
<1> QED
  BY <1>9 DEF t

LEMMA AllAnswered ==
  ASSUME NEW s \in Seq(Message), NEW h \in Nat, NEW asked, NEW calls, Opened(s, h, asked, calls),
         \A c \in asked : ~ Waits(calls, c)
  PROVE  Whole(s)
<1>1. /\ h \in 1 .. Len(s) /\ Calls(s[h]) /\ s[h].calls = asked
      /\ \A i \in h + 1 .. Len(s) : s[i].role = "tool"
      /\ \A d \in asked : \E k \in h + 1 .. Len(s) : s[k].of = d
      /\ \A i \in 1 .. h - 1 : (Calls(s[i]) => Heard(s, i)) /\ (s[i].role = "tool" => Owned(s, i))
  BY DEF Opened
<1>2. Len(s) \in Nat
  BY SeqFacts
<1>3. \A k \in h + 1 .. Len(s) : k \in 1 .. Len(s) /\ Follows(s, h, k)
  BY <1>1, <1>2 DEF Follows
<1>4. ASSUME NEW i \in 1 .. Len(s) PROVE (Calls(s[i]) => Heard(s, i)) /\ (s[i].role = "tool" => Owned(s, i))
  <2>1. CASE i \in 1 .. h - 1
    BY <1>1, <2>1
  <2>2. CASE i = h
    BY <1>1, <1>3, <2>2, CallsNoTool DEF Heard
  <2>3. CASE i \in h + 1 .. Len(s)
    BY <1>1, <1>3, <2>3, CallsNoTool DEF Owned
  <2> QED
    BY <1>1, <1>2, <2>1, <2>2, <2>3
<1> QED
  BY <1>4 DEF Whole

-------------------------------------------------------------------------------
(* The types *)

Outcomes == {"none", "interrupted", "deferred", "cancelled", "failed", "final", "waiting"}

LEMMA IdleIs ==
  ASSUME NEW o \in Outcomes
  PROVE  /\ Idle(o) \in Run
         /\ Idle(o).phase = "idle" /\ Idle(o).from = {} /\ Idle(o).reply = <<>> /\ Idle(o).left = <<>>
         /\ Idle(o).outcome = o /\ Idle(o).previous = FALSE /\ Idle(o).approval = FALSE /\ Idle(o).iteration = 0
<1>1. <<>> \in Seq(Call) /\ {} \in SUBSET Checkpoint /\ {} \in SUBSET Nat /\ 0 \in 0 .. 2 /\ 0 \in 0 .. MaxIterations
  BY TurnAssumption
<1>2. "idle" \in Phases
  BY DEF Phases
<1>3. Idle(o) \in Run
  BY <1>1, <1>2 DEF Idle, Run, Outcomes
<1>4. /\ Idle(o).phase = "idle" /\ Idle(o).from = {} /\ Idle(o).reply = <<>> /\ Idle(o).left = <<>>
      /\ Idle(o).outcome = o /\ Idle(o).previous = FALSE /\ Idle(o).approval = FALSE /\ Idle(o).iteration = 0
  BY DEF Idle
<1> QED
  BY <1>3, <1>4

\* What is left when a run has ended.
Ended(o) ==
  /\ run' \in Run /\ run'.phase = "idle" /\ run'.from = {} /\ run'.reply = <<>> /\ run'.left = <<>>
  /\ run'.outcome = o /\ run'.scheduled = run.scheduled
  /\ context' = <<>> /\ chained' = <<>> /\ issued' = issued

LEMMA EndsAs ==
  ASSUME NEW o \in Outcomes, run \in Run, Ends(o)
  PROVE  Ended(o)
<1> DEFINE i == Idle(o)
<1>1. /\ i \in Run /\ i.phase = "idle" /\ i.from = {} /\ i.reply = <<>> /\ i.left = <<>> /\ i.outcome = o
  BY IdleIs
<1>2. run' = [i EXCEPT !.scheduled = run.scheduled] /\ context' = <<>> /\ chained' = <<>> /\ issued' = issued
  BY DEF Ends
<1> HIDE DEF i
<1>3. run.scheduled \in BOOLEAN
  BY DEF Run
<1>4. run' \in Run
  BY <1>1, <1>2, <1>3 DEF Run
<1>5. run'.phase = i.phase /\ run'.from = i.from /\ run'.reply = i.reply /\ run'.left = i.left /\ run'.outcome = i.outcome
  BY <1>1, <1>2 DEF Run
<1>6. run'.scheduled = run.scheduled
  BY <1>1, <1>2 DEF Run
<1> QED
  BY <1>1, <1>2, <1>4, <1>5, <1>6 DEF Ended

\* A row that is set.
LEMMA RowSet ==
  ASSUME row \in Seq(Statuses), NEW i \in 1 .. Len(row), NEW x \in Statuses
  PROVE  LET r == [row EXCEPT ![i] = x] IN
         /\ r \in Seq(Statuses) /\ Len(r) = Len(row)
         /\ \A j \in 1 .. Len(row) : r[j] = IF j = i THEN x ELSE row[j]
BY ExceptSeq

\* Set of the run that goes on.
RowIs(x) ==
  /\ row' \in Seq(Statuses) /\ Len(row') = Len(row)
  /\ \A j \in 1 .. Len(row) : row'[j] = IF j = Len(row) THEN x ELSE row[j]

LEMMA RowAs ==
  ASSUME Types, Refers, run.phase # "idle", NEW x \in Statuses, Row(x)
  PROVE  RowIs(x)
<1>1. row \in Seq(Statuses) /\ Len(row) \in Nat /\ Len(row) # 0
  BY SeqFacts DEF Types, Refers
<1>2. Len(row) \in 1 .. Len(row)
  BY <1>1
<1>3. row' = [row EXCEPT ![Len(row)] = x]
  BY DEF Row
<1> QED
  BY <1>1, <1>2, <1>3, RowSet DEF RowIs

LEMMA StatusesAre ==
  {"running", "waiting_for_approval", "completed", "queued", "cancelled", "failed", "interrupted"} \subseteq Statuses
BY DEF Statuses

\* The four ways in which a run ends itself.
LEMMA DeferTypes ==
  ASSUME Types, Refers, run.phase # "idle", Defer
  PROVE  Types' /\ RowIs("queued") /\ Ended("deferred")
<1>1. RowIs("queued")
  BY RowAs, StatusesAre DEF Defer
<1>2. Ended("deferred")
  BY EndsAs DEF Defer, Types, Outcomes
<1>3. [status |-> "active", done |-> 0] \in Goal
  BY DEF Goal
<1>4. goals' \in Seq(Goal)
  BY <1>3, AppendProperties DEF Defer, Types
<1>5. saved' \subseteq Checkpoint
  <2> DEFINE g == IF tracker.goal # 0 THEN tracker.goal ELSE Len(goals) + 1
             c == [goal |-> g, reads |-> tracker.reads, scheduled |-> run.scheduled]
  <2>1. g \in Nat
    BY SeqFacts DEF Types, Tracker
  <2>2. saved' = saved \union {c}
    BY DEF Defer
  <2> HIDE DEF g
  <2>3. c \in Checkpoint
    BY <2>1 DEF Types, Tracker, Run, Checkpoint
  <2> QED
    BY <2>2, <2>3 DEF Types
<1>6. UNCHANGED <<transcript, actions, tracker>>
  BY DEF Defer
<1> QED
  BY <1>1, <1>2, <1>4, <1>5, <1>6, NoneWhole DEF Types, Ended, RowIs

LEMMA CancelledTypes ==
  ASSUME Types, Refers, run.phase # "idle", Cancelled
  PROVE  Types' /\ RowIs("cancelled") /\ Ended("cancelled")
<1>1. RowIs("cancelled")
  BY RowAs, StatusesAre DEF Cancelled
<1>2. Ended("cancelled")
  BY EndsAs DEF Cancelled, Types, Outcomes
<1>3. UNCHANGED <<transcript, goals, actions, saved, tracker>>
  BY DEF Cancelled
<1> QED
  BY <1>1, <1>2, <1>3, NoneWhole DEF Types, Ended, RowIs

LEMMA FailTypes ==
  ASSUME Types, Refers, run.phase # "idle", Fail
  PROVE  Types' /\ (RowIs("failed") \/ (row[Len(row)] = "completed" /\ row' = row)) /\ Ended("failed")
<1>1. RowIs("failed") \/ (row[Len(row)] = "completed" /\ row' = row)
  BY RowAs, StatusesAre DEF Fail
<1>2. Ended("failed")
  BY EndsAs DEF Fail, Types, Outcomes
<1>3. UNCHANGED <<transcript, goals, actions, tracker>> /\ saved' = saved \union run.from
  BY DEF Fail, Released
<1>4. saved' \subseteq Checkpoint
  BY <1>3 DEF Types, Run
<1>5. row' \in Seq(Statuses)
  BY <1>1 DEF Types, RowIs
<1> QED
  BY <1>1, <1>2, <1>3, <1>4, <1>5, NoneWhole DEF Types, Ended

LEMMA StoresTypes ==
  ASSUME Types, Refers, run.phase # "idle", Stores
  PROVE  Types' /\ RowIs("completed") /\ Ended("final")
<1>1. RowIs("completed")
  BY RowAs, StatusesAre DEF Stores
<1>2. Ended("final")
  BY EndsAs DEF Stores, Types, Outcomes
<1>3. UNCHANGED <<goals, actions, saved, tracker>>
  BY DEF Stores
<1>4. transcript' \in Seq(Message)
  BY MessagesAre, AppendProperties DEF Stores, Types
<1> QED
  BY <1>1, <1>2, <1>3, <1>4, NoneWhole DEF Types, Ended, RowIs

-------------------------------------------------------------------------------
(* Calls *)

CallFacts(calls) == Len(calls) \in Nat /\ \A n \in 1 .. Len(calls) : calls[n] \in Call /\ calls[n].id \in Nat

LEMMA CallsAre ==
  ASSUME NEW calls \in Seq(Call)
  PROVE  CallFacts(calls)
<1>1. \A c \in Call : c.id \in Nat
  BY DEF Call
<1> QED
  BY <1>1, SeqFacts DEF CallFacts

\* The results of the calls at I, and after them the calls at J.
Results(calls, I, J, bad) ==
  [n \in 1 .. Len(Selected(calls, I)) |->
     LET c == Selected(calls, I)[n] IN [c EXCEPT !.ok = c.id \notin bad]]
  \o Selected(calls, J)

\* Those of the calls at I, each once.
Carries(rest, calls, I) ==
  /\ rest \in Seq(Call)
  /\ \A c \in Nat : Waits(rest, c) <=> \E n \in I : calls[n].id = c
  /\ Numbers(calls) => Numbers(rest)

LEMMA SelectedCarries ==
  ASSUME NEW calls \in Seq(Call), NEW I \in SUBSET (1 .. Len(calls)), NEW rest \in Seq(Call),
         Len(rest) = Len(Selected(calls, I)), \A n \in 1 .. Len(rest) : rest[n].id = Selected(calls, I)[n].id
  PROVE  Carries(rest, calls, I)
<1> DEFINE N == Cardinality(I)
<1>1. Len(rest) = N /\ N \in Nat /\ Len(calls) \in Nat
  BY SelectedOf, SeqFacts
<1>2. PICK e : Picks(calls, I, e)
  BY SelectedOf
<1> HIDE DEF N
<1>3. /\ e \in [1 .. N -> I]
      /\ \A n \in 1 .. N : Selected(calls, I)[n] = calls[e[n]]
      /\ \A i \in I : \E n \in 1 .. N : e[n] = i
      /\ \A m, n \in 1 .. N : m < n => e[m] < e[n]
  BY <1>2 DEF Picks, N
<1>4. \A n \in 1 .. N : rest[n].id = calls[e[n]].id /\ e[n] \in I /\ e[n] \in 1 .. Len(calls)
  BY <1>1, <1>3
<1>5. \A c \in Nat : Waits(rest, c) <=> \E n \in I : calls[n].id = c
  <2> SUFFICES ASSUME NEW c \in Nat PROVE Waits(rest, c) <=> \E n \in I : calls[n].id = c
    OBVIOUS
  <2>1. ASSUME Waits(rest, c) PROVE \E n \in I : calls[n].id = c
    <3>1. PICK n \in 1 .. N : rest[n].id = c
      BY <1>1, <2>1 DEF Waits
    <3>2. calls[e[n]].id = c /\ e[n] \in I
      BY <1>4, <3>1
    <3> QED
      BY <3>2
  <2>2. ASSUME NEW i \in I, calls[i].id = c PROVE Waits(rest, c)
    <3>1. PICK n \in 1 .. N : e[n] = i
      BY <1>3
    <3>2. rest[n].id = calls[e[n]].id
      BY <1>4
    <3> QED
      BY <1>1, <2>2, <3>1, <3>2 DEF Waits
  <2> QED
    BY <2>1, <2>2
<1>6. ASSUME Numbers(calls), NEW m \in 1 .. N, NEW n \in 1 .. N, rest[m].id = rest[n].id PROVE m = n
  <2>1. e[m] = e[n]
    <3>1. rest[m].id = calls[e[m]].id /\ e[m] \in 1 .. Len(calls)
      BY <1>4
    <3>2. rest[n].id = calls[e[n]].id /\ e[n] \in 1 .. Len(calls)
      BY <1>4
    <3>3. calls[e[m]].id = calls[e[n]].id
      BY <1>6, <3>1, <3>2
    <3> DEFINE x == e[m]  y == e[n]
    <3> HIDE DEF x, y
    <3>4. x \in 1 .. Len(calls) /\ y \in 1 .. Len(calls) /\ calls[x].id = calls[y].id
      BY <3>1, <3>2, <3>3 DEF x, y
    <3>5. x = y
      BY <3>4, <1>6 DEF Numbers
    <3> QED
      BY <3>5 DEF x, y
  <2>2. ~ (m < n) /\ ~ (n < m)
    BY <2>1, <1>1, <1>3, <1>4
  <2> QED
    BY <2>2, <1>1
<1> QED
  BY <1>1, <1>5, <1>6 DEF Carries, Numbers

LEMMA ResultsOf ==
  ASSUME NEW calls \in Seq(Call), NEW I \in SUBSET (1 .. Len(calls)), NEW J \in SUBSET (1 .. Len(calls)),
         I \intersect J = {}, NEW bad
  PROVE  Carries(Results(calls, I, J, bad), calls, I \union J)
<1> DEFINE q == Selected(calls, I)
           a == [n \in 1 .. Len(q) |-> [q[n] EXCEPT !.ok = q[n].id \notin bad]]
           b == Selected(calls, J)
           r == a \o b
<1>1. q \in Seq(Call) /\ b \in Seq(Call)
  BY SelectedOf
<1> HIDE DEF q, b
<1>2. ASSUME NEW n \in 1 .. Len(q) PROVE [q[n] EXCEPT !.ok = q[n].id \notin bad] \in Call
  <2>1. q[n] \in Call
    BY <1>1, SeqFacts
  <2> QED
    BY <2>1 DEF Call
<1>3. a \in Seq(Call) /\ Len(a) = Len(q)
  <2>1. a \in [1 .. Len(q) -> Call]
    BY <1>2
  <2> HIDE DEF a
  <2>2. Len(q) \in Nat
    BY <1>1, SeqFacts
  <2> QED
    BY <2>1, <2>2, FunctionIsSeq
<1>4. \A n \in 1 .. Len(q) : a[n].id = q[n].id
  <2> SUFFICES ASSUME NEW n \in 1 .. Len(q) PROVE a[n].id = q[n].id
    OBVIOUS
  <2>1. q[n] \in Call /\ a[n] = [q[n] EXCEPT !.ok = q[n].id \notin bad]
    BY <1>1, SeqFacts
  <2> QED
    BY <2>1 DEF Call
<1> HIDE DEF a
<1>5. Carries(a, calls, I)
  BY <1>3, <1>4, SelectedCarries DEF q
<1>6. Carries(b, calls, J)
  BY <1>1, SelectedCarries DEF b
<1>7. /\ r \in Seq(Call) /\ Len(r) = Len(a) + Len(b) /\ Len(a) \in Nat /\ Len(b) \in Nat
      /\ \A i \in 1 .. Len(a) + Len(b) : r[i] = IF i <= Len(a) THEN a[i] ELSE b[i - Len(a)]
  <2>1. Len(a) \in Nat /\ Len(b) \in Nat
    BY <1>1, <1>3, SeqFacts
  <2>2. /\ a \o b \in Seq(Call) /\ Len(a \o b) = Len(a) + Len(b)
        /\ \A i \in 1 .. Len(a) + Len(b) : (a \o b)[i] = IF i <= Len(a) THEN a[i] ELSE b[i - Len(a)]
    BY <1>1, <1>3, ConcatProperties
  <2> QED
    BY <2>1, <2>2
<1> HIDE DEF r
<1>8. \A i \in 1 .. Len(a) : i \in 1 .. Len(r) /\ r[i] = a[i]
  BY <1>7
<1>9. \A i \in 1 .. Len(b) : i + Len(a) \in 1 .. Len(r) /\ r[i + Len(a)] = b[i]
  <2> SUFFICES ASSUME NEW i \in 1 .. Len(b) PROVE i + Len(a) \in 1 .. Len(r) /\ r[i + Len(a)] = b[i]
    OBVIOUS
  <2>1. i + Len(a) \in 1 .. Len(a) + Len(b) /\ ~ (i + Len(a) <= Len(a)) /\ (i + Len(a)) - Len(a) = i
    BY <1>7
  <2> QED
    BY <2>1, <1>7
<1>10. \A i \in 1 .. Len(r) : i \in 1 .. Len(a) \/ (i - Len(a) \in 1 .. Len(b) /\ (i - Len(a)) + Len(a) = i)
  BY <1>7
<1>11. ASSUME NEW c \in Nat PROVE Waits(r, c) <=> Waits(a, c) \/ Waits(b, c)
  <2>1. ASSUME Waits(a, c) \/ Waits(b, c) PROVE Waits(r, c)
    BY <2>1, <1>8, <1>9 DEF Waits
  <2>2. ASSUME Waits(r, c) PROVE Waits(a, c) \/ Waits(b, c)
    <3>1. PICK i \in 1 .. Len(r) : r[i].id = c
      BY <2>2 DEF Waits
    <3>2. CASE i \in 1 .. Len(a)
      BY <3>1, <3>2, <1>8 DEF Waits
    <3>3. CASE i \notin 1 .. Len(a)
      <4>1. i - Len(a) \in 1 .. Len(b) /\ r[i] = b[i - Len(a)]
        BY <3>3, <1>9, <1>10
      <4> QED
        BY <3>1, <4>1 DEF Waits
    <3> QED
      BY <3>2, <3>3
  <2> QED
    BY <2>1, <2>2
<1>12. \A c \in Nat : Waits(r, c) <=> \E n \in I \union J : calls[n].id = c
  BY <1>5, <1>6, <1>11 DEF Carries
<1>13. CallFacts(a) /\ CallFacts(b) /\ CallFacts(calls)
  BY <1>1, <1>3, CallsAre
<1>14. ASSUME Numbers(calls), NEW m \in 1 .. Len(a), NEW n \in 1 .. Len(b), a[m].id = b[n].id PROVE FALSE
  <2>1. a[m].id \in Nat /\ Waits(a, a[m].id) /\ Waits(b, a[m].id)
    BY <1>13, <1>14 DEF Waits, CallFacts
  <2>2. (\E i \in I : calls[i].id = a[m].id) /\ (\E j \in J : calls[j].id = a[m].id)
    BY <2>1, <1>5, <1>6 DEF Carries
  <2> QED
    BY <2>2, <1>14 DEF Numbers
<1>15. ASSUME Numbers(calls), NEW m \in 1 .. Len(r), NEW n \in 1 .. Len(r), r[m].id = r[n].id PROVE m = n
  <2>1. Numbers(a) /\ Numbers(b)
    BY <1>5, <1>6, <1>15 DEF Carries
  <2>2. CASE m \in 1 .. Len(a) /\ n \in 1 .. Len(a)
    BY <2>1, <2>2, <1>8, <1>15 DEF Numbers
  <2>6. ASSUME NEW i \in 1 .. Len(r), i \notin 1 .. Len(a) PROVE i - Len(a) \in 1 .. Len(b) /\ r[i] = b[i - Len(a)]
    <3>1. i - Len(a) \in 1 .. Len(b) /\ (i - Len(a)) + Len(a) = i
      BY <1>10, <2>6
    <3> QED
      BY <3>1, <1>9
  <2>3. CASE m \in 1 .. Len(a) /\ n \notin 1 .. Len(a)
    <3>1. r[m] = a[m] /\ n - Len(a) \in 1 .. Len(b) /\ r[n] = b[n - Len(a)]
      BY <2>3, <2>6, <1>8
    <3> QED
      BY <3>1, <2>3, <1>14, <1>15
  <2>4. CASE m \notin 1 .. Len(a) /\ n \in 1 .. Len(a)
    <3>1. r[n] = a[n] /\ m - Len(a) \in 1 .. Len(b) /\ r[m] = b[m - Len(a)]
      BY <2>4, <2>6, <1>8
    <3> QED
      BY <3>1, <2>4, <1>14, <1>15
  <2>5. CASE m \notin 1 .. Len(a) /\ n \notin 1 .. Len(a)
    <3>1. m - Len(a) \in 1 .. Len(b) /\ r[m] = b[m - Len(a)]
      BY <2>5, <2>6
    <3>2. n - Len(a) \in 1 .. Len(b) /\ r[n] = b[n - Len(a)]
      BY <2>5, <2>6
    <3>3. m - Len(a) = n - Len(a)
      BY <2>1, <3>1, <3>2, <1>15 DEF Numbers
    <3> QED
      BY <3>3, <1>7
  <2> QED
    BY <2>2, <2>3, <2>4, <2>5
<1>16. Carries(r, calls, I \union J)
  BY <1>7, <1>12, <1>15 DEF Carries, Numbers
<1>17. Results(calls, I, J, bad) = r
  BY DEF Results, r, a, b, q
<1> QED
  BY <1>16, <1>17

\* Two states of one run.
Alike(q, r) ==
  /\ q \in Run /\ q.from = r.from /\ q.scheduled = r.scheduled /\ q.outcome = r.outcome /\ q.asked = r.asked
  /\ q.previous = r.previous /\ q.iteration = r.iteration

LEMMA WillAnswerIs ==
  ASSUME run \in Run, NEW calls \in Seq(Call)
  PROVE  LET r == WillAnswer(calls) IN
         Alike(r, run) /\ r.phase = "answers" /\ r.reply = <<>> /\ r.left = calls /\ r.approval = run.approval
<1>1. "answers" \in Phases /\ <<>> \in Seq(Call)
  BY DEF Phases
<1> DEFINE r == WillAnswer(calls)
<1>2. r = [run EXCEPT !.phase = "answers", !.reply = <<>>, !.left = calls]
  BY DEF WillAnswer
<1> HIDE DEF r
<1>3. r \in Run
  BY <1>1, <1>2 DEF Run
<1>4. /\ r.from = run.from /\ r.scheduled = run.scheduled /\ r.outcome = run.outcome /\ r.asked = run.asked
      /\ r.previous = run.previous /\ r.iteration = run.iteration
  BY <1>2 DEF Run
<1>5. r.phase = "answers" /\ r.reply = <<>> /\ r.left = calls /\ r.approval = run.approval
  BY <1>2 DEF Run
<1> QED
  BY <1>3, <1>4, <1>5 DEF r, Alike

LEMMA ExecutedIs ==
  ASSUME run \in Run, NEW calls \in Seq(Call), NEW waits \in BOOLEAN
  PROVE  LET r == Executed(calls, waits) IN
         Alike(r, run) /\ r.phase = "executed" /\ r.reply = <<>> /\ r.left = calls /\ r.approval = waits
<1> DEFINE a == WillAnswer(calls)
           r == Executed(calls, waits)
<1>1. Alike(a, run) /\ a.reply = <<>> /\ a.left = calls
  BY WillAnswerIs
<1>2. r = [a EXCEPT !.phase = "executed", !.approval = waits] /\ "executed" \in Phases
  BY DEF Executed, Phases
<1> HIDE DEF a, r
<1>3. r \in Run
  BY <1>1, <1>2 DEF Run, Alike
<1>4. /\ r.from = a.from /\ r.scheduled = a.scheduled /\ r.outcome = a.outcome /\ r.asked = a.asked
      /\ r.previous = a.previous /\ r.iteration = a.iteration
  BY <1>1, <1>2 DEF Run, Alike
<1>5. r.phase = "executed" /\ r.reply = a.reply /\ r.left = a.left /\ r.approval = waits
  BY <1>1, <1>2 DEF Run, Alike
<1> QED
  BY <1>1, <1>3, <1>4, <1>5 DEF r, Alike

LEMMA EarlyIs ==
  ASSUME run \in Run
  PROVE  Early \in Seq(Call) /\ Len(Early) = Len(run.reply) /\ \A n \in 1 .. Len(run.reply) : Early[n].id = run.reply[n].id
<1>1. run.reply \in Seq(Call)
  BY DEF Run
<1>2. /\ Len(run.reply) \in Nat /\ DOMAIN run.reply = 1 .. Len(run.reply)
      /\ \A n \in 1 .. Len(run.reply) : run.reply[n] \in Call
  BY <1>1, SeqFacts
<1>3. \A n \in 1 .. Len(run.reply) : [run.reply[n] EXCEPT !.ok = FALSE] \in Call
  BY <1>2 DEF Call
<1>4. Early \in [1 .. Len(run.reply) -> Call]
  BY <1>2, <1>3 DEF Early
<1>5. Early \in Seq(Call) /\ Len(Early) = Len(run.reply)
  BY <1>2, <1>4, FunctionIsSeq
<1>6. ASSUME NEW n \in 1 .. Len(run.reply) PROVE Early[n].id = run.reply[n].id
  <2>1. Early[n] = [run.reply[n] EXCEPT !.ok = FALSE] /\ run.reply[n] \in Call
    BY <1>2 DEF Early
  <2> QED
    BY <2>1 DEF Call
<1> QED
  BY <1>5, <1>6

\* The calls of a batch that plans or activates wait for an answer as before.
LEMMA EarlyCarries ==
  ASSUME run \in Run
  PROVE  Carries(Early, run.reply, 1 .. Len(run.reply))
<1>1. run.reply \in Seq(Call)
  BY DEF Run
<1>2. Selected(run.reply, 1 .. Len(run.reply)) = run.reply
  BY <1>1, SelectedAll
<1>3. 1 .. Len(run.reply) \in SUBSET (1 .. Len(run.reply))
  OBVIOUS
<1> QED
  BY <1>1, <1>2, <1>3, EarlyIs, SelectedCarries

\* What a step of Execute does: the calls at I wait for approval, those at K have results, and
\* the task of the one that has neither panicked.
Executes(I, K) ==
  /\ I \in SUBSET (1 .. Len(run.reply)) /\ K \in SUBSET (1 .. Len(run.reply)) /\ I \intersect K = {}
  /\ Carries(run'.left, run.reply, K)
  /\ Alike(run', run) /\ run'.phase = "executed" /\ run'.reply = <<>> /\ run'.approval = (I # {})
  /\ actions' = actions \union {[call |-> run.reply[n].id, run |-> Len(row), status |-> "pending", approved |-> FALSE] : n \in I}
  /\ spoiled' \in {spoiled, spoiled \union {"tool"}}
  /\ "tool" \notin spoiled' => I \union K = 1 .. Len(run.reply)
  /\ \E x \in {"running", "waiting_for_approval"} : RowIs(x)

LEMMA ExecuteIs ==
  ASSUME Types, Refers, Execute
  PROVE  \E I, K : Executes(I, K)
<1> DEFINE reply == run.reply
           I == {n \in DOMAIN run.reply : run.reply[n].tool = "approve"}
           again == {n \in DOMAIN run.reply : run.reply[n].tool \in tracker.reads}
           runs == DOMAIN run.reply \ (I \union again)
           Asked == {[call |-> run.reply[n].id, run |-> Len(row), status |-> "pending", approved |-> FALSE] : n \in I}
           Res(bad, lost) == Results(run.reply, runs \ lost, again, bad)
<1>1. run \in Run /\ reply \in Seq(Call) /\ DOMAIN reply = 1 .. Len(reply) /\ tracker.reads \subseteq {"read"}
  <2>1. run \in Run /\ run.reply \in Seq(Call) /\ tracker.reads \subseteq {"read"}
    BY DEF Types, Run, Tracker
  <2> QED
    BY <2>1, SeqFacts
<1>2. I \intersect again = {}
  BY <1>1
<1>3. /\ actions' = actions \union Asked
      /\ \/ run' = Executed(Res({}, {}), I # {}) /\ UNCHANGED <<spoiled, used>>
         \/ \E n \in runs :
              \/ run' = Executed(Res({run.reply[n].id}, {}), I # {}) /\ UNCHANGED spoiled
              \/ run' = Executed(Res({}, {n}), I # {}) /\ spoiled' = spoiled \union {"tool"}
      /\ row' = [row EXCEPT ![Len(row)] = IF runs = {} /\ I # {} THEN "waiting_for_approval" ELSE "running"]
  BY DEF Execute, Results
<1>4. run.phase # "idle"
  BY DEF Execute, At
<1>5. \E x \in {"running", "waiting_for_approval"} : RowIs(x)
  <2>1. \E x \in {"running", "waiting_for_approval"} : Row(x)
    BY <1>3 DEF Row
  <2> QED
    BY <2>1, <1>4, RowAs, StatusesAre
<1>6. I \in SUBSET (1 .. Len(reply)) /\ again \in SUBSET (1 .. Len(reply)) /\ runs \in SUBSET (1 .. Len(reply))
  BY <1>1
<1>7. runs \intersect again = {} /\ runs \intersect I = {} /\ I \union (runs \union again) = 1 .. Len(reply)
  BY <1>1
<1> HIDE DEF I, again, runs
<1>8. ASSUME NEW bad, NEW lost, run' = Executed(Res(bad, lost), I # {}), lost = {} \/ "tool" \in spoiled',
             spoiled' \in {spoiled, spoiled \union {"tool"}}
      PROVE  Executes(I, (runs \ lost) \union again)
  <2> DEFINE rest == Res(bad, lost)
             K == (runs \ lost) \union again
  <2>1. Carries(rest, reply, K)
    <3>1. runs \ lost \in SUBSET (1 .. Len(reply)) /\ (runs \ lost) \intersect again = {}
      BY <1>6, <1>7
    <3> QED
      BY <3>1, <1>1, <1>6, ResultsOf
  <2> HIDE DEF rest
  <2>2. rest \in Seq(Call)
    BY <2>1 DEF Carries
  <2>3. Alike(run', run) /\ run'.phase = "executed" /\ run'.reply = <<>> /\ run'.left = rest /\ run'.approval = (I # {})
    <3>1. run' = Executed(rest, I # {})
      BY <1>8 DEF rest
    <3>2. (I # {}) \in BOOLEAN
      OBVIOUS
    <3> QED
      BY <3>1, <3>2, <1>1, <2>2, ExecutedIs
  <2>4. K \in SUBSET (1 .. Len(reply)) /\ I \intersect K = {} /\ (lost = {} => I \union K = 1 .. Len(reply))
    BY <1>2, <1>6, <1>7
  <2> HIDE DEF K
  <2>5. Executes(I, K)
    BY <1>3, <1>5, <1>6, <1>8, <2>1, <2>3, <2>4 DEF Executes
  <2> QED
    BY <2>5 DEF K
<1> HIDE DEF Res
<1> QED
  BY <1>3, <1>8

LEMMA NumberedIs ==
  ASSUME issued \in Nat, NEW reply \in Replies
  PROVE  LET calls == Numbered(reply) IN
         /\ calls \in Seq(Call) /\ Len(calls) = Len(reply) /\ Len(reply) \in Nat /\ reply \in Seq(STRING)
         /\ \A n \in 1 .. Len(reply) : calls[n].id = issued + n
         /\ Ids(calls) \in SUBSET Nat /\ \A c \in Nat : c \in Ids(calls) <=> Waits(calls, c)
<1> DEFINE calls == Numbered(reply)
<1>1. reply \in Seq(STRING)
  BY TurnAssumption
<1>2. Len(reply) \in Nat /\ DOMAIN reply = 1 .. Len(reply) /\ \A n \in 1 .. Len(reply) : reply[n] \in STRING
  BY <1>1, SeqFacts
<1>3. calls = [n \in 1 .. Len(reply) |-> [id |-> issued + n, tool |-> reply[n], ok |-> TRUE]]
  BY <1>2 DEF Numbered
<1> HIDE DEF calls
<1>4. \A n \in 1 .. Len(reply) : [id |-> issued + n, tool |-> reply[n], ok |-> TRUE] \in Call
  BY <1>2 DEF Call
<1>5. calls \in [1 .. Len(reply) -> Call]
  BY <1>3, <1>4
<1>6. calls \in Seq(Call) /\ Len(calls) = Len(reply)
  BY <1>2, <1>5, FunctionIsSeq
<1>7. \A n \in 1 .. Len(reply) : calls[n].id = issued + n
  BY <1>3
<1>8. DOMAIN calls = 1 .. Len(calls)
  BY <1>6, SeqFacts
<1>9. Ids(calls) \in SUBSET Nat /\ \A c \in Nat : c \in Ids(calls) <=> Waits(calls, c)
  BY <1>6, <1>7, <1>8 DEF Ids, Waits
<1> QED
  BY <1>1, <1>2, <1>6, <1>7, <1>9 DEF calls

\* The same of the calls of the run.
LEMMA IdsAre ==
  ASSUME NEW calls \in Seq(Call)
  PROVE  Ids(calls) \in SUBSET Nat /\ \A c \in Nat : c \in Ids(calls) <=> Waits(calls, c)
<1>1. DOMAIN calls = 1 .. Len(calls) /\ CallFacts(calls)
  BY CallsAre, SeqFacts
<1> QED
  BY <1>1 DEF Ids, Waits, CallFacts

LEMMA ImageIsFinite ==
  ASSUME NEW S, IsFiniteSet(S), NEW f
  PROVE  IsFiniteSet({f[x] : x \in S})
<1> DEFINE T == {f[x] : x \in S}
           onto == [x \in S |-> f[x]]
<1>1. onto \in Surjection(S, T)
  BY DEF Surjection
<1> QED
  BY <1>1, FS_Surjection

LEMMA TypesInit == Init => Types
<1> SUFFICES ASSUME Init PROVE Types
  OBVIOUS
<1>1. Idle("none") \in Run
  BY IdleIs DEF Outcomes
<1>2. NoTracker \in Tracker
  BY DEF NoTracker, Tracker
<1>3. {} \subseteq Action /\ IsFiniteSet({}) /\ {} \subseteq Checkpoint /\ <<>> \in Seq(Message) /\ <<>> \in Seq(Goal) /\ <<>> \in Seq(Statuses)
  BY FS_EmptySet
<1> QED
  BY <1>1, <1>2, <1>3 DEF Init, Types

\* Steps of the run.
LEMMA TypesAsking ==
  ASSUME Types, Refers, ContextWhole, Asking
  PROVE  Types'
<1> USE DEF Types
<1>1. CASE Think
  <2>1. row' \in Seq(Statuses)
    <3>1. Row("running") /\ run.phase # "idle"
      BY <1>1 DEF Think, At
    <3> QED
      BY <3>1, RowAs, StatusesAre DEF RowIs
  <2>2. run' \in Run
    <3>1. run' = [run EXCEPT !.phase = IF Optimised /\ run.previous THEN "chained" ELSE "full"]
      BY <1>1 DEF Think
    <3>2. "chained" \in Phases /\ "full" \in Phases
      BY DEF Phases
    <3> QED
      BY <3>1, <3>2 DEF Run
  <2>3. context' \in Seq(Message) /\ chained' \in Seq(Message)
    <3>1. CASE UNCHANGED <<context, chained>>
      BY <3>1
    <3>2. CASE context' = Bounded(Tracked(context)) /\ chained' = Append(chained, System("goal_tracker"))
      <4>1. Headed(context) /\ context[1] # System("goal_tracker")
        BY <1>1 DEF Think, At, ContextWhole
      <4>2. Tracked(context) \in Seq(Message)
        BY <4>1, TrackedOf
      <4>3. Bounded(Tracked(context)) \in Seq(Message)
        BY <4>2, BoundedOf
      <4>4. System("goal_tracker") \in Message
        BY SystemIs DEF Name
      <4> QED
        BY <3>2, <4>3, <4>4, AppendProperties
    <3> QED
      BY <3>1, <3>2, <1>1 DEF Think
  <2>4. UNCHANGED <<transcript, goals, actions, saved, tracker, issued>>
    BY <1>1 DEF Think
  <2> QED
    BY <2>1, <2>2, <2>3, <2>4
<1>2. CASE ChainBreaks
  <2>1. run' = [run EXCEPT !.phase = "full"] /\ "full" \in Phases
    BY <1>2 DEF ChainBreaks, Phases
  <2>2. run' \in Run
    BY <2>1 DEF Run
  <2> QED
    BY <2>2, <1>2 DEF ChainBreaks, durable
<1>3. CASE NoReply
  BY <1>3, CancelledTypes, FailTypes DEF NoReply
<1>4. ASSUME NEW reply \in Replies, Reply(reply) PROVE Types'
  <2> DEFINE calls == Numbered(reply)
             phase == IF reply = <<>> THEN "text" ELSE "batch"
  <2>1. calls \in Seq(Call) /\ Ids(calls) \in SUBSET Nat /\ Len(reply) \in Nat
    BY NumberedIs
  <2>2. run' = [run EXCEPT !.phase = phase, !.reply = calls, !.previous = TRUE, !.asked = Ids(calls)] /\ phase \in Phases
    BY <1>4 DEF Reply, Phases
  <2> HIDE DEF calls, phase
  <2>3. run' \in Run
    BY <2>1, <2>2 DEF Run
  <2>4. chained' = <<>> /\ issued' \in Nat /\ UNCHANGED <<durable, context, tracker>>
    BY <1>4, <2>1 DEF Reply
  <2> QED
    BY <2>3, <2>4, NoneWhole DEF durable
<1> QED
  BY <1>1, <1>2, <1>3, <1>4 DEF Asking

LEMMA RevisesTypes ==
  ASSUME Types, NEW name \in {"feedback", "active_goal_continuation", "loop_guard"}
  PROVE  /\ System(name) \in Message /\ ~ Calls(System(name)) /\ System(name).role = "system"
         /\ context \o <<Says, System(name)>> = Append(Append(context, Says), System(name))
         /\ context \o <<Says, System(name)>> \in Seq(Message)
         /\ Append(chained, System(name)) \in Seq(Message)
<1> DEFINE note == System(name)
           s == context \o <<Says, note>>
           t == Append(Append(context, Says), note)
<1>1. note \in Message /\ ~ Calls(note) /\ note.role = "system" /\ Says \in Message
  BY SystemIs, MessagesAre DEF Name
<1> HIDE DEF note
<1>2. context \in Seq(Message) /\ chained \in Seq(Message) /\ Len(context) \in Nat
  BY SeqFacts DEF Types
<1> DEFINE u == Append(context, Says)
<1>3. /\ u \in Seq(Message) /\ Len(u) = Len(context) + 1 /\ u[Len(context) + 1] = Says
      /\ \A i \in 1 .. Len(context) : u[i] = context[i]
  BY <1>1, <1>2, AppendProperties
<1> HIDE DEF u
<1>4. /\ t \in Seq(Message) /\ Len(t) = Len(u) + 1 /\ t[Len(u) + 1] = note
      /\ \A i \in 1 .. Len(u) : t[i] = u[i]
  <2>1. t = Append(u, note)
    BY DEF u
  <2> QED
    BY <2>1, <1>1, <1>3, AppendProperties
<1> DEFINE two == <<Says, note>>
<1>5. two \in Seq(Message) /\ Len(two) = 2 /\ two[1] = Says /\ two[2] = note
  BY <1>1
<1> HIDE DEF two
<1>6. /\ s \in Seq(Message) /\ Len(s) = Len(context) + 2
      /\ \A i \in 1 .. Len(context) + 2 : s[i] = IF i <= Len(context) THEN context[i] ELSE two[i - Len(context)]
  <2>1. s = context \o two
    BY DEF two
  <2> QED
    BY <2>1, <1>2, <1>5, ConcatProperties
<1> HIDE DEF s, t
<1>7. ASSUME NEW i \in 1 .. Len(s) PROVE s[i] = t[i]
  <2>1. CASE i <= Len(context)
    <3>1. i \in 1 .. Len(context) /\ i \in 1 .. Len(u)
      BY <2>1, <1>2, <1>3
    <3> QED
      BY <3>1, <2>1, <1>3, <1>4, <1>6
  <2>2. CASE i = Len(context) + 1
    <3>1. i - Len(context) = 1 /\ ~ (i <= Len(context)) /\ i \in 1 .. Len(u)
      BY <2>2, <1>2, <1>3
    <3>2. s[i] = two[1]
      BY <3>1, <1>6
    <3> QED
      BY <3>1, <3>2, <2>2, <1>3, <1>4, <1>5
  <2>3. CASE i = Len(context) + 2
    <3>1. i - Len(context) = 2 /\ ~ (i <= Len(context)) /\ i = Len(u) + 1
      BY <2>3, <1>2, <1>3
    <3>2. s[i] = two[2]
      BY <3>1, <1>6
    <3> QED
      BY <3>1, <3>2, <1>4, <1>5
  <2> QED
    BY <2>1, <2>2, <2>3, <1>2, <1>6
<1>8. Len(s) = Len(t)
  BY <1>2, <1>3, <1>4, <1>6
<1>9. s = t
  BY <1>4, <1>6, <1>7, <1>8, SeqEqual
<1> QED
  BY <1>1, <1>2, <1>4, <1>9, AppendProperties DEF note, s, t, u

LEMMA TypesTexts ==
  ASSUME Types, Refers, Texts
  PROVE  Types'
<1> USE DEF Types
<1>0. run.phase = "text" => run.iteration + 1 \in 0 .. MaxIterations
  <2>1. run.phase = "text" => run.iteration < MaxIterations
    BY DEF Refers
  <2>2. run.iteration \in 0 .. MaxIterations /\ MaxIterations \in Nat
    BY TurnAssumption DEF Run
  <2> QED
    BY <2>1, <2>2
<1>1. CASE Reflect
  <2>1. run' = [run EXCEPT !.phase = "top", !.iteration = @ + 1, !.reflected = TRUE] /\ run.phase = "text"
    BY <1>1 DEF Reflect, At
  <2>2. run' \in Run
    BY <2>1, <1>0 DEF Run, Phases
  <2>3. context' \in Seq(Message) /\ chained' \in Seq(Message) /\ UNCHANGED <<durable, tracker, issued>>
    BY <1>1, RevisesTypes DEF Reflect, Revises
  <2> QED
    BY <2>2, <2>3 DEF durable
<1>2. CASE Withhold
  <2>1. /\ run' = [run EXCEPT !.phase = "top", !.iteration = @ + 1, !.premature = @ + 1] /\ run.phase = "text"
        /\ run.premature < 2
    BY <1>2 DEF Withhold, At
  <2>2. run.premature + 1 \in 0 .. 2
    BY <2>1 DEF Run
  <2>3. run' \in Run
    BY <2>1, <2>2, <1>0 DEF Run, Phases
  <2>4. context' \in Seq(Message) /\ chained' \in Seq(Message) /\ UNCHANGED <<durable, tracker, issued>>
    BY <1>2, RevisesTypes DEF Withhold, Revises
  <2> QED
    BY <2>3, <2>4 DEF durable
<1>3. CASE GiveUp
  BY <1>3, DeferTypes DEF GiveUp, At
<1>4. CASE Finish
  BY <1>4, StoresTypes DEF Finish, At
<1> QED
  BY <1>1, <1>2, <1>3, <1>4 DEF Texts

LEMMA NotedIs ==
  ASSUME Types
  PROVE  Noted \in Tracker /\ Noted.goal = tracker.goal /\ Noted.open = tracker.open
<1>1. run.reply \in Seq(Call) /\ tracker \in Tracker
  BY DEF Types, Run
<1>2. /\ Len(run.reply) \in Nat /\ DOMAIN run.reply = 1 .. Len(run.reply)
      /\ \A n \in 1 .. Len(run.reply) : run.reply[n] \in Call
  BY <1>1, SeqFacts
<1>3. \A n \in 1 .. Len(run.reply) : run.reply[n].tool \in STRING
  BY <1>2 DEF Call
<1>4. Batch \in [1 .. Len(run.reply) -> STRING]
  BY <1>2, <1>3 DEF Batch
<1>5. Batch \in Seq(STRING)
  BY <1>2, <1>4, FunctionIsSeq
<1>6. Repeats \in Nat
  BY <1>1 DEF Repeats, Tracker
<1>7. Noted = [tracker EXCEPT !.batch = Batch, !.repeats = Repeats]
  BY DEF Noted
<1> QED
  BY <1>1, <1>5, <1>6, <1>7 DEF Tracker

\* The place of the plan that is stored, and its state.
LEMMA PlannedIs ==
  ASSUME NEW plan
  PROVE  Planned(plan) \in Goal /\ Planned(plan).status \in {"active", "completed"} /\ Planned(plan).done \in {0, 1}
BY DEF Planned, Goal

\* What a plan leaves: the goal of the run, as it is stored now.
PlansAs(goal, plan) ==
  /\ goal \in Nat \ {0} /\ plan \in Goal
  /\ IF goal \in 1 .. Len(goals) THEN Len(goals') = Len(goals) ELSE goal = Len(goals) + 1 /\ Len(goals') = Len(goals) + 1
  /\ goals' \in Seq(Goal) /\ goals'[goal] = plan
  /\ tracker' \in Tracker /\ tracker'.goal = goal /\ tracker'.open = (plan.status = "active")
  /\ Alike(run', run) /\ run'.phase = "answers" /\ run'.reply = <<>> /\ run'.left = Early
  /\ run'.approval = run.approval

LEMMA PlanIs ==
  ASSUME Types, Refers, Plan
  PROVE  \E goal, plan : PlansAs(goal, plan)
<1>1. PICK plan, goal :
        /\ plan \in Goal /\ plan.done \in {0, 1} /\ plan.status \in {"active", "completed"}
        /\ goal \in IF run.from # {} THEN {tracker.goal}
                    ELSE DOMAIN goals \union (IF Len(goals) < Budget.goals THEN {Len(goals) + 1} ELSE {})
        /\ goals' = IF goal \in DOMAIN goals THEN [goals EXCEPT ![goal] = plan] ELSE Append(goals, plan)
        /\ tracker' = [tracker EXCEPT !.goal = goal, !.open = plan.status = "active", !.done = plan.done]
        /\ run' = [WillAnswer(Early) EXCEPT !.premature = IF plan.done > tracker.done THEN 0 ELSE @]
  <2> DEFINE plan == Planned(run.reply[Min({n \in DOMAIN run.reply : run.reply[n].tool \in Plans})].tool)
  <2>1. plan \in Goal /\ plan.done \in {0, 1} /\ plan.status \in {"active", "completed"}
    BY PlannedIs
  <2>2. \E goal \in IF run.from # {} THEN {tracker.goal}
                    ELSE DOMAIN goals \union (IF Len(goals) < Budget.goals THEN {Len(goals) + 1} ELSE {}) :
          /\ goals' = IF goal \in DOMAIN goals THEN [goals EXCEPT ![goal] = plan] ELSE Append(goals, plan)
          /\ tracker' = [tracker EXCEPT !.goal = goal, !.open = plan.status = "active", !.done = plan.done]
          /\ run' = [WillAnswer(Early) EXCEPT !.premature = IF plan.done > tracker.done THEN 0 ELSE @]
    BY DEF Plan
  <2> HIDE DEF plan
  <2> QED
    BY <2>1, <2>2
<1>2. run \in Run /\ tracker \in Tracker /\ goals \in Seq(Goal) /\ Len(goals) \in Nat /\ DOMAIN goals = 1 .. Len(goals)
  BY SeqFacts DEF Types
<1>3. goal \in 1 .. Len(goals) \/ goal = Len(goals) + 1
  <2>1. CASE run.from # {}
    <3>1. tracker.goal # 0 /\ tracker.goal \in 0 .. Len(goals)
      BY <2>1 DEF Refers, Plan, At
    <3> QED
      BY <1>1, <1>2, <2>1, <3>1
  <2>2. CASE run.from = {}
    BY <1>1, <1>2, <2>2
  <2> QED
    BY <2>1, <2>2
<1>4. /\ goals' \in Seq(Goal) /\ goals'[goal] = plan
      /\ IF goal \in 1 .. Len(goals) THEN Len(goals') = Len(goals)
         ELSE goal = Len(goals) + 1 /\ Len(goals') = Len(goals) + 1
  <2>1. CASE goal \in 1 .. Len(goals)
    <3>1. goals' = [goals EXCEPT ![goal] = plan]
      BY <1>1, <1>2, <2>1
    <3> QED
      BY <3>1, <1>1, <1>2, <2>1, ExceptSeq
  <2>2. CASE goal \notin 1 .. Len(goals)
    <3>1. goals' = Append(goals, plan) /\ goal = Len(goals) + 1
      BY <1>1, <1>2, <1>3, <2>2
    <3> QED
      BY <3>1, <1>1, <1>2, <2>2, AppendProperties
  <2> QED
    BY <2>1, <2>2
<1>5. tracker' \in Tracker /\ tracker'.goal = goal /\ tracker'.open = (plan.status = "active")
  <2>1. goal \in Nat /\ (plan.status = "active") \in BOOLEAN
    BY <1>2, <1>3
  <2> QED
    BY <1>1, <1>2, <2>1 DEF Tracker
<1>6. Alike(run', run) /\ run'.phase = "answers" /\ run'.reply = <<>> /\ run'.left = Early /\ run'.approval = run.approval
  <2> DEFINE w == WillAnswer(Early)
  <2>1. Alike(w, run) /\ w.phase = "answers" /\ w.reply = <<>> /\ w.left = Early /\ w.approval = run.approval
    BY <1>2, EarlyIs, WillAnswerIs
  <2> HIDE DEF w
  <2>2. PICK x \in {0, w.premature} : run' = [w EXCEPT !.premature = x]
    <3>1. run' = [w EXCEPT !.premature = IF plan.done > tracker.done THEN 0 ELSE w.premature]
      BY <1>1 DEF w
    <3> QED
      BY <3>1
  <2>3. run' \in Run
    BY <2>1, <2>2 DEF Run, Alike
  <2>4. /\ run'.phase = w.phase /\ run'.reply = w.reply /\ run'.left = w.left /\ run'.approval = w.approval
        /\ run'.from = w.from /\ run'.scheduled = w.scheduled /\ run'.outcome = w.outcome /\ run'.asked = w.asked
        /\ run'.previous = w.previous /\ run'.iteration = w.iteration
    BY <2>1, <2>2 DEF Run, Alike
  <2> QED
    BY <2>1, <2>3, <2>4 DEF Alike
<1>7. goal \in Nat \ {0} /\ plan \in Goal
  BY <1>1, <1>2, <1>3
<1> QED
  BY <1>4, <1>5, <1>6, <1>7 DEF PlansAs

\* What a step to the next iteration leaves.
LEMMA IteratesIs ==
  ASSUME Types, Refers, run.phase \in {"batch", "answers"}, Iterates
  PROVE  /\ run' \in Run /\ run'.phase = "top" /\ run'.reply = <<>> /\ run'.left = run.left /\ run'.from = run.from
         /\ run'.scheduled = run.scheduled /\ run'.outcome = run.outcome /\ run'.asked = run.asked
         /\ run'.previous = run.previous /\ run'.iteration \in 0 .. MaxIterations
<1>1. run.iteration < MaxIterations /\ run \in Run
  BY DEF Types, Refers
<1>2. run.iteration + 1 \in 0 .. MaxIterations
  <2>1. run.iteration \in 0 .. MaxIterations /\ MaxIterations \in Nat
    BY <1>1, TurnAssumption DEF Run
  <2> QED
    BY <1>1, <2>1
<1>3. run' = [run EXCEPT !.phase = "top", !.iteration = run.iteration + 1, !.reply = <<>>]
  BY DEF Iterates
<1>4. "top" \in Phases /\ <<>> \in Seq(Call)
  BY DEF Phases
<1>5. run' \in Run
  BY <1>1, <1>2, <1>3, <1>4 DEF Run
<1>6. /\ run'.phase = "top" /\ run'.reply = <<>> /\ run'.left = run.left /\ run'.from = run.from
      /\ run'.scheduled = run.scheduled /\ run'.outcome = run.outcome /\ run'.asked = run.asked
      /\ run'.previous = run.previous
  BY <1>1, <1>3 DEF Run
<1> QED
  BY <1>5, <1>6 DEF Run

\* The answer to the first of the calls that are left.
AnswersFirst(c) ==
  /\ run.left # <<>> /\ c = Head(run.left) /\ c \in Call
  /\ Alike(run', run) /\ run'.phase = "answers" /\ run'.reply = run.reply /\ run'.left = Tail(run.left)
  /\ run'.approval = run.approval
  /\ tracker' \in Tracker /\ tracker'.goal = tracker.goal /\ tracker'.open = tracker.open
  /\ transcript' = Append(transcript, Answers(c.id)) /\ context' = Append(context, Answers(c.id))
  /\ chained' = Append(chained, Answers(c.id))

LEMMA AnswerIs ==
  ASSUME Types, Answer
  PROVE  \E c : AnswersFirst(c)
<1> DEFINE c == Head(run.left)
           work == IF c.ok /\ c.tool \in {"read", "write"} THEN tracker.work \union {c.tool} ELSE tracker.work
<1>1. run \in Run /\ tracker \in Tracker /\ run.left \in Seq(Call) /\ run.left # <<>> /\ run.phase = "answers"
  BY DEF Types, Run, Answer, At
<1>2. c \in Call /\ Tail(run.left) \in Seq(Call)
  BY <1>1, HeadTailProperties
<1>3. /\ tracker' = [tracker EXCEPT !.work = work,
                                  !.reads = IF c.ok /\ c.tool = "read" THEN @ \union {"read"} ELSE @]
      /\ run' = [run EXCEPT !.left = Tail(@), !.premature = IF work # tracker.work THEN 0 ELSE @]
      /\ transcript' = Append(transcript, Answers(c.id)) /\ context' = Append(context, Answers(c.id))
      /\ chained' = Append(chained, Answers(c.id))
  BY DEF Answer
<1>4. work \subseteq {"read", "write"}
  BY <1>1 DEF Tracker
<1> HIDE DEF work, c
<1>5. PICK x \in {0, run.premature} : run' = [run EXCEPT !.left = Tail(run.left), !.premature = x]
  BY <1>3
<1>6. PICK y \in SUBSET {"read"} : tracker' = [tracker EXCEPT !.work = work, !.reads = y]
  <2>1. tracker.reads \subseteq {"read"} /\ tracker.reads \union {"read"} \subseteq {"read"}
    BY <1>1 DEF Tracker
  <2> QED
    BY <2>1, <1>3
<1>7. Alike(run', run) /\ run'.phase = "answers" /\ run'.reply = run.reply /\ run'.left = Tail(run.left) /\ run'.approval = run.approval
  <2>1. run' \in Run
    <3>1. x \in 0 .. 2
      BY <1>1 DEF Run
    <3> DEFINE rest == Tail(run.left)
    <3>2. rest \in Seq(Call) /\ run' = [run EXCEPT !.left = rest, !.premature = x]
      BY <1>2, <1>5
    <3> HIDE DEF rest
    <3> QED
      BY <1>1, <3>1, <3>2 DEF Run
  <2>2. /\ run'.from = run.from /\ run'.scheduled = run.scheduled /\ run'.outcome = run.outcome /\ run'.asked = run.asked
        /\ run'.previous = run.previous /\ run'.iteration = run.iteration
    BY <1>1, <1>5 DEF Run
  <2>3. run'.phase = run.phase /\ run'.reply = run.reply /\ run'.left = Tail(run.left) /\ run'.approval = run.approval
    BY <1>1, <1>5 DEF Run
  <2> QED
    BY <1>1, <2>1, <2>2, <2>3 DEF Alike
<1>8. tracker' \in Tracker /\ tracker'.goal = tracker.goal /\ tracker'.open = tracker.open
  BY <1>1, <1>4, <1>6 DEF Tracker
<1>9. AnswersFirst(c)
  BY <1>1, <1>2, <1>3, <1>7, <1>8 DEF AnswersFirst, c
<1> QED
  BY <1>9

LEMMA TypesTools ==
  ASSUME Types, Refers, Tools
  PROVE  Types'
<1> USE DEF Types
<1>0. /\ run \in Run /\ run.reply \in Seq(Call) /\ Ids(run.reply) \in SUBSET Nat
      /\ Asks(Ids(run.reply)) \in Message
  <2>1. run \in Run /\ run.reply \in Seq(Call)
    BY DEF Run
  <2> QED
    BY <2>1, IdsAre, AsksIs
<1>1. CASE Warn
  <2>1. /\ run' = [run EXCEPT !.phase = "top", !.iteration = run.iteration + 1, !.reply = <<>>, !.previous = FALSE]
        /\ run.phase = "batch" /\ tracker' = Noted
    BY <1>1 DEF Warn, At
  <2>2. run.iteration + 1 \in 0 .. MaxIterations
    <3>1. run.iteration \in 0 .. MaxIterations /\ MaxIterations \in Nat /\ run.iteration < MaxIterations
      BY <2>1, TurnAssumption DEF Run, Refers
    <3> QED
      BY <3>1
  <2>3. run' \in Run
    <3>1. "top" \in Phases /\ <<>> \in Seq(Call)
      BY DEF Phases
    <3> QED
      BY <2>1, <2>2, <3>1 DEF Run
  <2>4. context' \in Seq(Message) /\ UNCHANGED <<durable, chained, issued>>
    BY <1>1, RevisesTypes DEF Warn
  <2> QED
    BY <2>1, <2>3, <2>4, NotedIs DEF durable
<1>2. CASE Stuck
  BY <1>2, DeferTypes, StoresTypes DEF Stuck, At
<1>3. CASE Record
  <2>1. run' = [run EXCEPT !.phase = "tools"] /\ tracker' = Noted
    BY <1>3 DEF Record
  <2>2. run' \in Run
    BY <2>1 DEF Run, Phases
  <2>3. transcript' \in Seq(Message) /\ context' \in Seq(Message)
    BY <1>0, <1>3, AppendProperties DEF Record
  <2> QED
    BY <1>3, <2>1, <2>2, <2>3, NotedIs DEF Record
<1>4. CASE Plan
  <2>1. PICK goal, plan : PlansAs(goal, plan)
    BY <1>4, PlanIs
  <2>2. UNCHANGED <<transcript, actions, row, saved, context, chained, issued>>
    BY <1>4 DEF Plan
  <2> QED
    BY <2>1, <2>2 DEF PlansAs, Alike
<1>5. CASE PlanFails
  <2>1. run' = WillAnswer(Early) /\ UNCHANGED <<transcript, actions, row, saved, context, chained, tracker, issued>>
    BY <1>5 DEF PlanFails
  <2>2. run' \in Run
    BY <2>1, EarlyIs, WillAnswerIs DEF Alike
  <2>3. goals' \in Seq(Goal)
    <3> DEFINE g == [status |-> "active", done |-> 0]
    <3>1. g \in Goal
      BY DEF Goal
    <3>2. goals' \in {goals, Append(goals, g)}
      BY <1>5 DEF PlanFails
    <3> HIDE DEF g
    <3>3. Append(goals, g) \in Seq(Goal)
      BY <3>1, AppendProperties
    <3> QED
      BY <3>2, <3>3
  <2> QED
    BY <2>1, <2>2, <2>3
<1>6. CASE Activate
  <2>1. run' = WillAnswer(Early) /\ UNCHANGED <<durable, context, chained, tracker, issued>>
    BY <1>6 DEF Activate
  <2>2. run' \in Run
    BY <2>1, EarlyIs, WillAnswerIs DEF Alike
  <2> QED
    BY <2>1, <2>2 DEF durable
<1>7. CASE Execute
  <2>1. PICK I, K : Executes(I, K)
    BY <1>7, ExecuteIs
  <2>2. UNCHANGED <<transcript, goals, saved, context, chained, tracker, issued>>
    BY <1>7 DEF Execute
  <2>3. actions' \subseteq Action
    <3>1. \A n \in I : run.reply[n].id \in Nat
      <4>1. CallFacts(run.reply) /\ I \in SUBSET (1 .. Len(run.reply))
        BY <1>0, <2>1, CallsAre DEF Executes
      <4> QED
        BY <4>1 DEF CallFacts
    <3>2. Len(row) \in Nat
      BY SeqFacts
    <3>3. \A n \in I : [call |-> run.reply[n].id, run |-> Len(row), status |-> "pending", approved |-> FALSE] \in Action
      BY <3>1, <3>2 DEF Action, ActionStatuses
    <3> QED
      BY <2>1, <3>3 DEF Executes
  <2>4. IsFiniteSet(actions')
    <3> DEFINE New == [n \in I |-> [call |-> run.reply[n].id, run |-> Len(row), status |-> "pending", approved |-> FALSE]]
    <3>1. IsFiniteSet(I)
      <4>1. I \in SUBSET (1 .. Len(run.reply))
        BY <2>1 DEF Executes
      <4>2. Len(run.reply) \in Int /\ 1 \in Int
        BY <1>0, SeqFacts
      <4>3. IsFiniteSet(1 .. Len(run.reply))
        BY <4>2, FS_Interval
      <4> QED
        BY <4>1, <4>3, FS_Subset
    <3>2. IsFiniteSet({New[n] : n \in I})
      BY <3>1, ImageIsFinite
    <3>3. actions' = actions \union {New[n] : n \in I}
      BY <2>1 DEF Executes
    <3> QED
      BY <3>2, <3>3, FS_Union
  <2> QED
    BY <2>1, <2>2, <2>3, <2>4 DEF Executes, Alike, RowIs
<1>8. CASE StopTools
  BY <1>8, CancelledTypes DEF StopTools, At
<1>9. CASE Collect
  <2>1. run' = [run EXCEPT !.phase = "answers"] /\ UNCHANGED <<durable, context, chained, tracker, issued>>
    BY <1>9 DEF Collect
  <2>2. run' \in Run
    BY <2>1 DEF Run, Phases
  <2> QED
    BY <2>1, <2>2 DEF durable
<1>10. CASE Answer
  <2>1. PICK c : AnswersFirst(c)
    BY <1>10, AnswerIs
  <2>2. Answers(c.id) \in Message
    <3>1. c.id \in Nat
      BY <2>1 DEF AnswersFirst, Call
    <3> QED
      BY <3>1, AnswersIs
  <2>3. transcript' \in Seq(Message) /\ context' \in Seq(Message) /\ chained' \in Seq(Message)
    BY <2>1, <2>2, AppendProperties DEF AnswersFirst
  <2>4. row' \in Seq(Statuses)
    <3>1. Row("running") /\ run.phase # "idle"
      BY <1>10 DEF Answer, At
    <3> QED
      BY <3>1, RowAs, StatusesAre DEF RowIs
  <2>5. UNCHANGED <<goals, actions, saved, issued>>
    BY <1>10 DEF Answer
  <2> QED
    BY <2>1, <2>3, <2>4, <2>5 DEF AnswersFirst, Alike
<1>11. CASE Answered
  <2>1. run.phase = "answers"
    BY <1>11 DEF Answered, At
  <2>2. CASE Iterates /\ UNCHANGED <<durable, context, chained, tracker, cancel, issued, spoiled, used>>
    BY <2>1, <2>2, IteratesIs DEF durable
  <2>3. CASE Row("waiting_for_approval") /\ Ends("waiting") /\ UNCHANGED <<transcript, goals, actions, wanted, saved, tracker, spoiled, used>>
    <3>1. RowIs("waiting_for_approval") /\ Ended("waiting")
      BY <2>1, <2>3, RowAs, EndsAs, StatusesAre DEF Outcomes
    <3> QED
      BY <2>3, <3>1, NoneWhole DEF RowIs, Ended
  <2> QED
    BY <2>2, <2>3, <1>11 DEF Answered
<1> QED
  BY <1>1, <1>2, <1>3, <1>4, <1>5, <1>6, <1>7, <1>8, <1>9, <1>10, <1>11 DEF Tools

\* Steps of other tasks.  A request moves the action it decides.
Set(a, status) == [a EXCEPT !.status = status]
Claimed(a, approved) == [a EXCEPT !.status = "executing", !.approved = approved]

\* The request that decides a makes it b.
Decided(a, b) ==
  /\ b \in Action /\ b.call = a.call /\ b.run = a.run
  /\ a.status \in {"pending", "told"} \union AtWork /\ b.status \in AtWork \union GivenUp
  /\ b.status = "executing" => a.status = "pending"
  /\ actions' = (actions \ {a}) \union {b}
  /\ row' \in {row, [row EXCEPT ![a.run] = "running"]}
  /\ \/ transcript' = transcript
     \/ transcript' = Append(transcript, Answers(a.call)) /\ a.status = "executing" /\ b.status = "answered"
  /\ UNCHANGED <<goals, saved, run, context, chained, tracker, issued, spoiled>>

LEMMA SetIs ==
  ASSUME NEW a \in Action, NEW status \in ActionStatuses
  PROVE  /\ Set(a, status) \in Action /\ Set(a, status).call = a.call /\ Set(a, status).run = a.run
         /\ Set(a, status).status = status
BY DEF Action, Set

LEMMA DecidedIs ==
  ASSUME Types, NEW a \in actions, Decides(a), ~ ActionResolved(a), ~ ResumeBatch(a)
  PROVE  \E b : Decided(a, b)
<1>1. a \in Action
  BY DEF Types
<1>2. ASSUME NEW approved \in BOOLEAN, ClaimAction(a, approved) PROVE Decided(a, Claimed(a, approved))
  <2>1. /\ Claimed(a, approved) \in Action /\ Claimed(a, approved).call = a.call /\ Claimed(a, approved).run = a.run
        /\ Claimed(a, approved).status = "executing"
    BY <1>1 DEF Claimed, Action, ActionStatuses, AtWork
  <2> QED
    BY <1>2, <2>1 DEF ClaimAction, Claimed, Decided, AtWork
<1> DEFINE Goes(from, to) ==
             /\ a.status \in from /\ from \subseteq AtWork \union {"told"} /\ to \in (AtWork \union GivenUp) \ {"executing"}
             /\ actions' = (actions \ {a}) \union {Set(a, to)}
             /\ UNCHANGED <<goals, saved, run, context, chained, tracker, issued, spoiled>>
<1>3. ASSUME NEW from, NEW to, Goes(from, to), row' \in {row, [row EXCEPT ![a.run] = "running"]},
             transcript' = transcript \/ (transcript' = Append(transcript, Answers(a.call)) /\ a.status = "executing" /\ to = "answered")
      PROVE  Decided(a, Set(a, to))
  <2>1. to \in ActionStatuses
    BY <1>3 DEF ActionStatuses
  <2>2. /\ Set(a, to) \in Action /\ Set(a, to).call = a.call /\ Set(a, to).run = a.run /\ Set(a, to).status = to
    BY <1>1, <2>1, SetIs
  <2> QED
    BY <1>3, <2>2 DEF Decided
<1>4. CASE StoreAnswer(a)
  <2>1. Goes({"executing"}, "answered")
    BY <1>4 DEF StoreAnswer, Becomes, Set, AtWork
  <2> QED
    BY <1>3, <1>4, <2>1 DEF StoreAnswer
<1>5. CASE ResolveAction(a)
  <2>1. Goes({"answered"}, "resolved")
    BY <1>5 DEF ResolveAction, Becomes, Set, AtWork
  <2> QED
    BY <1>3, <1>5, <2>1 DEF ResolveAction
<1>6. CASE ToolFinished(a)
  <2>1. Goes({"resolved"}, "finished")
    BY <1>6 DEF ToolFinished, Becomes, Set, AtWork
  <2> QED
    BY <1>3, <1>6, <2>1 DEF ToolFinished
<1>7. CASE AbandonAction(a)
  <2>1. PICK to \in GivenUp : Goes(AtWork \union {"told"}, to)
    BY <1>7 DEF AbandonAction, Becomes, Set, AtWork, GivenUp
  <2>2. row' = row /\ transcript' = transcript
    BY <1>7 DEF AbandonAction
  <2> QED
    BY <1>3, <2>1, <2>2
<1> QED
  BY <1>2, <1>4, <1>5, <1>6, <1>7 DEF Decides

\* What a crash leaves: the actions that are to be decided and those whose outcome is open, and
\* a warning for each of these.
Doubted == {a \in actions : a.status \in Executing}
Crashed ==
  /\ Ended("interrupted") /\ saved' = saved \union run.from
  /\ actions' = {a \in actions : a.status \in {"pending", "uncertain"}} \union {Set(a, "uncertain") : a \in Doubted}
  /\ IsFiniteSet(actions')
  /\ row' \in Seq(Statuses) /\ Len(row') = Len(row) /\ \A r \in 1 .. Len(row) : row'[r] # "running"
  /\ \E warnings \in Seq(Message) :
       /\ transcript' = transcript \o warnings
       /\ \A n \in 1 .. Len(warnings) :
            /\ warnings[n].role = "tool" /\ warnings[n].name = "warning" /\ \E a \in Doubted : warnings[n].of = a.call
            /\ \A m \in 1 .. Len(warnings) : warnings[m].of = warnings[n].of => m = n

LEMMA CrashIs ==
  ASSUME Types, Crash
  PROVE  Crashed
<1>1. Ended("interrupted")
  BY EndsAs DEF Crash, Types, Outcomes
<1>2. /\ actions' = {a \in actions : a.status \in {"pending", "uncertain"}} \union {Set(a, "uncertain") : a \in Doubted}
      /\ saved' = saved \union run.from
  BY DEF Crash, Released, Doubted, Set
<1>3. Len(row) \in Nat /\ DOMAIN row = 1 .. Len(row) /\ \A r \in 1 .. Len(row) : row[r] \in Statuses
  BY SeqFacts DEF Types
<1>4. row' = [r \in 1 .. Len(row) |-> IF row[r] \in {"running", "waiting_for_approval"} THEN "interrupted" ELSE row[r]]
  BY <1>3 DEF Crash
<1>5. row' \in [1 .. Len(row) -> Statuses]
  BY <1>3, <1>4, StatusesAre
<1>6. row' \in Seq(Statuses) /\ Len(row') = Len(row)
  BY <1>3, <1>5, FunctionIsSeq
<1>7. \A r \in 1 .. Len(row) : row'[r] # "running"
  BY <1>4
<1>8. IsFiniteSet(Doubted)
  BY FS_Subset DEF Types, Doubted
<1>9. IsFiniteSet(actions')
  <2> DEFINE kept == {a \in actions : a.status \in {"pending", "uncertain"}}
             set == [a \in Doubted |-> Set(a, "uncertain")]
  <2>1. IsFiniteSet(kept)
    BY FS_Subset DEF Types
  <2>2. IsFiniteSet({set[a] : a \in Doubted})
    BY <1>8, ImageIsFinite
  <2>3. actions' = kept \union {set[a] : a \in Doubted}
    BY <1>2
  <2> QED
    BY <2>1, <2>2, <2>3, FS_Union
<1>10. \E warnings \in Seq(Message) :
         /\ transcript' = transcript \o warnings
         /\ \A n \in 1 .. Len(warnings) :
              /\ warnings[n].role = "tool" /\ warnings[n].name = "warning" /\ \E a \in Doubted : warnings[n].of = a.call
              /\ \A m \in 1 .. Len(warnings) : warnings[m].of = warnings[n].of => m = n
  <2> DEFINE S == {a.call : a \in Doubted}
             k == Cardinality(S)
  <2>1. IsFiniteSet(S)
    <3> DEFINE call == [a \in Doubted |-> a.call]
    <3>1. IsFiniteSet({call[a] : a \in Doubted})
      BY <1>8, ImageIsFinite
    <3>2. S = {call[a] : a \in Doubted}
      OBVIOUS
    <3> QED
      BY <3>1, <3>2
  <2>2. k \in Nat
    BY <2>1, FS_CardinalityType
  <2>3. PICK calls \in InAnyOrder(S) : transcript' = transcript \o [n \in DOMAIN calls |-> Warns(calls[n])]
    BY DEF Crash, Doubted
  <2> HIDE DEF k
  <2>4. DOMAIN calls = 1 .. k /\ (\A n \in 1 .. k : calls[n] \in S) /\ \A m, n \in 1 .. k : calls[m] = calls[n] => m = n
    BY <2>3 DEF InAnyOrder, k
  <2>5. \A n \in 1 .. k : calls[n] \in Nat /\ \E a \in Doubted : calls[n] = a.call
    BY <2>4 DEF Types, Action, Doubted
  <2> DEFINE warnings == [n \in 1 .. k |-> Warns(calls[n])]
  <2>6. /\ warnings \in [1 .. k -> Message]
        /\ \A n \in 1 .. k : warnings[n].role = "tool" /\ warnings[n].name = "warning" /\ warnings[n].of = calls[n]
    BY <2>5, WarnsIs
  <2>7. transcript' = transcript \o warnings
    BY <2>3, <2>4
  <2> HIDE DEF warnings
  <2>8. warnings \in Seq(Message) /\ Len(warnings) = k
    BY <2>2, <2>6, FunctionIsSeq
  <2>9. ASSUME NEW n \in 1 .. Len(warnings)
        PROVE  /\ warnings[n].role = "tool" /\ warnings[n].name = "warning"
               /\ \E a \in Doubted : warnings[n].of = a.call
               /\ \A m \in 1 .. Len(warnings) : warnings[m].of = warnings[n].of => m = n
    BY <2>4, <2>5, <2>6, <2>8
  <2> QED
    BY <2>7, <2>8, <2>9
<1> QED
  BY <1>1, <1>2, <1>6, <1>7, <1>9, <1>10 DEF Crashed

\* Each action that is left was there, with the same call and run.
LEMMA CrashLeaves ==
  ASSUME Types, Crashed, NEW a \in actions'
  PROVE  /\ a \in Action /\ a.status \in {"pending", "uncertain"}
         /\ \E b \in actions :
              /\ b.call = a.call /\ b.run = a.run
              /\ a = b \/ (a.status = "uncertain" /\ b.status \in Executing)
<1>1. CASE a \in {b \in actions : b.status \in {"pending", "uncertain"}}
  BY <1>1 DEF Types
<1>2. CASE a \in {Set(b, "uncertain") : b \in Doubted}
  <2>1. PICK b \in Doubted : a = Set(b, "uncertain")
    BY <1>2
  <2>2. b \in Action /\ b \in actions /\ b.status \in Executing /\ "uncertain" \in ActionStatuses
    BY <2>1 DEF Doubted, Types, ActionStatuses
  <2> QED
    BY <2>1, <2>2, SetIs
<1> QED
  BY <1>1, <1>2 DEF Crashed

LEMMA TypesOthers ==
  ASSUME Types, Refers, Others
  PROVE  Types'
<1> USE DEF Types
<1>1. ASSUME NEW reason, Write(reason) PROVE Types'
  BY <1>1, MessagesAre, AppendProperties DEF Write
<1>2. ASSUME NEW reason, TurnedAway(reason) PROVE Types'
  BY <1>2 DEF TurnedAway
<1>3. CASE StoreNote
  BY <1>3, MessagesAre, AppendProperties DEF StoreNote
<1>4. CASE Stop
  BY <1>4 DEF Stop, durable
<1>5. CASE Crash
  <2>1. Crashed
    BY <1>5, CrashIs
  <2>2. actions' \subseteq Action
    BY <2>1, CrashLeaves
  <2>3. saved' \subseteq Checkpoint
    BY <2>1 DEF Crashed, Run
  <2>4. UNCHANGED <<goals, tracker>>
    BY <1>5 DEF Crash
  <2>5. transcript' \in Seq(Message)
    BY <2>1, ConcatProperties DEF Crashed
  <2> QED
    BY <2>1, <2>2, <2>3, <2>4, <2>5, NoneWhole DEF Crashed, Ended
<1>6. ASSUME NEW a \in actions, NEW b, Decided(a, b) PROVE Types'
  <2>1. a \in Action /\ a.run \in 1 .. Len(row) /\ a.call \in Nat
    BY DEF Refers, Action
  <2>2. actions' \subseteq Action /\ IsFiniteSet(actions')
    <3>1. actions' = (actions \ {a}) \union {b} /\ b \in Action
      BY <1>6 DEF Decided
    <3>2. IsFiniteSet(actions \ {a})
      BY FS_RemoveElement
    <3> QED
      BY <3>1, <3>2, FS_AddElement
  <2>3. row' \in Seq(Statuses)
    <3>1. [row EXCEPT ![a.run] = "running"] \in Seq(Statuses)
      BY <2>1, RowSet, StatusesAre
    <3> QED
      BY <1>6, <3>1 DEF Decided
  <2>4. transcript' \in Seq(Message)
    <3>1. Append(transcript, Answers(a.call)) \in Seq(Message)
      BY <2>1, AnswersIs, AppendProperties
    <3> QED
      BY <1>6, <3>1 DEF Decided
  <2> QED
    BY <1>6, <2>2, <2>3, <2>4 DEF Decided
<1>7. ASSUME NEW a \in actions, ActionResolved(a) PROVE Types'
  <2>1. a \in Action /\ a.run \in 1 .. Len(row)
    BY DEF Refers
  <2>2. PICK x \in {"completed", "waiting_for_approval"} : row' = [row EXCEPT ![a.run] = x]
    BY <1>7 DEF ActionResolved
  <2>3. row' \in Seq(Statuses)
    BY <2>1, <2>2, RowSet, StatusesAre
  <2>4. /\ actions' = (actions \ {a}) \union {Set(a, "told")}
        /\ UNCHANGED <<transcript, goals, saved, run, context, chained, tracker, issued>>
    BY <1>7 DEF ActionResolved, Becomes, Set
  <2>5. actions' \subseteq Action
    BY <2>1, <2>4, SetIs DEF ActionStatuses
  <2>6. IsFiniteSet(actions')
    <3>1. IsFiniteSet(actions \ {a})
      BY FS_RemoveElement
    <3> QED
      BY <2>4, <3>1, FS_AddElement
  <2> QED
    BY <2>3, <2>4, <2>5, <2>6
<1>8. ASSUME NEW a \in actions, ResumeBatch(a) PROVE Types'
  <2>1. actions' = actions \ {a} /\ UNCHANGED <<transcript, goals, row, saved, run, context, chained, tracker, issued>>
    BY <1>8 DEF ResumeBatch
  <2>2. IsFiniteSet(actions')
    BY <2>1, FS_RemoveElement
  <2> QED
    BY <2>1, <2>2
<1> QED
  BY <1>1, <1>2, <1>3, <1>4, <1>5, <1>6, <1>7, <1>8, DecidedIs DEF Others

\* What a run begins with.\* What a run begins with.
Begun(from) ==
  /\ run' \in Run /\ run'.phase = "top" /\ run'.from = from /\ run'.reply = <<>> /\ run'.left = <<>>
  /\ run'.outcome = "none" /\ run'.previous = FALSE /\ run'.approval = FALSE /\ run'.iteration = 0
  /\ row' \in Seq(Statuses) /\ Len(row') = Len(row) + 1 /\ \A r \in 1 .. Len(row) : row'[r] = row[r]
  /\ context' \in Seq(Message) /\ Whole(context') /\ Headed(context') /\ context'[1] = System("prompt")
  /\ spoiled' = {} /\ run.phase = "idle"
  /\ UNCHANGED <<transcript, goals, actions, chained, cancel, issued, used>>

LEMMA StartsIs ==
  ASSUME Types, NEW from \in SUBSET Checkpoint, NEW scheduled \in BOOLEAN, Starts(from, scheduled)
  PROVE  Begun(from)
<1> DEFINE i == Idle("none")
<1>1. /\ i \in Run /\ i.reply = <<>> /\ i.left = <<>> /\ i.outcome = "none" /\ i.previous = FALSE
      /\ i.approval = FALSE /\ i.iteration = 0
  BY IdleIs DEF Outcomes
<1>2. run' = [i EXCEPT !.phase = "top", !.from = from, !.scheduled = scheduled] /\ "top" \in Phases
  BY DEF Starts, Phases
<1> HIDE DEF i
<1>3. run' \in Run
  BY <1>1, <1>2 DEF Run
<1>4. /\ run'.reply = i.reply /\ run'.left = i.left /\ run'.outcome = i.outcome /\ run'.previous = i.previous
      /\ run'.approval = i.approval /\ run'.iteration = i.iteration
  BY <1>1, <1>2 DEF Run
<1>5. run'.phase = "top" /\ run'.from = from
  BY <1>1, <1>2 DEF Run
<1>6. /\ row' = Append(row, "running") /\ context' = Prepared(from # {}, scheduled) /\ spoiled' = {} /\ run.phase = "idle"
      /\ UNCHANGED <<transcript, goals, actions, chained, cancel, issued, used>>
  BY DEF Starts
<1>7. row' \in Seq(Statuses) /\ Len(row') = Len(row) + 1 /\ \A r \in 1 .. Len(row) : row'[r] = row[r]
  BY <1>6, StatusesAre, AppendProperties DEF Types
<1>8. context' \in Seq(Message) /\ Whole(context') /\ Headed(context') /\ context'[1] = System("prompt")
  <2>1. transcript \in Seq(Message) /\ (from # {}) \in BOOLEAN
    BY DEF Types
  <2> QED
    BY <2>1, <1>6, PreparedOf
<1> QED
  BY <1>1, <1>3, <1>4, <1>5, <1>6, <1>7, <1>8 DEF Begun

LEMMA NoTrackerIs == NoTracker \in Tracker /\ NoTracker.goal = 0
<1>1. <<>> \in Seq(STRING)
  BY EmptySeq
<1>2. NoTracker.goal = 0
  BY DEF NoTracker
<1> QED
  BY <1>1, <1>2 DEF NoTracker, Tracker

LEMMA BeginIs ==
  ASSUME Types, NEW reason, Begin(reason)
  PROVE  Begun({}) /\ saved' = saved /\ tracker' \in Tracker /\ tracker'.goal = 0
<1>1. PICK done : /\ done \in IF {g \in DOMAIN goals : goals[g].status = "active"} = {} THEN {0}
                             ELSE {goals[g].done : g \in {g \in DOMAIN goals : goals[g].status = "active"}}
                  /\ tracker' = [NoTracker EXCEPT !.done = done]
  BY DEF Begin
<1>2. done \in {0, 1}
  <2>1. \A g \in DOMAIN goals : goals[g].done \in {0, 1}
    <3>1. \A g \in DOMAIN goals : goals[g] \in Goal
      BY SeqFacts DEF Types
    <3> QED
      BY <3>1 DEF Goal
  <2> QED
    BY <1>1, <2>1
<1>3. tracker' \in Tracker /\ tracker'.goal = 0
  BY <1>1, <1>2, NoTrackerIs DEF Tracker
<1>4. Begun({})
  <2>1. Starts({}, reason = "schedule") /\ (reason = "schedule") \in BOOLEAN
    BY DEF Begin
  <2> QED
    BY <2>1, StartsIs
<1> QED
  BY <1>3, <1>4 DEF Begin

LEMMA ContinueIs ==
  ASSUME Types, Refers, NEW c \in saved, Continue(c)
  PROVE  /\ Begun({c}) /\ saved' = saved \ {c} /\ c \in Checkpoint /\ c.goal \in 1 .. Len(goals)
         /\ tracker' \in Tracker /\ tracker'.goal = c.goal /\ tracker'.open = (goals[c.goal].status = "active")
<1>1. c \in Checkpoint /\ c.goal \in 1 .. Len(goals) /\ c.goal \in Nat /\ c.reads \subseteq {"read"} /\ c.scheduled \in BOOLEAN
  BY DEF Types, Refers, Checkpoint
<1>2. goals[c.goal].done \in {0, 1}
  <2>1. goals[c.goal] \in Goal
    BY <1>1, SeqFacts DEF Types
  <2> QED
    BY <2>1 DEF Goal
<1>3. tracker' = [NoTracker EXCEPT !.goal = c.goal, !.open = (goals[c.goal].status = "active"),
                                   !.done = goals[c.goal].done, !.reads = c.reads]
  BY DEF Continue
<1>4. (goals[c.goal].status = "active") \in BOOLEAN
  OBVIOUS
<1>5. tracker' \in Tracker /\ tracker'.goal = c.goal /\ tracker'.open = (goals[c.goal].status = "active")
  BY <1>1, <1>2, <1>3, <1>4, NoTrackerIs DEF Tracker
<1>6. Begun({c})
  <2>1. Starts({c}, c.scheduled)
    BY DEF Continue
  <2> QED
    BY <2>1, <1>1, StartsIs
<1> QED
  BY <1>1, <1>5, <1>6 DEF Continue

LEMMA TypesBegins ==
  ASSUME Types, Refers, Begins
  PROVE  Types'
<1>1. ASSUME NEW reason, Begin(reason) PROVE Types'
  BY <1>1, BeginIs DEF Begun, Types
<1>2. ASSUME NEW c \in saved, Continue(c) PROVE Types'
  BY <1>2, ContinueIs DEF Begun, Types
<1> QED
  BY <1>1, <1>2 DEF Begins

LEMMA TypesStep ==
  ASSUME Types, Refers, ContextWhole, [Next]_vars
  PROVE  Types'
<1>1. CASE RunOut
  BY <1>1, DeferTypes DEF RunOut, At
<1>2. CASE StopAtTop
  BY <1>2, CancelledTypes DEF StopAtTop, At
<1>3. CASE StoreFails
  BY <1>3, FailTypes DEF StoreFails
<1>4. CASE UNCHANGED vars
  BY <1>4 DEF vars, durable, Types
<1> QED
  BY <1>1, <1>2, <1>3, <1>4, TypesOthers, TypesBegins, TypesAsking, TypesTexts, TypesTools DEF Next, Runs

-------------------------------------------------------------------------------
(* What the other steps of a run do *)

Same(q, r) == Alike(q, r) /\ q.reply = r.reply /\ q.left = r.left /\ q.approval = r.approval

\* The run goes from one phase to another, and keeps what it knows of its goal.
Moves(from, to) ==
  /\ run.phase = from /\ Same(run', run) /\ run'.phase = to

LEMMA MovesIs ==
  ASSUME Types, NEW to \in Phases, run' = [run EXCEPT !.phase = to]
  PROVE  Moves(run.phase, to)
<1>1. run \in Run
  BY DEF Types
<1>2. run' \in Run
  BY <1>1 DEF Run
<1>3. /\ run'.from = run.from /\ run'.scheduled = run.scheduled /\ run'.outcome = run.outcome /\ run'.asked = run.asked
      /\ run'.previous = run.previous /\ run'.iteration = run.iteration
  BY <1>1 DEF Run
<1>4. run'.reply = run.reply /\ run'.left = run.left /\ run'.approval = run.approval /\ run'.phase = to
  BY <1>1 DEF Run
<1> QED
  BY <1>2, <1>3, <1>4 DEF Moves, Same, Alike

Thinks ==
  /\ run.iteration < MaxIterations /\ RowIs("running")
  /\ Moves("top", "full") \/ (run.previous /\ Moves("top", "chained"))
  /\ \/ UNCHANGED <<context, chained>>
     \/ context' = Bounded(Tracked(context)) /\ chained' = Append(chained, System("goal_tracker"))
  /\ UNCHANGED <<transcript, goals, actions, saved, tracker, issued, spoiled>>

LEMMA ThinkIs ==
  ASSUME Types, Refers, Think
  PROVE  Thinks
<1>1. run.phase = "top" /\ run.iteration < MaxIterations
  BY DEF Think, At
<1>2. RowIs("running")
  BY <1>1, RowAs, StatusesAre DEF Think
<1>3. run' = [run EXCEPT !.phase = IF Optimised /\ run.previous THEN "chained" ELSE "full"]
  BY DEF Think
<1>4. "chained" \in Phases /\ "full" \in Phases
  BY DEF Phases
<1>5. Moves("top", "full") \/ (run.previous /\ Moves("top", "chained"))
  <2>1. CASE Optimised /\ run.previous
    <3>1. run' = [run EXCEPT !.phase = "chained"]
      BY <1>3, <2>1
    <3> QED
      BY <1>1, <1>4, <2>1, <3>1, MovesIs
  <2>2. CASE ~ (Optimised /\ run.previous)
    <3>1. run' = [run EXCEPT !.phase = "full"]
      BY <1>3, <2>2
    <3> QED
      BY <1>1, <1>4, <3>1, MovesIs
  <2> QED
    BY <2>1, <2>2
<1> QED
  BY <1>1, <1>2, <1>5 DEF Think, Thinks

\* A reply: its calls are new, and what happened before it is known to the model.
Replied(reply) ==
  /\ reply \in Replies /\ run.phase \in {"chained", "full"}
  /\ run' \in Run /\ run'.phase = (IF reply = <<>> THEN "text" ELSE "batch")
  /\ run'.reply = Numbered(reply) /\ run'.asked = Ids(Numbered(reply)) /\ run'.previous = TRUE
  /\ run'.from = run.from /\ run'.scheduled = run.scheduled /\ run'.outcome = run.outcome
  /\ run'.iteration = run.iteration /\ run'.left = run.left /\ run'.approval = run.approval
  /\ chained' = <<>> /\ issued' = issued + Len(reply)
  /\ UNCHANGED <<durable, context, tracker, spoiled>>

LEMMA ReplyIs ==
  ASSUME Types, NEW reply \in Replies, Reply(reply)
  PROVE  Replied(reply)
<1> DEFINE calls == Numbered(reply)
           phase == IF reply = <<>> THEN "text" ELSE "batch"
<1>1. run \in Run /\ calls \in Seq(Call) /\ Ids(calls) \in SUBSET Nat
  BY NumberedIs DEF Types
<1>2. run' = [run EXCEPT !.phase = phase, !.reply = calls, !.previous = TRUE, !.asked = Ids(calls)] /\ phase \in Phases
  BY DEF Reply, Phases
<1> HIDE DEF calls, phase
<1>3. run' \in Run
  BY <1>1, <1>2 DEF Run
<1>4. run'.phase = phase /\ run'.reply = calls /\ run'.asked = Ids(calls) /\ run'.previous = TRUE
  BY <1>1, <1>2 DEF Run
<1>5. /\ run'.from = run.from /\ run'.scheduled = run.scheduled /\ run'.outcome = run.outcome
      /\ run'.iteration = run.iteration /\ run'.left = run.left /\ run'.approval = run.approval
  BY <1>1, <1>2 DEF Run
<1> QED
  BY <1>3, <1>4, <1>5 DEF Replied, Reply, calls, phase

\* The next iteration after a text, or after a batch that is repeated.
Turns(name) ==
  /\ run' \in Run /\ run'.phase = "top" /\ run'.from = run.from /\ run'.scheduled = run.scheduled
  /\ run'.outcome = run.outcome /\ run'.asked = run.asked /\ run'.left = run.left /\ run'.approval = run.approval
  /\ context' = Append(Append(context, Says), System(name))
  /\ System(name) \in Message /\ ~ Calls(System(name)) /\ System(name).role = "system"
  /\ tracker' \in Tracker /\ tracker'.goal = tracker.goal /\ tracker'.open = tracker.open
  /\ UNCHANGED <<durable, issued, spoiled>>

LEMMA TextTurns ==
  ASSUME Types, Refers, Reflect \/ Withhold
  PROVE  /\ run.phase = "text" /\ run'.reply = run.reply /\ run'.previous = run.previous
         /\ \E name \in {"feedback", "active_goal_continuation"} :
              Turns(name) /\ chained' = Append(chained, System(name))
<1>1. /\ run.phase = "text"
      /\ \/ run' = [run EXCEPT !.phase = "top", !.iteration = run.iteration + 1, !.reflected = TRUE]
         \/ /\ run' = [run EXCEPT !.phase = "top", !.iteration = run.iteration + 1, !.premature = run.premature + 1]
      /\ \E name \in {"feedback", "active_goal_continuation"} : Revises(name)
  BY DEF Reflect, Withhold, At
<1>2. run \in Run /\ run' \in Run
  <2>1. Types'
    BY TypesTexts DEF Texts
  <2> QED
    BY <2>1 DEF Types
<1>3. /\ run'.phase = "top" /\ run'.from = run.from /\ run'.scheduled = run.scheduled
      /\ run'.outcome = run.outcome /\ run'.asked = run.asked
  BY <1>1, <1>2 DEF Run
<1>4. run'.left = run.left /\ run'.approval = run.approval /\ run'.reply = run.reply /\ run'.previous = run.previous
  BY <1>1, <1>2 DEF Run
<1>5. PICK name \in {"feedback", "active_goal_continuation"} : Revises(name)
  BY <1>1
<1>6. /\ context' = Append(Append(context, Says), System(name)) /\ chained' = Append(chained, System(name))
      /\ System(name) \in Message /\ ~ Calls(System(name)) /\ System(name).role = "system"
      /\ UNCHANGED <<durable, tracker, issued, spoiled>>
  BY <1>5, RevisesTypes DEF Revises
<1>7. Turns(name) /\ chained' = Append(chained, System(name))
  BY <1>2, <1>3, <1>4, <1>6 DEF Turns, Types
<1> QED
  BY <1>1, <1>4, <1>7

LEMMA WarnTurns ==
  ASSUME Types, Refers, Warn
  PROVE  /\ run.phase = "batch" /\ run'.reply = <<>> /\ run'.previous = FALSE
         /\ Turns("loop_guard") /\ chained' = chained
<1>1. /\ run.phase = "batch" /\ tracker' = Noted
      /\ run' = [run EXCEPT !.phase = "top", !.iteration = run.iteration + 1, !.reply = <<>>, !.previous = FALSE]
      /\ context' = context \o <<Says, System("loop_guard")>> /\ UNCHANGED <<durable, chained, issued, spoiled>>
  BY DEF Warn, At
<1>2. run \in Run /\ run' \in Run
  <2>1. Types'
    BY TypesTools DEF Tools
  <2> QED
    BY <2>1 DEF Types
<1>3. /\ run'.phase = "top" /\ run'.from = run.from /\ run'.scheduled = run.scheduled
      /\ run'.outcome = run.outcome /\ run'.asked = run.asked
  BY <1>1, <1>2 DEF Run
<1>4. run'.left = run.left /\ run'.approval = run.approval /\ run'.reply = <<>> /\ run'.previous = FALSE
  BY <1>1, <1>2 DEF Run
<1>5. /\ context' = Append(Append(context, Says), System("loop_guard"))
      /\ System("loop_guard") \in Message /\ ~ Calls(System("loop_guard")) /\ System("loop_guard").role = "system"
  BY <1>1, RevisesTypes
<1> QED
  BY <1>1, <1>2, <1>3, <1>4, <1>5, NotedIs DEF Turns

\* The calls are recorded before they are executed.
Records ==
  /\ Moves("batch", "tools")
  /\ transcript' = Append(transcript, Asks(Ids(run.reply))) /\ context' = Append(context, Asks(Ids(run.reply)))
  /\ tracker' \in Tracker /\ tracker'.goal = tracker.goal /\ tracker'.open = tracker.open
  /\ UNCHANGED <<goals, actions, row, saved, chained, issued, spoiled>>

LEMMA RecordIs ==
  ASSUME Types, Record
  PROVE  Records
<1>1. run.phase = "batch" /\ run' = [run EXCEPT !.phase = "tools"] /\ "tools" \in Phases /\ tracker' = Noted
  BY DEF Record, At, Phases
<1>2. Moves("batch", "tools")
  BY <1>1, MovesIs
<1> QED
  BY <1>1, <1>2, NotedIs DEF Records, Record

\* All calls of the batch are answered that they come too early, or with an error.
AnswersEarly ==
  /\ run.phase = "tools" /\ Alike(run', run) /\ run'.phase = "answers" /\ run'.reply = <<>> /\ run'.left = Early
  /\ run'.approval = run.approval
  /\ UNCHANGED <<transcript, actions, row, saved, context, chained, tracker, issued>>

LEMMA EarlyAnswers ==
  ASSUME Types, PlanFails \/ Activate
  PROVE  AnswersEarly
<1>1. run.phase = "tools" /\ run' = WillAnswer(Early)
  BY DEF PlanFails, Activate, At
<1>2. Alike(run', run) /\ run'.phase = "answers" /\ run'.reply = <<>> /\ run'.left = Early /\ run'.approval = run.approval
  BY <1>1, EarlyIs, WillAnswerIs DEF Types
<1>3. UNCHANGED <<transcript, actions, row, saved, context, chained, tracker, issued>>
  BY DEF PlanFails, Activate, durable
<1> QED
  BY <1>1, <1>2, <1>3 DEF AnswersEarly

-------------------------------------------------------------------------------
(* Rows and goals *)

\* A run that ends: its row stays, and a checkpoint it leaves has a goal.
LEMMA RefersEnded ==
  ASSUME Types, Refers, NEW o, Ended(o), Len(row') = Len(row), UNCHANGED <<actions, tracker>>,
         Len(goals') \in Nat, Len(goals') >= Len(goals), \A c \in saved' : c.goal \in 1 .. Len(goals')
  PROVE  Refers'
<1>1. Len(goals) \in Nat
  BY SeqFacts DEF Types
<1>2. tracker.goal \in 0 .. Len(goals')
  BY <1>1 DEF Refers
<1> QED
  BY <1>2 DEF Refers, Ended

\* A run that goes on.
LEMMA RefersGoes ==
  ASSUME Types, Refers, run.phase # "idle", Len(row') = Len(row), saved' = saved, run'.from = run.from,
         \A a \in actions' : a.run \in 1 .. Len(row),
         Len(goals') \in Nat, Len(goals') >= Len(goals), tracker'.goal \in 0 .. Len(goals'),
         run.from # {} => tracker'.goal # 0,
         run'.phase = "top" \/ run'.iteration < MaxIterations
  PROVE  Refers'
<1>1. Len(goals) \in Nat
  BY SeqFacts DEF Types
<1>2. \A c \in saved \union run.from : c.goal \in 1 .. Len(goals')
  BY <1>1 DEF Refers
<1> QED
  BY <1>2 DEF Refers

\* The same when neither goals nor actions change.
LEMMA RefersStays ==
  ASSUME Types, Refers, run.phase # "idle", Len(row') = Len(row), UNCHANGED <<saved, goals, actions>>,
         run'.from = run.from, tracker'.goal = tracker.goal,
         run'.phase = "top" \/ run'.iteration < MaxIterations
  PROVE  Refers'
<1>1. Len(goals') \in Nat /\ Len(goals') >= Len(goals) /\ tracker'.goal \in 0 .. Len(goals')
  <2>1. Len(goals) \in Nat
    BY SeqFacts DEF Types
  <2> QED
    BY <2>1 DEF Refers
<1>2. \A a \in actions' : a.run \in 1 .. Len(row)
  BY DEF Refers
<1>3. run.from # {} => tracker'.goal # 0
  BY DEF Refers
<1> QED
  BY <1>1, <1>2, <1>3, RefersGoes

LEMMA DeferRefers ==
  ASSUME Types, Refers, run.phase # "idle", Defer
  PROVE  Refers'
<1> DEFINE g == IF tracker.goal # 0 THEN tracker.goal ELSE Len(goals) + 1
           c == [goal |-> g, reads |-> tracker.reads, scheduled |-> run.scheduled]
           new == [status |-> "active", done |-> 0]
<1>1. RowIs("queued") /\ Ended("deferred")
  BY DeferTypes
<1>2. Len(goals) \in Nat /\ tracker.goal \in 0 .. Len(goals) /\ goals \in Seq(Goal)
  BY SeqFacts DEF Types, Refers
<1>3. new \in Goal
  BY DEF Goal
<1>4. goals' = (IF tracker.goal # 0 THEN goals ELSE Append(goals, new)) /\ saved' = saved \union {c}
      /\ UNCHANGED <<actions, tracker>>
  BY DEF Defer
<1> HIDE DEF new
<1>5. Len(goals') = IF tracker.goal # 0 THEN Len(goals) ELSE Len(goals) + 1
  BY <1>2, <1>3, <1>4, AppendProperties
<1>6. g \in 1 .. Len(goals') /\ Len(goals') \in Nat /\ Len(goals') >= Len(goals)
  BY <1>2, <1>5
<1> HIDE DEF g
<1>7. \A k \in saved' : k.goal \in 1 .. Len(goals')
  <2>1. \A k \in saved : k.goal \in 1 .. Len(goals')
    BY <1>2, <1>6 DEF Refers
  <2>2. c.goal = g
    OBVIOUS
  <2> QED
    BY <1>4, <1>6, <2>1, <2>2
<1> QED
  BY <1>1, <1>4, <1>6, <1>7, RefersEnded DEF RowIs

LEMMA EndingRefers ==
  ASSUME Types, Refers, run.phase # "idle", Cancelled \/ Fail \/ Stores
  PROVE  Refers'
<1>1. /\ \E o : Ended(o)
      /\ Len(row') = Len(row)
  BY CancelledTypes, FailTypes, StoresTypes DEF RowIs
<1>2. saved' \subseteq saved \union run.from /\ UNCHANGED <<goals, actions, tracker>>
  BY DEF Cancelled, Fail, Stores, Released
<1>3. Len(goals') \in Nat /\ Len(goals') >= Len(goals) /\ \A c \in saved' : c.goal \in 1 .. Len(goals')
  <2>1. Len(goals) \in Nat
    BY SeqFacts DEF Types
  <2> QED
    BY <2>1, <1>2 DEF Refers
<1> QED
  BY <1>1, <1>2, <1>3, RefersEnded

LEMMA RefersOthers ==
  ASSUME Types, Refers, Others
  PROVE  Refers'
<1>1. ASSUME NEW reason, Write(reason) \/ TurnedAway(reason) \/ StoreNote \/ Stop PROVE Refers'
  BY <1>1 DEF Write, TurnedAway, StoreNote, Stop, durable, Refers
<1>2. CASE Crash
  <2>1. Crashed /\ UNCHANGED <<goals, tracker>>
    BY <1>2, CrashIs DEF Crash
  <2>2. \A a \in actions' : a.run \in 1 .. Len(row')
    BY <2>1, CrashLeaves DEF Crashed, Refers
  <2> QED
    BY <2>1, <2>2 DEF Crashed, Ended, Refers
<1>3. ASSUME NEW a \in actions, NEW b, Decided(a, b) PROVE Refers'
  <2>1. a.run \in 1 .. Len(row)
    BY DEF Refers
  <2>2. Len(row') = Len(row)
    <3>1. Len([row EXCEPT ![a.run] = "running"]) = Len(row)
      BY <2>1, RowSet, StatusesAre DEF Types
    <3> QED
      BY <1>3, <3>1 DEF Decided
  <2>3. \A k \in actions' : k.run \in 1 .. Len(row')
    BY <1>3, <2>1, <2>2 DEF Decided, Refers
  <2> QED
    BY <1>3, <2>2, <2>3 DEF Decided, Refers
<1>4. ASSUME NEW a \in actions, ActionResolved(a) PROVE Refers'
  <2>1. a.run \in 1 .. Len(row)
    BY DEF Refers
  <2>2. PICK x \in {"completed", "waiting_for_approval"} : row' = [row EXCEPT ![a.run] = x]
    BY <1>4 DEF ActionResolved
  <2>3. Len(row') = Len(row)
    BY <2>1, <2>2, RowSet, StatusesAre DEF Types
  <2>4. actions' = (actions \ {a}) \union {Set(a, "told")} /\ Set(a, "told").run = a.run
    BY <1>4, SetIs DEF ActionResolved, Becomes, Set, Types, ActionStatuses
  <2>5. \A k \in actions' : k.run \in 1 .. Len(row')
    BY <2>3, <2>4 DEF Refers
  <2> QED
    BY <2>3, <2>5, <1>4 DEF ActionResolved, Refers
<1>5. ASSUME NEW a \in actions, ResumeBatch(a) PROVE Refers'
  BY <1>5 DEF ResumeBatch, Refers
<1> QED
  BY <1>1, <1>2, <1>3, <1>4, <1>5, DecidedIs DEF Others

LEMMA RefersBegins ==
  ASSUME Types, Refers, Begins
  PROVE  Refers'
<1>1. Len(row) \in Nat /\ Len(goals) \in Nat
  BY SeqFacts DEF Types
<1>2. ASSUME NEW reason, Begin(reason) PROVE Refers'
  <2>1. Begun({}) /\ saved' = saved /\ tracker'.goal = 0
    BY <1>2, BeginIs
  <2>2. \A a \in actions' : a.run \in 1 .. Len(row')
    BY <1>1, <2>1 DEF Begun, Refers
  <2> QED
    BY <1>1, <2>1, <2>2 DEF Begun, Refers
<1>3. ASSUME NEW c \in saved, Continue(c) PROVE Refers'
  <2>1. Begun({c}) /\ saved' = saved \ {c} /\ c.goal \in 1 .. Len(goals) /\ tracker'.goal = c.goal
    BY <1>3, ContinueIs
  <2>2. \A a \in actions' : a.run \in 1 .. Len(row')
    BY <1>1, <2>1 DEF Begun, Refers
  <2> QED
    BY <1>1, <2>1, <2>2 DEF Begun, Refers
<1> QED
  BY <1>2, <1>3 DEF Begins

LEMMA RefersTools ==
  ASSUME Types, Refers, Tools
  PROVE  Refers'
<1>0. run.phase \notin {"idle", "top"} => run.iteration < MaxIterations
  BY DEF Refers
<1>1. CASE Warn
  <2>1. Turns("loop_guard") /\ run.phase = "batch"
    BY <1>1, WarnTurns
  <2> QED
    BY <2>1, RefersStays DEF Turns, durable
<1>2. CASE Stuck
  BY <1>2, DeferRefers, EndingRefers DEF Stuck, At
<1>3. CASE Record
  <2>1. Records
    BY <1>3, RecordIs
  <2> QED
    BY <2>1, <1>0, RefersStays DEF Records, Moves, Same, Alike
<1>4. CASE Plan
  <2>1. PICK goal, plan : PlansAs(goal, plan)
    BY <1>4, PlanIs
  <2>2. UNCHANGED <<actions, row, saved>> /\ run.phase = "tools"
    BY <1>4 DEF Plan, At
  <2>3. Len(goals') \in Nat /\ Len(goals') >= Len(goals) /\ goal \in 1 .. Len(goals')
    <3>1. Len(goals) \in Nat
      BY SeqFacts DEF Types
    <3> QED
      BY <2>1, <3>1 DEF PlansAs
  <2>4. /\ tracker'.goal \in 0 .. Len(goals') /\ tracker'.goal # 0 /\ run'.from = run.from
        /\ run'.iteration < MaxIterations /\ \A a \in actions' : a.run \in 1 .. Len(row)
    BY <2>1, <2>2, <2>3, <1>0 DEF PlansAs, Alike, Refers
  <2> QED
    BY <2>2, <2>3, <2>4, RefersGoes
<1>5. CASE PlanFails
  <2>1. AnswersEarly
    BY <1>5, EarlyAnswers
  <2>2. Len(goals') \in Nat /\ Len(goals') >= Len(goals)
    <3> DEFINE g == [status |-> "active", done |-> 0]
    <3>1. g \in Goal /\ goals' \in {goals, Append(goals, g)}
      BY <1>5 DEF PlanFails, Goal
    <3> HIDE DEF g
    <3>2. goals \in Seq(Goal) /\ Len(goals) \in Nat
      BY SeqFacts DEF Types
    <3>3. Len(Append(goals, g)) = Len(goals) + 1
      BY <3>1, <3>2, AppendProperties
    <3> QED
      BY <3>1, <3>2, <3>3
  <2>3. /\ tracker'.goal \in 0 .. Len(goals') /\ (run.from # {} => tracker'.goal # 0) /\ run'.from = run.from
        /\ run'.iteration < MaxIterations /\ \A a \in actions' : a.run \in 1 .. Len(row)
    <3>1. Len(goals) \in Nat /\ tracker.goal \in 0 .. Len(goals)
      BY SeqFacts DEF Types, Refers
    <3>2. tracker'.goal \in 0 .. Len(goals')
      BY <2>1, <2>2, <3>1 DEF AnswersEarly
    <3> QED
      BY <2>1, <3>2, <1>0 DEF AnswersEarly, Alike, Refers
  <2> QED
    BY <2>1, <2>2, <2>3, RefersGoes DEF AnswersEarly
<1>6. CASE Activate
  <2>1. AnswersEarly /\ goals' = goals
    BY <1>6, EarlyAnswers DEF Activate, durable
  <2> QED
    BY <2>1, <1>0, RefersStays DEF AnswersEarly, Alike
<1>7. CASE Execute
  <2>1. PICK I, K : Executes(I, K)
    BY <1>7, ExecuteIs
  <2>2. UNCHANGED <<goals, saved, tracker>> /\ run.phase = "tools"
    BY <1>7 DEF Execute, At
  <2>3. \A a \in actions' : a.run \in 1 .. Len(row)
    <3>1. Len(row) \in 1 .. Len(row)
      <4>1. Len(row) \in Nat /\ Len(row) # 0
        BY <2>2, SeqFacts DEF Types, Refers
      <4> QED
        BY <4>1
    <3>2. \A a \in actions' : a \in actions \/ a.run = Len(row)
      BY <2>1 DEF Executes
    <3> QED
      BY <3>1, <3>2 DEF Refers
  <2>4. Len(row') = Len(row) /\ run'.from = run.from /\ run'.iteration < MaxIterations
    BY <2>1, <2>2, <1>0 DEF Executes, Alike, RowIs
  <2>5. Len(goals') \in Nat /\ Len(goals') >= Len(goals) /\ tracker'.goal \in 0 .. Len(goals')
    <3>1. Len(goals) \in Nat
      BY SeqFacts DEF Types
    <3> QED
      BY <2>2, <3>1 DEF Refers
  <2>6. run.from # {} => tracker'.goal # 0
    BY <2>2 DEF Refers
  <2> QED
    BY <2>2, <2>3, <2>4, <2>5, <2>6, RefersGoes
<1>8. CASE StopTools
  BY <1>8, EndingRefers DEF StopTools, At
<1>9. CASE Collect
  <2>1. Moves("executed", "answers")
    BY <1>9, MovesIs DEF Collect, At, Phases
  <2> QED
    BY <2>1, <1>9, <1>0, RefersStays DEF Collect, durable, Moves, Same, Alike
<1>10. CASE Answer
  <2>1. PICK c : AnswersFirst(c)
    BY <1>10, AnswerIs
  <2>2. run.phase = "answers" /\ UNCHANGED <<goals, actions, saved>> /\ Row("running")
    BY <1>10 DEF Answer, At
  <2>3. RowIs("running")
    BY <2>2, RowAs, StatusesAre
  <2> QED
    BY <2>1, <2>2, <2>3, <1>0, RefersStays DEF AnswersFirst, Alike, RowIs
<1>11. CASE Answered
  <2>1. run.phase = "answers"
    BY <1>11 DEF Answered, At
  <2>2. CASE Iterates /\ UNCHANGED <<durable, context, chained, tracker, cancel, issued, spoiled, used>>
    <3>1. run'.phase = "top" /\ run'.from = run.from
      BY <2>1, <2>2, IteratesIs
    <3> QED
      BY <2>1, <2>2, <3>1, RefersStays DEF durable
  <2>3. CASE Row("waiting_for_approval") /\ Ends("waiting") /\ UNCHANGED <<transcript, goals, actions, wanted, saved, tracker, spoiled, used>>
    <3>1. RowIs("waiting_for_approval") /\ Ended("waiting")
      BY <2>1, <2>3, RowAs, EndsAs, StatusesAre DEF Outcomes, Types
    <3>2. Len(goals') \in Nat /\ Len(goals') >= Len(goals) /\ \A c \in saved' : c.goal \in 1 .. Len(goals')
      <4>1. Len(goals) \in Nat
        BY SeqFacts DEF Types
      <4> QED
        BY <2>3, <4>1 DEF Refers
    <3> QED
      BY <2>3, <3>1, <3>2, RefersEnded DEF RowIs
  <2> QED
    BY <2>2, <2>3, <1>11 DEF Answered
<1> QED
  BY <1>1, <1>2, <1>3, <1>4, <1>5, <1>6, <1>7, <1>8, <1>9, <1>10, <1>11 DEF Tools

LEMMA RefersStep ==
  ASSUME Types, Refers, [Next]_vars
  PROVE  Refers'
<1>0. run.phase \notin {"idle", "top"} => run.iteration < MaxIterations
  BY DEF Refers
<1>1. CASE RunOut \/ GiveUp
  BY <1>1, DeferRefers DEF RunOut, GiveUp, At
<1>2. CASE StopAtTop \/ StoreFails \/ NoReply \/ Finish
  BY <1>2, EndingRefers DEF StopAtTop, StoreFails, NoReply, Finish, At
<1>3. CASE Think
  <2>1. Thinks
    BY <1>3, ThinkIs
  <2> QED
    BY <2>1, RefersStays DEF Thinks, Moves, Same, Alike, RowIs
<1>4. CASE ChainBreaks
  <2>1. Moves("chained", "full")
    BY <1>4, MovesIs DEF ChainBreaks, At, Phases
  <2> QED
    BY <2>1, <1>4, <1>0, RefersStays DEF ChainBreaks, durable, Moves, Same, Alike
<1>5. ASSUME NEW reply \in Replies, Reply(reply) PROVE Refers'
  <2>1. Replied(reply)
    BY <1>5, ReplyIs
  <2> QED
    BY <2>1, <1>0, RefersStays DEF Replied, durable
<1>6. CASE Reflect \/ Withhold
  <2>1. run.phase = "text" /\ \E name \in {"feedback", "active_goal_continuation"} : Turns(name)
    BY <1>6, TextTurns
  <2> QED
    BY <2>1, RefersStays DEF Turns, durable
<1>7. CASE UNCHANGED vars
  BY <1>7 DEF vars, durable, Refers
<1> QED
  BY <1>1, <1>2, <1>3, <1>4, <1>5, <1>6, <1>7, RefersOthers, RefersBegins, RefersTools DEF Next, Runs, Asking, Texts

-------------------------------------------------------------------------------
(* The rows that say that their run is running *)

LEMMA RunningEnded ==
  ASSUME Types, Types', RunningIsTrue, UNCHANGED actions, NEW x \in Statuses \ {"running"},
         RowIs(x) \/ (row[Len(row)] = x /\ row' = row)
  PROVE  RunningIsTrue'
<1>1. DOMAIN row = 1 .. Len(row) /\ DOMAIN row' = 1 .. Len(row') /\ Len(row) \in Nat
  BY SeqFacts DEF Types
<1>2. Len(row') = Len(row) /\ \A r \in 1 .. Len(row) : row'[r] = IF r = Len(row) THEN x ELSE row[r]
  BY DEF RowIs
<1> QED
  BY <1>1, <1>2 DEF RunningIsTrue

LEMMA RunningGoes ==
  ASSUME Types, Types', RunningIsTrue, run.phase # "idle", run'.phase # "idle", actions \subseteq actions',
         UNCHANGED row \/ \E x : RowIs(x)
  PROVE  RunningIsTrue'
<1>1. DOMAIN row = 1 .. Len(row) /\ DOMAIN row' = 1 .. Len(row') /\ Len(row) \in Nat
  BY SeqFacts DEF Types
<1>2. Len(row') = Len(row) /\ \A r \in 1 .. Len(row) : r # Len(row) => row'[r] = row[r]
  BY DEF RowIs
<1>3. DOMAIN row' = DOMAIN row
  BY <1>1, <1>2
<1> SUFFICES ASSUME NEW r \in DOMAIN row', row'[r] = "running", r # Len(row')
             PROVE  \E a \in actions' : a.run = r /\ a.status \in AtWork \union GivenUp
  BY DEF RunningIsTrue
<1>4. r \in DOMAIN row /\ row[r] = "running" /\ r # Len(row)
  BY <1>1, <1>2, <1>3
<1> QED
  BY <1>4 DEF RunningIsTrue

LEMMA RunningOthers ==
  ASSUME Types, Types', Refers, RunningIsTrue, Others
  PROVE  RunningIsTrue'
<1>0. DOMAIN row = 1 .. Len(row) /\ DOMAIN row' = 1 .. Len(row') /\ Len(row) \in Nat
  BY SeqFacts DEF Types
<1>1. ASSUME NEW reason, Write(reason) \/ TurnedAway(reason) \/ StoreNote \/ Stop PROVE RunningIsTrue'
  BY <1>1 DEF Write, TurnedAway, StoreNote, Stop, durable, RunningIsTrue
<1>2. CASE Crash
  BY <1>0, <1>2, CrashIs DEF Crashed, RunningIsTrue
<1>3. ASSUME NEW a \in actions, NEW b, Decided(a, b) PROVE RunningIsTrue'
  <2>1. a.run \in 1 .. Len(row)
    BY DEF Refers
  <2>2. /\ actions' = (actions \ {a}) \union {b} /\ b.run = a.run /\ b.status \in AtWork \union GivenUp /\ run' = run
        /\ row' \in {row, [row EXCEPT ![a.run] = "running"]}
    BY <1>3 DEF Decided
  <2>3. Len(row') = Len(row) /\ \A r \in 1 .. Len(row) : r # a.run => row'[r] = row[r]
    <3>1. /\ Len([row EXCEPT ![a.run] = "running"]) = Len(row)
          /\ \A r \in 1 .. Len(row) : r # a.run => [row EXCEPT ![a.run] = "running"][r] = row[r]
      BY <2>1, RowSet, StatusesAre DEF Types
    <3> QED
      BY <2>2, <3>1
  <2>4. DOMAIN row' = 1 .. Len(row)
    BY <1>0, <2>3
  <2> SUFFICES ASSUME NEW r \in 1 .. Len(row), row'[r] = "running"
               PROVE  \/ run.phase # "idle" /\ r = Len(row)
                      \/ \E k \in actions' : k.run = r /\ k.status \in AtWork \union GivenUp
    <3>0. run' = run /\ Len(row') = Len(row)
      BY <2>2, <2>3
    <3>1. \A r \in DOMAIN row' : row'[r] = "running" =>
            \/ run.phase # "idle" /\ r = Len(row)
            \/ \E k \in actions' : k.run = r /\ k.status \in AtWork \union GivenUp
      BY <2>4, Zenon
    <3> QED
      BY <3>0, <3>1, Zenon DEF RunningIsTrue
  <2>5. CASE r = a.run
    BY <2>2, <2>5
  <2>6. CASE r # a.run
    BY <1>0, <2>2, <2>3, <2>6 DEF RunningIsTrue
  <2> QED
    BY <2>5, <2>6
<1>4. ASSUME NEW a \in actions, ActionResolved(a) PROVE RunningIsTrue'
  <2>1. a.run \in 1 .. Len(row)
    BY DEF Refers
  <2>2. PICK x \in {"completed", "waiting_for_approval"} : row' = [row EXCEPT ![a.run] = x]
    BY <1>4 DEF ActionResolved
  <2>3. Len(row') = Len(row) /\ \A r \in 1 .. Len(row) : row'[r] = IF r = a.run THEN x ELSE row[r]
    BY <2>1, <2>2, RowSet, StatusesAre DEF Types
  <2>4. x # "running" /\ run' = run /\ \A k \in actions : k # a => k \in actions'
    BY <1>4 DEF ActionResolved, Becomes
  <2> SUFFICES ASSUME NEW r \in 1 .. Len(row), row'[r] = "running"
               PROVE  \/ run.phase # "idle" /\ r = Len(row)
                      \/ \E k \in actions' : k.run = r /\ k.status \in AtWork \union GivenUp
    BY <1>0, <2>3, <2>4 DEF RunningIsTrue
  <2>5. r # a.run /\ row[r] = "running"
    BY <2>3, <2>4
  <2> QED
    BY <1>0, <2>4, <2>5 DEF RunningIsTrue
<1>5. ASSUME NEW a \in actions, ResumeBatch(a) PROVE RunningIsTrue'
  <2>1. actions' = actions \ {a} /\ a.status = "told" /\ UNCHANGED <<run, row>>
    BY <1>5 DEF ResumeBatch
  <2>2. \A k \in actions : k.status \in AtWork \union GivenUp => k \in actions'
    BY <2>1 DEF AtWork, GivenUp
  <2> QED
    BY <2>1, <2>2 DEF RunningIsTrue
<1> QED
  BY <1>1, <1>2, <1>3, <1>4, <1>5, DecidedIs DEF Others

LEMMA RunningBegins ==
  ASSUME Types, Types', Refers, RunningIsTrue, Begins
  PROVE  RunningIsTrue'
<1>0. DOMAIN row = 1 .. Len(row) /\ DOMAIN row' = 1 .. Len(row') /\ Len(row) \in Nat
  BY SeqFacts DEF Types
<1>1. \E from : Begun(from)
  BY BeginIs, ContinueIs DEF Begins
<1>2. /\ run.phase = "idle" /\ run'.phase = "top" /\ Len(row') = Len(row) + 1 /\ actions' = actions
      /\ \A r \in 1 .. Len(row) : row'[r] = row[r]
  BY <1>1 DEF Begun
<1> SUFFICES ASSUME NEW r \in 1 .. Len(row'), row'[r] = "running", r # Len(row')
             PROVE  \E b \in actions : b.run = r /\ b.status \in AtWork \union GivenUp
  BY <1>0, <1>2 DEF RunningIsTrue
<1>3. r \in 1 .. Len(row) /\ row[r] = "running"
  BY <1>0, <1>2
<1> QED
  BY <1>0, <1>2, <1>3 DEF RunningIsTrue

LEMMA RunningTools ==
  ASSUME Types, Types', Refers, RunningIsTrue, Tools
  PROVE  RunningIsTrue'
<1>1. CASE Warn
  <2>1. Turns("loop_guard") /\ run.phase = "batch"
    BY <1>1, WarnTurns
  <2> QED
    BY <2>1, RunningGoes DEF Turns, durable
<1>2. CASE Stuck
  <2>1. UNCHANGED actions /\ (RowIs("queued") \/ RowIs("completed"))
    BY <1>2, DeferTypes, StoresTypes DEF Stuck, At, Defer, Stores
  <2> QED
    BY <2>1, RunningEnded, StatusesAre
<1>3. CASE Record
  <2>1. Records
    BY <1>3, RecordIs
  <2> QED
    BY <2>1, RunningGoes DEF Records, Moves
<1>4. CASE Plan
  <2>1. PICK goal, plan : PlansAs(goal, plan)
    BY <1>4, PlanIs
  <2>2. UNCHANGED <<actions, row>> /\ run.phase = "tools"
    BY <1>4 DEF Plan, At
  <2> QED
    BY <2>1, <2>2, RunningGoes DEF PlansAs
<1>5. CASE PlanFails \/ Activate
  <2>1. AnswersEarly
    BY <1>5, EarlyAnswers
  <2> QED
    BY <2>1, RunningGoes DEF AnswersEarly
<1>6. CASE Execute
  <2>1. PICK I, K : Executes(I, K)
    BY <1>6, ExecuteIs
  <2>2. run.phase = "tools"
    BY <1>6 DEF Execute, At
  <2> QED
    BY <2>1, <2>2, RunningGoes DEF Executes
<1>7. CASE StopTools
  <2>1. UNCHANGED actions /\ RowIs("cancelled")
    BY <1>7, CancelledTypes DEF StopTools, At, Cancelled
  <2> QED
    BY <2>1, RunningEnded, StatusesAre
<1>8. CASE Collect
  <2>1. Moves("executed", "answers") /\ UNCHANGED <<actions, row>>
    BY <1>8, MovesIs DEF Collect, At, Phases, durable
  <2> QED
    BY <2>1, RunningGoes DEF Moves
<1>9. CASE Answer
  <2>1. PICK c : AnswersFirst(c)
    BY <1>9, AnswerIs
  <2>2. run.phase = "answers" /\ UNCHANGED actions /\ RowIs("running")
    BY <1>9, RowAs, StatusesAre DEF Answer, At
  <2> QED
    BY <2>1, <2>2, RunningGoes DEF AnswersFirst
<1>10. CASE Answered
  <2>1. run.phase = "answers"
    BY <1>10 DEF Answered, At
  <2>2. CASE Iterates /\ UNCHANGED <<durable, context, chained, tracker, cancel, issued, spoiled, used>>
    <3>1. run'.phase = "top"
      BY <2>1, <2>2, IteratesIs
    <3> QED
      BY <2>1, <2>2, <3>1, RunningGoes DEF durable
  <2>3. CASE Row("waiting_for_approval") /\ UNCHANGED actions
    BY <2>1, <2>3, RowAs, RunningEnded, StatusesAre
  <2> QED
    BY <2>2, <2>3, <1>10 DEF Answered
<1> QED
  BY <1>1, <1>2, <1>3, <1>4, <1>5, <1>6, <1>7, <1>8, <1>9, <1>10 DEF Tools

LEMMA RunningStep ==
  ASSUME Types, Types', Refers, RunningIsTrue, [Next]_vars
  PROVE  RunningIsTrue'
<1>1. CASE RunOut \/ GiveUp
  <2>1. UNCHANGED actions /\ RowIs("queued")
    BY <1>1, DeferTypes DEF RunOut, GiveUp, At, Defer
  <2> QED
    BY <2>1, RunningEnded, StatusesAre
<1>2. ASSUME run.phase # "idle", Cancelled PROVE RunningIsTrue'
  <2>1. UNCHANGED actions /\ RowIs("cancelled")
    BY <1>2, CancelledTypes DEF Cancelled
  <2> QED
    BY <2>1, RunningEnded, StatusesAre
<1>3. ASSUME run.phase # "idle", Fail PROVE RunningIsTrue'
  <2>1. UNCHANGED actions /\ (RowIs("failed") \/ (row[Len(row)] = "completed" /\ row' = row))
    BY <1>3, FailTypes DEF Fail
  <2> QED
    BY <2>1, RunningEnded, StatusesAre
<1>4. CASE Finish
  <2>1. UNCHANGED actions /\ RowIs("completed")
    BY <1>4, StoresTypes DEF Finish, At, Stores
  <2> QED
    BY <2>1, RunningEnded, StatusesAre
<1>5. CASE Think
  <2>1. Thinks
    BY <1>5, ThinkIs
  <2>2. /\ run.phase # "idle" /\ run'.phase # "idle" /\ actions' = actions /\ RowIs("running")
    BY <2>1 DEF Thinks, Moves
  <2> QED
    BY <2>2, RunningGoes
<1>6. CASE ChainBreaks
  <2>1. Moves("chained", "full") /\ UNCHANGED <<actions, row>>
    BY <1>6, MovesIs DEF ChainBreaks, At, Phases, durable
  <2> QED
    BY <2>1, RunningGoes DEF Moves
<1>7. ASSUME NEW reply \in Replies, Reply(reply) PROVE RunningIsTrue'
  <2>1. Replied(reply)
    BY <1>7, ReplyIs
  <2>2. /\ run.phase # "idle" /\ run'.phase # "idle" /\ actions' = actions /\ row' = row
    BY <2>1 DEF Replied, durable
  <2> QED
    BY <2>2, RunningGoes
<1>8. CASE Reflect \/ Withhold
  <2>1. run.phase = "text" /\ \E name \in {"feedback", "active_goal_continuation"} : Turns(name)
    BY <1>8, TextTurns
  <2> QED
    BY <2>1, RunningGoes DEF Turns, durable
<1>9. CASE UNCHANGED vars
  BY <1>9 DEF vars, durable, RunningIsTrue
<1>10. CASE StopAtTop \/ StoreFails \/ NoReply
  BY <1>10, <1>2, <1>3 DEF StopAtTop, StoreFails, NoReply, At
<1> QED
  BY <1>1, <1>4, <1>5, <1>6, <1>7, <1>8, <1>9, <1>10, RunningOthers, RunningBegins, RunningTools
     DEF Next, Runs, Asking, Texts

-------------------------------------------------------------------------------
(* The goal of a run *)

LEMMA GoalStays ==
  ASSUME GoalKnown, run.phase # "idle", run'.outcome = run.outcome, tracker'.goal = tracker.goal,
         tracker'.open = tracker.open, UNCHANGED goals, spoiled \subseteq spoiled'
  PROVE  GoalKnown'
BY DEF GoalKnown

\* A run that ends without a word to the user.
LEMMA GoalLeft ==
  ASSUME NEW o \in Outcomes \ {"final"}, Ended(o)
  PROVE  GoalKnown'
BY DEF GoalKnown, Ended

LEMMA GoalAnswered ==
  ASSUME GoalKnown, run.phase # "idle", ~ Withheld, Ended("final"), UNCHANGED <<goals, tracker, spoiled>>
  PROVE  GoalKnown'
<1>1. run.scheduled \/ tracker.goal = 0 \/ ~ tracker.open
  BY DEF Withheld
<1> QED
  BY <1>1 DEF GoalKnown, Ended

LEMMA GoalTools ==
  ASSUME Types, Refers, GoalKnown, Tools
  PROVE  GoalKnown'
<1>1. CASE Warn
  <2>1. Turns("loop_guard") /\ run.phase = "batch"
    BY <1>1, WarnTurns
  <2> QED
    BY <2>1, GoalStays DEF Turns, durable
<1>2. CASE Stuck
  <2>1. run.phase = "batch" /\ IF Withheld THEN Defer ELSE Stores
    BY <1>2 DEF Stuck, At
  <2>2. CASE Defer
    BY <2>1, <2>2, DeferTypes, GoalLeft DEF Outcomes
  <2>3. CASE ~ Withheld /\ Stores
    <3>1. Ended("final") /\ UNCHANGED <<goals, tracker, spoiled>>
      BY <2>1, <2>3, StoresTypes DEF Stores
    <3> QED
      BY <2>1, <2>3, <3>1, GoalAnswered
  <2> QED
    BY <2>1, <2>2, <2>3
<1>3. CASE Record
  <2>1. Records
    BY <1>3, RecordIs
  <2> QED
    BY <2>1, GoalStays DEF Records, Moves, Same, Alike
<1>4. CASE Plan
  <2>1. PICK goal, plan : PlansAs(goal, plan)
    BY <1>4, PlanIs
  <2>2. UNCHANGED spoiled /\ run.phase = "tools"
    BY <1>4 DEF Plan, At
  <2>3. /\ run'.phase = "answers" /\ run'.outcome = run.outcome /\ tracker'.goal = goal /\ goals'[goal] = plan
        /\ tracker'.open = (plan.status = "active")
    BY <2>1 DEF PlansAs, Alike
  <2> QED
    BY <2>2, <2>3 DEF GoalKnown
<1>5. CASE PlanFails
  <2>1. AnswersEarly /\ "plan" \in spoiled'
    BY <1>5, EarlyAnswers DEF PlanFails
  <2>2. run'.outcome = run.outcome /\ run.phase = "tools"
    BY <2>1 DEF AnswersEarly, Alike
  <2> QED
    BY <2>1, <2>2 DEF GoalKnown
<1>6. CASE Activate
  <2>1. AnswersEarly /\ UNCHANGED <<goals, spoiled>>
    BY <1>6, EarlyAnswers DEF Activate, durable
  <2> QED
    BY <2>1, GoalStays DEF AnswersEarly, Alike
<1>7. CASE Execute
  <2>1. PICK I, K : Executes(I, K)
    BY <1>7, ExecuteIs
  <2>2. UNCHANGED <<goals, tracker>> /\ run.phase = "tools"
    BY <1>7 DEF Execute, At
  <2>3. run'.outcome = run.outcome /\ spoiled \subseteq spoiled'
    BY <2>1 DEF Executes, Alike
  <2> QED
    BY <2>2, <2>3, GoalStays
<1>8. CASE StopTools
  BY <1>8, CancelledTypes, GoalLeft DEF StopTools, At, Outcomes
<1>9. CASE Collect
  <2>1. Moves("executed", "answers") /\ UNCHANGED <<goals, tracker, spoiled>>
    BY <1>9, MovesIs DEF Collect, At, Phases, durable
  <2> QED
    BY <2>1, GoalStays DEF Moves, Same, Alike
<1>10. CASE Answer
  <2>1. PICK c : AnswersFirst(c)
    BY <1>10, AnswerIs
  <2>2. run.phase = "answers" /\ UNCHANGED <<goals, spoiled>>
    BY <1>10 DEF Answer, At
  <2> QED
    BY <2>1, <2>2, GoalStays DEF AnswersFirst, Alike
<1>11. CASE Answered
  <2>1. run.phase = "answers"
    BY <1>11 DEF Answered, At
  <2>2. CASE Iterates /\ UNCHANGED <<durable, context, chained, tracker, cancel, issued, spoiled, used>>
    <3>1. run'.outcome = run.outcome
      BY <2>1, <2>2, IteratesIs
    <3> QED
      BY <2>1, <2>2, <3>1, GoalStays DEF durable
  <2>3. CASE Ends("waiting")
    BY <2>3, EndsAs, GoalLeft DEF Outcomes, Types
  <2> QED
    BY <2>2, <2>3, <1>11 DEF Answered
<1> QED
  BY <1>1, <1>2, <1>3, <1>4, <1>5, <1>6, <1>7, <1>8, <1>9, <1>10, <1>11 DEF Tools

LEMMA GoalStep ==
  ASSUME Types, Refers, GoalKnown, [Next]_vars
  PROVE  GoalKnown'
<1>1. CASE RunOut \/ GiveUp
  BY <1>1, DeferTypes, GoalLeft DEF RunOut, GiveUp, At, Outcomes
<1>2. CASE StopAtTop \/ StoreFails \/ NoReply
  BY <1>2, CancelledTypes, FailTypes, GoalLeft DEF StopAtTop, StoreFails, NoReply, At, Outcomes
<1>3. CASE Finish
  <2>1. run.phase = "text" /\ ~ Withheld /\ Ended("final") /\ UNCHANGED <<goals, tracker, spoiled>>
    BY <1>3, StoresTypes DEF Finish, At, Stores
  <2> QED
    BY <2>1, GoalAnswered
<1>4. CASE Think
  <2>1. Thinks
    BY <1>4, ThinkIs
  <2>2. run.phase = "top" /\ run'.outcome = run.outcome /\ UNCHANGED <<goals, tracker, spoiled>>
    BY <2>1 DEF Thinks, Moves, Same, Alike
  <2> QED
    BY <2>2, GoalStays
<1>5. CASE ChainBreaks
  <2>1. Moves("chained", "full") /\ UNCHANGED <<goals, tracker, spoiled>>
    BY <1>5, MovesIs DEF ChainBreaks, At, Phases, durable
  <2> QED
    BY <2>1, GoalStays DEF Moves, Same, Alike
<1>6. ASSUME NEW reply \in Replies, Reply(reply) PROVE GoalKnown'
  <2>1. Replied(reply)
    BY <1>6, ReplyIs
  <2>2. run.phase # "idle" /\ run'.outcome = run.outcome /\ UNCHANGED <<goals, tracker, spoiled>>
    BY <2>1 DEF Replied, durable
  <2> QED
    BY <2>2, GoalStays
<1>7. CASE Reflect \/ Withhold
  <2>1. run.phase = "text" /\ \E name \in {"feedback", "active_goal_continuation"} : Turns(name)
    BY <1>7, TextTurns
  <2> QED
    BY <2>1, GoalStays DEF Turns, durable
<1>8. CASE Begins
  <2>1. CASE \E reason : Begin(reason)
    <3>1. tracker'.goal = 0 /\ run'.outcome = "none"
      BY <2>1, BeginIs DEF Begun
    <3> QED
      BY <3>1 DEF GoalKnown
  <2>2. ASSUME NEW c \in saved, Continue(c) PROVE GoalKnown'
    <3>1. /\ tracker'.open = (goals[c.goal].status = "active") /\ tracker'.goal = c.goal /\ run'.outcome = "none"
          /\ goals' = goals
      BY <2>2, ContinueIs DEF Begun
    <3> QED
      BY <3>1 DEF GoalKnown
  <2> QED
    BY <1>8, <2>1, <2>2 DEF Begins
<1>9. CASE Crash
  <2>1. Ended("interrupted")
    BY <1>9, CrashIs DEF Crashed
  <2> QED
    BY <2>1, GoalLeft DEF Outcomes
<1>10. CASE Others /\ ~ Crash
  <2>1. UNCHANGED <<run, goals, tracker, spoiled>>
    BY <1>10 DEF Others, Write, TurnedAway, StoreNote, Stop, Decides, ClaimAction, StoreAnswer, ResolveAction,
                 ToolFinished, ActionResolved, ResumeBatch, AbandonAction, durable
  <2> QED
    BY <2>1 DEF GoalKnown
<1>11. CASE UNCHANGED vars
  BY <1>11 DEF vars, durable, GoalKnown
<1> QED
  BY <1>1, <1>2, <1>3, <1>4, <1>5, <1>6, <1>7, <1>8, <1>9, <1>10, <1>11, GoalTools DEF Next, Runs, Asking, Texts

-------------------------------------------------------------------------------
(* The answers to the calls *)

\* A message that is stored answers a call, or none.
LEMMA AnsweredAppend ==
  ASSUME NEW s \in Seq(Message), NEW m \in Message
  PROVE  /\ \A c \in Nat : AnsweredIn(Append(s, m), c) <=> AnsweredIn(s, c) \/ (m.role = "tool" /\ m.of = c)
         /\ OneAnswer(s) /\ (m.role = "tool" => ~ AnsweredIn(s, m.of)) => OneAnswer(Append(s, m))
<1> DEFINE t == Append(s, m)
<1>1. /\ Len(s) \in Nat /\ Len(t) = Len(s) + 1 /\ t[Len(s) + 1] = m /\ \A j \in 1 .. Len(s) : t[j] = s[j]
  BY SeqFacts, AppendProperties
<1> HIDE DEF t
<1>2. ASSUME NEW c \in Nat PROVE AnsweredIn(t, c) <=> AnsweredIn(s, c) \/ (m.role = "tool" /\ m.of = c)
  <2>1. ASSUME AnsweredIn(s, c) PROVE AnsweredIn(t, c)
    <3>1. PICK i \in 1 .. Len(s) : s[i].role = "tool" /\ s[i].of = c
      BY <2>1 DEF AnsweredIn
    <3>2. i \in 1 .. Len(t) /\ t[i] = s[i]
      BY <1>1
    <3> QED
      BY <3>1, <3>2 DEF AnsweredIn
  <2>2. ASSUME m.role = "tool" /\ m.of = c PROVE AnsweredIn(t, c)
    <3>1. Len(s) + 1 \in 1 .. Len(t)
      BY <1>1
    <3> QED
      BY <1>1, <2>2, <3>1 DEF AnsweredIn
  <2>3. ASSUME AnsweredIn(t, c) PROVE AnsweredIn(s, c) \/ (m.role = "tool" /\ m.of = c)
    <3>1. PICK i \in 1 .. Len(t) : t[i].role = "tool" /\ t[i].of = c
      BY <2>3 DEF AnsweredIn
    <3>2. CASE i = Len(s) + 1
      BY <1>1, <3>1, <3>2
    <3>3. CASE i # Len(s) + 1
      <4>1. i \in 1 .. Len(s)
        BY <1>1, <3>3
      <4> QED
        BY <1>1, <3>1, <4>1 DEF AnsweredIn
    <3> QED
      BY <3>2, <3>3
  <2> QED
    BY <2>1, <2>2, <2>3
<1>3. ASSUME OneAnswer(s), m.role = "tool" => ~ AnsweredIn(s, m.of) PROVE OneAnswer(t)
  <2> SUFFICES ASSUME NEW i \in 1 .. Len(t), NEW j \in 1 .. Len(t), t[i].role = "tool", t[j].role = "tool",
                      t[i].of = t[j].of
               PROVE  i = j
    BY DEF OneAnswer
  <2>1. \A k \in 1 .. Len(t) : k \in 1 .. Len(s) \/ k = Len(s) + 1
    BY <1>1
  <2>2. CASE i \in 1 .. Len(s) /\ j \in 1 .. Len(s)
    BY <1>1, <1>3, <2>2 DEF OneAnswer
  <2>3. CASE i \in 1 .. Len(s) /\ j = Len(s) + 1
    BY <1>1, <1>3, <2>3 DEF AnsweredIn
  <2>4. CASE i = Len(s) + 1 /\ j \in 1 .. Len(s)
    BY <1>1, <1>3, <2>4 DEF AnsweredIn
  <2> QED
    BY <2>1, <2>2, <2>3, <2>4
<1> QED
  BY <1>2, <1>3 DEF t

\* The first answer of a call is no warning.
LEMMA WarnedAppend ==
  ASSUME NEW s \in Seq(Message), NEW m \in Message, WarnedLast(s),
         m.role = "tool" => m.name = "result" /\ ~ AnsweredIn(s, m.of)
  PROVE  /\ WarnedLast(Append(s, m))
         /\ \A c \in Nat : WarnedIn(Append(s, m), c) => WarnedIn(s, c)
<1> DEFINE t == Append(s, m)
<1>1. /\ Len(s) \in Nat /\ Len(t) = Len(s) + 1 /\ t[Len(s) + 1] = m /\ \A j \in 1 .. Len(s) : t[j] = s[j]
  BY SeqFacts, AppendProperties
<1> HIDE DEF t
<1>2. \A k \in 1 .. Len(t) : k \in 1 .. Len(s) \/ k = Len(s) + 1
  BY <1>1
<1>3. ASSUME NEW i \in 1 .. Len(t), NEW j \in 1 .. Len(t), i < j, t[i].role = "tool", t[j].role = "tool",
             t[i].of = t[j].of
      PROVE  t[i].name = "result" /\ t[j].name = "warning"
  <2>1. i \in 1 .. Len(s)
    BY <1>1, <1>3
  <2>2. CASE j \in 1 .. Len(s)
    BY <1>1, <1>3, <2>1, <2>2 DEF WarnedLast
  <2>3. CASE j = Len(s) + 1
    <3>1. AnsweredIn(s, m.of) /\ m.role = "tool"
      BY <1>1, <1>3, <2>1, <2>3 DEF AnsweredIn
    <3> QED
      BY <3>1
  <2> QED
    BY <1>2, <2>2, <2>3
<1>4. ASSUME NEW c \in Nat, NEW i \in 1 .. Len(t), t[i].role = "tool", t[i].of = c, t[i].name # "result"
      PROVE  WarnedIn(s, c)
  <2>1. i \in 1 .. Len(s)
    BY <1>1, <1>2, <1>4
  <2> QED
    BY <1>1, <1>4, <2>1 DEF WarnedIn
<1>5. WarnedLast(t)
  BY <1>3 DEF WarnedLast
<1>6. \A c \in Nat : WarnedIn(t, c) => WarnedIn(s, c)
  BY <1>4 DEF WarnedIn
<1> QED
  BY <1>5, <1>6 DEF t

LEMMA NoCalls ==
  /\ Numbers(<<>>) /\ (\A c : ~ Waits(<<>>, c)) /\ OneAnswer(<<>>) /\ WarnedLast(<<>>)
  /\ (\A c : ~ AnsweredIn(<<>>, c)) /\ \A c : ~ WarnedIn(<<>>, c)
<1>1. Len(<<>>) = 0
  OBVIOUS
<1> QED
  BY <1>1 DEF Numbers, Waits, OneAnswer, WarnedLast, AnsweredIn, WarnedIn

\* Nothing is answered, and no call is new.
Settling == {"pending", "executing"}
LEMMA OnceStays ==
  ASSUME OncePerCall, WarnedLast(transcript'), Numbers(run'.reply), Numbers(run'.left), issued' = issued,
         \A c \in Nat : AnsweredIn(transcript', c) => AnsweredIn(transcript, c),
         \A c \in Nat : WarnedIn(transcript', c) => WarnedIn(transcript, c),
         \A c \in Nat : Waits(run'.reply, c) => Waits(run.reply, c),
         \A c \in Nat : Waits(run'.left, c) => (Waits(run.left, c) \/ Waits(run.reply, c)) /\ ~ Waits(run'.reply, c),
         \A a, b \in actions' : a.call = b.call => a = b,
         \A a \in actions' : \E b \in actions : b.call = a.call /\ (a.status \in Settling => b.status \in Settling),
         \A a \in actions : a.status = "uncertain" => a \in actions'
  PROVE  OncePerCall'
<1>1. ASSUME NEW c \in Nat
      PROVE  /\ AnsweredIn(transcript', c) => ~ Waits(run'.reply, c) /\ ~ Waits(run'.left, c)
             /\ AnsweredIn(transcript', c) => \A a \in actions' : a.call = c => a.status \notin {"pending", "executing"}
             /\ WarnedIn(transcript', c) => \E a \in actions' : a.call = c /\ a.status = "uncertain"
             /\ \A a \in actions' : a.call = c => ~ Waits(run'.reply, c) /\ ~ Waits(run'.left, c)
             /\ Waits(run'.left, c) => ~ Waits(run'.reply, c)
             /\ c > issued' => ~ AnsweredIn(transcript', c) /\ ~ Waits(run'.reply, c) /\ ~ Waits(run'.left, c)
                              /\ \A a \in actions' : a.call # c
  <2>1. AnsweredIn(transcript', c) => ~ Waits(run'.reply, c) /\ ~ Waits(run'.left, c)
    BY DEF OncePerCall
  <2>2. AnsweredIn(transcript', c) => \A a \in actions' : a.call = c => a.status \notin {"pending", "executing"}
    BY DEF OncePerCall, Settling
  <2>3. WarnedIn(transcript', c) => \E a \in actions' : a.call = c /\ a.status = "uncertain"
    BY DEF OncePerCall
  <2>4. \A a \in actions' : a.call = c => ~ Waits(run'.reply, c) /\ ~ Waits(run'.left, c)
    BY DEF OncePerCall
  <2>5. /\ Waits(run'.left, c) => ~ Waits(run'.reply, c)
        /\ c > issued' => ~ AnsweredIn(transcript', c) /\ ~ Waits(run'.reply, c) /\ ~ Waits(run'.left, c)
                         /\ \A a \in actions' : a.call # c
    BY DEF OncePerCall
  <2> QED
    BY <2>1, <2>2, <2>3, <2>4, <2>5
<1> QED
  BY <1>1 DEF OncePerCall

\* The same, of what is stored and what the run is left with.
Silent == transcript' = transcript \/ \E m \in Message : m.role # "tool" /\ transcript' = Append(transcript, m)

LEMMA OnceSilent ==
  ASSUME Types, OncePerCall, Silent, UNCHANGED <<actions, issued>>,
         run'.reply \in {run.reply, <<>>}, run'.left \in {run.left, <<>>}
  PROVE  OncePerCall'
<1>1. /\ WarnedLast(transcript') /\ \A c \in Nat : AnsweredIn(transcript', c) => AnsweredIn(transcript, c)
      /\ \A c \in Nat : WarnedIn(transcript', c) => WarnedIn(transcript, c)
  <2>1. WarnedLast(transcript) /\ transcript \in Seq(Message)
    BY DEF OncePerCall, Types
  <2>2. CASE transcript' = transcript
    BY <2>1, <2>2
  <2>3. ASSUME NEW m \in Message, m.role # "tool", transcript' = Append(transcript, m)
        PROVE  /\ WarnedLast(transcript') /\ \A c \in Nat : AnsweredIn(transcript', c) => AnsweredIn(transcript, c)
               /\ \A c \in Nat : WarnedIn(transcript', c) => WarnedIn(transcript, c)
    BY <2>1, <2>3, AnsweredAppend, WarnedAppend
  <2> QED
    BY <2>2, <2>3 DEF Silent
<1>2. /\ Numbers(run'.reply) /\ Numbers(run'.left)
      /\ \A c \in Nat : (Waits(run'.reply, c) => Waits(run.reply, c)) /\ (Waits(run'.left, c) => Waits(run.left, c))
      /\ \A c \in Nat : Waits(run'.left, c) => ~ Waits(run'.reply, c)
  BY NoCalls DEF OncePerCall
<1>3. \A a, b \in actions' : a.call = b.call => a = b
  BY DEF OncePerCall
<1> QED
  BY <1>1, <1>2, <1>3, OnceStays

\* The calls of a batch become those that wait for an answer.
LEMMA OnceEarly ==
  ASSUME Types, OncePerCall, UNCHANGED <<transcript, actions, issued>>, run'.reply = <<>>, run'.left = Early
  PROVE  OncePerCall'
<1>1. run \in Run /\ CallFacts(run.reply)
  BY CallsAre DEF Types, Run
<1>2. Carries(Early, run.reply, 1 .. Len(run.reply))
  BY <1>1, EarlyCarries
<1>3. Numbers(Early) /\ \A c \in Nat : Waits(Early, c) => Waits(run.reply, c)
  BY <1>2 DEF Carries, Waits, OncePerCall
<1>4. WarnedLast(transcript) /\ \A a, b \in actions' : a.call = b.call => a = b
  BY DEF OncePerCall
<1>5. Numbers(run'.reply) /\ \A c \in Nat : ~ Waits(run'.reply, c)
  BY NoCalls
<1> QED
  BY <1>3, <1>4, <1>5, OnceStays

\* Some calls wait for approval, the others for their answer.
LEMMA OnceExecuted ==
  ASSUME Types, OncePerCall, NEW I, NEW K, Executes(I, K), UNCHANGED <<transcript, issued>>
  PROVE  OncePerCall'
<1> DEFINE calls == run.reply
           New(n) == [call |-> calls[n].id, run |-> Len(row), status |-> "pending", approved |-> FALSE]
<1>1. /\ I \in SUBSET (1 .. Len(calls)) /\ K \in SUBSET (1 .. Len(calls)) /\ I \intersect K = {}
      /\ Carries(run'.left, calls, K) /\ run'.reply = <<>>
      /\ actions' = actions \union {New(n) : n \in I}
  BY DEF Executes
<1>2. CallFacts(calls) /\ Numbers(calls) /\ actions \subseteq Action
  BY CallsAre DEF Types, Run, OncePerCall
<1>3. \A n \in I : New(n).call = calls[n].id /\ calls[n].id \in Nat /\ Waits(calls, calls[n].id)
  BY <1>1, <1>2 DEF CallFacts, Waits
<1>4. Numbers(run'.left) /\ \A c \in Nat : Waits(run'.left, c) <=> \E n \in K : calls[n].id = c
  BY <1>1, <1>2 DEF Carries
<1>5. \A c \in Nat : Waits(run'.left, c) => Waits(calls, c)
  BY <1>1, <1>4 DEF Waits
<1>6. Numbers(run'.reply) /\ \A c \in Nat : ~ Waits(run'.reply, c)
  BY <1>1, NoCalls
<1>7. \A a \in actions : a.call \in Nat
  BY <1>2 DEF Action
<1>8. ASSUME NEW c \in Nat, Waits(run'.left, c), NEW n \in I, calls[n].id = c PROVE FALSE
  <2>1. PICK m \in K : calls[m].id = c
    BY <1>4, <1>8
  <2>2. m = n
    BY <1>1, <1>2, <1>8, <2>1 DEF Numbers
  <2> QED
    BY <1>1, <2>2
<1> HIDE DEF New
<1>9. ASSUME NEW a \in actions', NEW b \in actions', a.call = b.call PROVE a = b
  <2>1. CASE a \in actions /\ b \in actions
    BY <1>9, <2>1 DEF OncePerCall
  <2>2. ASSUME NEW x \in actions, NEW n \in I, x.call = New(n).call PROVE FALSE
    BY <1>3, <1>7, <2>2 DEF OncePerCall
  <2>3. ASSUME NEW m \in I, NEW n \in I, New(m).call = New(n).call PROVE m = n
    BY <1>1, <1>2, <1>3, <2>3 DEF Numbers
  <2> QED
    BY <1>1, <1>9, <2>1, <2>2, <2>3
<1>10. ASSUME NEW c \in Nat, NEW a \in actions', a.call = c
       PROVE  /\ AnsweredIn(transcript, c) => a.status \notin {"pending", "executing"}
              /\ ~ Waits(run'.left, c) /\ ~ (c > issued)
  <2>1. CASE a \in actions
    BY <1>5, <1>10, <2>1 DEF OncePerCall
  <2>2. CASE a \notin actions
    <3>1. PICK n \in I : a = New(n)
      BY <1>1, <1>10, <2>2
    <3>2. Waits(calls, c) /\ ~ Waits(run'.left, c)
      BY <1>3, <1>8, <1>10, <3>1
    <3> QED
      BY <3>2 DEF OncePerCall
  <2> QED
    BY <2>1, <2>2
<1>11. ASSUME NEW c \in Nat
       PROVE  /\ AnsweredIn(transcript, c) => ~ Waits(run'.left, c)
              /\ c > issued => ~ AnsweredIn(transcript, c) /\ ~ Waits(run'.left, c)
              /\ WarnedIn(transcript, c) => \E a \in actions' : a.call = c /\ a.status = "uncertain"
  BY <1>1, <1>5 DEF OncePerCall
<1> QED
  BY <1>4, <1>6, <1>9, <1>10, <1>11 DEF OncePerCall

\* The first of the calls that wait is the one that is answered.
LEMMA HeadWaits ==
  ASSUME Types, NEW c, AnswersFirst(c), Numbers(run.left)
  PROVE  /\ c.id \in Nat /\ Numbers(run'.left) /\ Waits(run.left, c.id) /\ ~ Waits(run'.left, c.id)
         /\ \A d \in Nat : Waits(run.left, d) <=> d = c.id \/ Waits(run'.left, d)
<1>1. run.left # <<>> /\ run.left \in Seq(Call) /\ c = Head(run.left) /\ c \in Call /\ run'.left = Tail(run.left)
  BY DEF AnswersFirst, Types, Run
<1>2. CallFacts(run.left) /\ c.id \in Nat
  BY <1>1, CallsAre DEF Call
<1>3. /\ Len(run'.left) = Len(run.left) - 1 /\ c = run.left[1] /\ Len(run.left) # 0
      /\ \A n \in 1 .. Len(run'.left) : run'.left[n] = run.left[n + 1]
  <2>1. /\ Head(run.left) = run.left[1] /\ Len(Tail(run.left)) = Len(run.left) - 1
        /\ \A n \in 1 .. Len(Tail(run.left)) : Tail(run.left)[n] = run.left[n + 1]
    BY <1>1, HeadTailProperties
  <2>2. Len(run.left) # 0
    BY <1>1, EmptySeq
  <2> QED
    BY <1>1, <2>1, <2>2
<1>4. \A n \in 1 .. Len(run'.left) : n + 1 \in 1 .. Len(run.left) /\ n + 1 # 1
  BY <1>2, <1>3 DEF CallFacts
<1>5. ~ Waits(run'.left, c.id)
  <2> SUFFICES ASSUME NEW n \in 1 .. Len(run'.left), run'.left[n].id = c.id PROVE FALSE
    BY DEF Waits
  <2>1. run.left[n + 1].id = run.left[1].id
    BY <1>3
  <2>2. 1 \in 1 .. Len(run.left)
    BY <1>2, <1>3 DEF CallFacts
  <2> QED
    BY <1>2, <1>4, <2>1, <2>2 DEF Numbers
<1>6. ASSUME NEW d \in Nat PROVE Waits(run.left, d) => d = c.id \/ Waits(run'.left, d)
  <2> SUFFICES ASSUME NEW n \in 1 .. Len(run.left), run.left[n].id = d PROVE d = c.id \/ Waits(run'.left, d)
    BY DEF Waits
  <2>1. CASE n = 1
    BY <1>3, <2>1
  <2>2. CASE n # 1
    <3>1. n - 1 \in 1 .. Len(run'.left) /\ (n - 1) + 1 = n
      BY <1>2, <1>3, <2>2 DEF CallFacts
    <3> QED
      BY <1>3, <3>1 DEF Waits
  <2> QED
    BY <2>1, <2>2
<1>9. \A d \in Nat : Waits(run'.left, d) => Waits(run.left, d)
  BY <1>3, <1>4 DEF Waits
<1>7. Numbers(run'.left)
  <2> SUFFICES ASSUME NEW m \in 1 .. Len(run'.left), NEW n \in 1 .. Len(run'.left), run'.left[m].id = run'.left[n].id
               PROVE  m = n
    BY DEF Numbers
  <2>1. m + 1 = n + 1
    <3>1. m + 1 \in 1 .. Len(run.left) /\ n + 1 \in 1 .. Len(run.left)
      BY <1>4
    <3>2. run.left[m + 1].id = run.left[n + 1].id
      BY <1>3
    <3>3. Numbers(run.left)
      BY <1>2
    <3> QED
      BY <3>1, <3>2, <3>3 DEF Numbers
  <2> QED
    BY <2>1
<1>8. Waits(run.left, c.id)
  <2>1. 1 \in 1 .. Len(run.left)
    BY <1>2, <1>3 DEF CallFacts
  <2> QED
    BY <1>3, <2>1 DEF Waits
<1> QED
  BY <1>2, <1>5, <1>6, <1>7, <1>8, <1>9

\* A result is stored.
LEMMA OnceAnswered ==
  ASSUME Types, OncePerCall, NEW c, AnswersFirst(c), UNCHANGED <<actions, issued>>
  PROVE  OncePerCall'
<1>1. run'.reply = run.reply /\ transcript' = Append(transcript, Answers(c.id))
  BY DEF AnswersFirst
<1>2. Numbers(run.left) /\ Numbers(run.reply)
  BY DEF OncePerCall
<1>3. /\ c.id \in Nat /\ Numbers(run'.left) /\ Waits(run.left, c.id) /\ ~ Waits(run'.left, c.id)
      /\ \A d \in Nat : Waits(run'.left, d) => Waits(run.left, d)
  BY <1>2, HeadWaits
<1>9. /\ ~ AnsweredIn(transcript, c.id) /\ ~ (c.id > issued) /\ (\A a \in actions : a.call # c.id)
      /\ WarnedLast(transcript)
  BY <1>3 DEF OncePerCall
<1>10. /\ WarnedLast(transcript')
       /\ \A d \in Nat : AnsweredIn(transcript', d) <=> AnsweredIn(transcript, d) \/ d = c.id
       /\ \A d \in Nat : WarnedIn(transcript', d) => WarnedIn(transcript, d)
  <2>1. /\ Answers(c.id) \in Message /\ Answers(c.id).role = "tool" /\ Answers(c.id).of = c.id
        /\ Answers(c.id).name = "result"
    BY <1>3, AnswersIs
  <2> QED
    BY <1>1, <1>9, <2>1, AnsweredAppend, WarnedAppend DEF Types
<1>11. ASSUME NEW d \in Nat
       PROVE  /\ AnsweredIn(transcript', d) => ~ Waits(run.reply, d) /\ ~ Waits(run'.left, d)
              /\ AnsweredIn(transcript', d) => \A a \in actions : a.call = d => a.status \notin {"pending", "executing"}
              /\ WarnedIn(transcript', d) => \E a \in actions : a.call = d /\ a.status = "uncertain"
              /\ Waits(run'.left, d) => ~ Waits(run.reply, d)
              /\ \A a \in actions : a.call = d => ~ Waits(run.reply, d) /\ ~ Waits(run'.left, d)
              /\ d > issued => ~ AnsweredIn(transcript', d) /\ ~ Waits(run.reply, d) /\ ~ Waits(run'.left, d)
                               /\ \A a \in actions : a.call # d
  <2>1. CASE d = c.id
    BY <1>3, <1>9, <1>10, <2>1 DEF OncePerCall
  <2>2. CASE d # c.id
    BY <1>3, <1>10, <2>2 DEF OncePerCall
  <2> QED
    BY <2>1, <2>2
<1>12. \A a, b \in actions : a.call = b.call => a = b
  BY DEF OncePerCall
<1> QED
  BY <1>1, <1>2, <1>3, <1>10, <1>11, <1>12 DEF OncePerCall

\* An action is decided: its answer is stored, or the request goes on.
LEMMA OnceDecided ==
  ASSUME Types, OncePerCall, NEW a \in actions, NEW b, Decided(a, b)
  PROVE  OncePerCall'
<1>1. /\ a \in Action /\ a.call \in Nat /\ b.call = a.call /\ a.status \in {"pending", "told"} \union AtWork
      /\ b.status \in AtWork \union GivenUp /\ (b.status = "executing" => a.status = "pending")
      /\ actions' = (actions \ {a}) \union {b} /\ run' = run /\ issued' = issued
  BY DEF Types, Action, Decided
<1>2. \A k \in actions' : k = b \/ (k \in actions /\ k.call # a.call)
  BY <1>1 DEF OncePerCall
<1>3. \A k, m \in actions' : k.call = m.call => k = m
  BY <1>1, <1>2 DEF OncePerCall
<1>4. \A k \in actions : k.status = "uncertain" => k \in actions'
  BY <1>1 DEF AtWork
<1>5. Numbers(run.reply) /\ Numbers(run.left) /\ WarnedLast(transcript) /\ \A c \in Nat : Waits(run.left, c) => ~ Waits(run.reply, c)
  BY DEF OncePerCall
<1>6. CASE transcript' = transcript
  <2>1. \A k \in actions' : \E m \in actions : m.call = k.call /\ (k.status \in Settling => m.status \in Settling)
    BY <1>1, <1>2 DEF Settling, AtWork, GivenUp
  <2> QED
    BY <1>1, <1>3, <1>4, <1>5, <1>6, <2>1, OnceStays
<1>7. CASE transcript' = Append(transcript, Answers(a.call)) /\ a.status = "executing" /\ b.status = "answered"
  <2>1. ~ AnsweredIn(transcript, a.call) /\ ~ Waits(run.reply, a.call) /\ ~ Waits(run.left, a.call) /\ ~ (a.call > issued)
    BY <1>1, <1>7 DEF OncePerCall
  <2>2. /\ WarnedLast(transcript')
        /\ \A d \in Nat : AnsweredIn(transcript', d) <=> AnsweredIn(transcript, d) \/ d = a.call
        /\ \A d \in Nat : WarnedIn(transcript', d) => WarnedIn(transcript, d)
    <3>1. /\ Answers(a.call) \in Message /\ Answers(a.call).role = "tool" /\ Answers(a.call).of = a.call
          /\ Answers(a.call).name = "result"
      BY <1>1, AnswersIs
    <3> QED
      BY <1>5, <1>7, <2>1, <3>1, AnsweredAppend, WarnedAppend DEF Types
  <2>3. ASSUME NEW d \in Nat
        PROVE  /\ AnsweredIn(transcript', d) => ~ Waits(run.reply, d) /\ ~ Waits(run.left, d)
               /\ AnsweredIn(transcript', d) => \A k \in actions' : k.call = d => k.status \notin {"pending", "executing"}
               /\ WarnedIn(transcript', d) => \E k \in actions' : k.call = d /\ k.status = "uncertain"
               /\ \A k \in actions' : k.call = d => ~ Waits(run.reply, d) /\ ~ Waits(run.left, d)
               /\ d > issued => ~ AnsweredIn(transcript', d) /\ ~ Waits(run.reply, d) /\ ~ Waits(run.left, d)
                                /\ \A k \in actions' : k.call # d
    <3>1. CASE d = a.call
      <4>1. \A k \in actions' : k.call = d => k.status = "answered"
        BY <1>2, <1>7, <3>1
      <4>2. ~ WarnedIn(transcript, d)
        <5>1. WarnedIn(transcript, d) => AnsweredIn(transcript, d)
          BY DEF WarnedIn, AnsweredIn
        <5> QED
          BY <2>1, <3>1, <5>1
      <4> QED
        BY <1>1, <2>1, <2>2, <3>1, <4>1, <4>2
    <3>2. CASE d # a.call
      <4>1. \A k \in actions' : k.call = d => k \in actions
        BY <1>1, <1>2, <3>2
      <4>2. AnsweredIn(transcript', d) => AnsweredIn(transcript, d)
        BY <2>2, <3>2
      <4> QED
        BY <1>4, <2>2, <4>1, <4>2 DEF OncePerCall
    <3> QED
      BY <3>1, <3>2
  <2> QED
    BY <1>1, <1>3, <1>5, <2>2, <2>3 DEF OncePerCall
<1> QED
  BY <1>6, <1>7 DEF Decided

\* The server ends, and warns of the calls that were executed.
LEMMA OnceCrashed ==
  ASSUME Types, OncePerCall, Crashed
  PROVE  OncePerCall'
<1>1. PICK warnings \in Seq(Message) :
        /\ transcript' = transcript \o warnings
        /\ \A n \in 1 .. Len(warnings) :
             /\ warnings[n].role = "tool" /\ warnings[n].name = "warning" /\ \E a \in Doubted : warnings[n].of = a.call
             /\ \A m \in 1 .. Len(warnings) : warnings[m].of = warnings[n].of => m = n
  BY DEF Crashed
<1> DEFINE s == transcript
           t == transcript'
           Doubts(c) == \E a \in Doubted : a.call = c
<1>2. /\ Len(s) \in Nat /\ Len(warnings) \in Nat /\ Len(t) = Len(s) + Len(warnings)
      /\ \A i \in 1 .. Len(t) : t[i] = IF i <= Len(s) THEN s[i] ELSE warnings[i - Len(s)]
  <2>1. s \in Seq(Message) /\ Len(s) \in Nat /\ Len(warnings) \in Nat
    BY SeqFacts DEF Types
  <2> QED
    BY <1>1, <2>1, ConcatProperties
<1> HIDE DEF s, t
<1>3. ASSUME NEW i \in 1 .. Len(t)
      PROVE  \/ i \in 1 .. Len(s) /\ t[i] = s[i]
             \/ /\ ~ (i <= Len(s)) /\ i - Len(s) \in 1 .. Len(warnings) /\ t[i] = warnings[i - Len(s)]
                /\ t[i].name = "warning" /\ Doubts(t[i].of)
  <2>1. CASE i <= Len(s)
    BY <1>2, <2>1
  <2>2. CASE ~ (i <= Len(s))
    <3>1. i - Len(s) \in 1 .. Len(warnings) /\ t[i] = warnings[i - Len(s)]
      BY <1>2, <2>2
    <3> QED
      BY <1>1, <2>2, <3>1
  <2> QED
    BY <2>1, <2>2
<1>4. ASSUME NEW a \in Doubted
      PROVE  /\ a \in actions /\ a.status # "uncertain" /\ a.call \in Nat /\ ~ WarnedIn(s, a.call)
             /\ \E b \in actions' : b.call = a.call /\ b.status = "uncertain"
  <2>1. a \in actions /\ a \in Action /\ a.status \in Executing /\ "uncertain" \in ActionStatuses
    BY DEF Doubted, Types, ActionStatuses
  <2>2. a.status # "uncertain" /\ a.call \in Nat
    BY <2>1 DEF Executing, Action
  <2>3. ~ WarnedIn(s, a.call)
    BY <2>1, <2>2 DEF OncePerCall, s
  <2>4. Set(a, "uncertain") \in actions' /\ Set(a, "uncertain").call = a.call /\ Set(a, "uncertain").status = "uncertain"
    BY <2>1, SetIs DEF Crashed
  <2> QED
    BY <2>1, <2>2, <2>3, <2>4
<1>5. WarnedLast(t)
  <2> SUFFICES ASSUME NEW i \in 1 .. Len(t), NEW j \in 1 .. Len(t), i < j, t[i].role = "tool", t[j].role = "tool",
                      t[i].of = t[j].of
               PROVE  t[i].name = "result" /\ t[j].name = "warning"
    BY DEF WarnedLast
  <2>1. CASE j \in 1 .. Len(s) /\ t[j] = s[j]
    <3>1. i \in 1 .. Len(s) /\ t[i] = s[i]
      BY <1>2, <1>3, <2>1
    <3> QED
      BY <2>1, <3>1 DEF OncePerCall, WarnedLast, s
  <2>2. CASE i \in 1 .. Len(s) /\ t[i] = s[i] /\ t[j].name = "warning" /\ Doubts(t[j].of)
    <3>1. ~ WarnedIn(s, t[i].of)
      BY <1>4, <2>2
    <3> QED
      BY <2>2, <3>1 DEF WarnedIn
  <2>3. CASE /\ i - Len(s) \in 1 .. Len(warnings) /\ t[i] = warnings[i - Len(s)]
             /\ j - Len(s) \in 1 .. Len(warnings) /\ t[j] = warnings[j - Len(s)]
    <3>1. i - Len(s) = j - Len(s)
      BY <1>1, <2>3
    <3> QED
      BY <1>2, <3>1
  <2> QED
    BY <1>3, <2>1, <2>2, <2>3
<1>6. \A c \in Nat : AnsweredIn(t, c) => AnsweredIn(s, c) \/ Doubts(c)
  BY <1>3 DEF AnsweredIn
<1>7. \A c \in Nat : WarnedIn(t, c) => WarnedIn(s, c) \/ Doubts(c)
  BY <1>3 DEF WarnedIn
<1>8. ASSUME NEW a \in actions'
      PROVE  /\ a.status \in {"pending", "uncertain"}
             /\ a \in actions \/ (a.status = "uncertain" /\ \E b \in Doubted : a = Set(b, "uncertain") /\ a.call = b.call)
  <2>1. CASE a \in {b \in actions : b.status \in {"pending", "uncertain"}}
    BY <2>1
  <2>2. CASE a \in {Set(b, "uncertain") : b \in Doubted}
    <3>1. PICK b \in Doubted : a = Set(b, "uncertain")
      BY <2>2
    <3>2. b \in Action /\ "uncertain" \in ActionStatuses
      BY <3>1 DEF Doubted, Types, ActionStatuses
    <3> QED
      BY <3>1, <3>2, SetIs
  <2> QED
    BY <2>1, <2>2 DEF Crashed
<1>9. ASSUME NEW a \in actions', NEW b \in actions', a.call = b.call PROVE a = b
  <2>1. ASSUME NEW d \in Doubted, NEW k \in actions, k.call = d.call PROVE k = d
    BY <1>4, <2>1 DEF OncePerCall
  <2>2. ASSUME NEW d \in Doubted, NEW k \in actions', k.call = d.call, k \in actions PROVE FALSE
    <3>1. k = d /\ d.status \in Executing
      BY <2>1, <2>2 DEF Doubted
    <3> QED
      BY <1>8, <3>1 DEF Executing
  <2>3. CASE a \in actions /\ b \in actions
    BY <1>9, <2>3 DEF OncePerCall
  <2>4. CASE a \in actions /\ b \notin actions
    BY <1>8, <1>9, <2>2, <2>4
  <2>5. CASE a \notin actions /\ b \in actions
    BY <1>8, <1>9, <2>2, <2>5
  <2>6. CASE a \notin actions /\ b \notin actions
    <3>1. PICK d \in Doubted : a = Set(d, "uncertain") /\ a.call = d.call
      BY <1>8, <2>6
    <3>2. PICK k \in Doubted : b = Set(k, "uncertain") /\ b.call = k.call
      BY <1>8, <2>6
    <3>3. d = k
      BY <1>4, <1>9, <2>1, <3>1, <3>2
    <3> QED
      BY <3>1, <3>2, <3>3
  <2> QED
    BY <2>3, <2>4, <2>5, <2>6
<1>10. run'.reply = <<>> /\ run'.left = <<>> /\ issued' = issued
  BY DEF Crashed, Ended
<1>11. ASSUME NEW c \in Nat
       PROVE  /\ AnsweredIn(t, c) => \A a \in actions' : a.call = c => a.status \notin {"pending", "executing"}
              /\ WarnedIn(t, c) => \E a \in actions' : a.call = c /\ a.status = "uncertain"
              /\ c > issued => ~ AnsweredIn(t, c) /\ \A a \in actions' : a.call # c
  <2>1. CASE Doubts(c)
    <3>1. PICK d \in Doubted : d.call = c
      BY <2>1
    <3>2. \E b \in actions' : b.call = c /\ b.status = "uncertain"
      BY <1>4, <3>1
    <3>3. ~ (c > issued)
      BY <1>4, <3>1 DEF OncePerCall
    <3> QED
      BY <1>9, <3>2, <3>3
  <2>2. CASE ~ Doubts(c)
    <3>1. (AnsweredIn(t, c) => AnsweredIn(s, c)) /\ (WarnedIn(t, c) => WarnedIn(s, c))
      BY <1>6, <1>7, <2>2
    <3>2. \A a \in actions' : a.call = c => a \in actions
      BY <1>8, <2>2
    <3>3. \A a \in actions : a.status = "uncertain" => a \in actions'
      BY DEF Crashed
    <3> QED
      BY <3>1, <3>2, <3>3 DEF OncePerCall, s
  <2> QED
    BY <2>1, <2>2
<1> QED
  BY <1>5, <1>9, <1>10, <1>11, NoCalls DEF OncePerCall, t

\* The ids of the calls of a reply are new.
LEMMA OnceReplied ==
  ASSUME Types, OncePerCall, NEW reply, Replied(reply)
  PROVE  OncePerCall'
<1> DEFINE calls == Numbered(reply)
<1>1. /\ reply \in Replies /\ run'.reply = calls /\ run'.left = run.left /\ issued' = issued + Len(reply)
      /\ UNCHANGED <<transcript, actions>> /\ issued \in Nat
  BY DEF Replied, durable, Types
<1>2. Len(calls) = Len(reply) /\ Len(reply) \in Nat /\ \A n \in 1 .. Len(reply) : calls[n].id = issued + n
  BY <1>1, NumberedIs
<1> HIDE DEF calls
<1>3. ASSUME NEW m \in 1 .. Len(calls), NEW n \in 1 .. Len(calls), calls[m].id = calls[n].id PROVE m = n
  <2>1. issued + m = issued + n
    BY <1>2, <1>3
  <2> QED
    BY <1>1, <2>1
<1>4. \A c \in Nat : Waits(calls, c) => c > issued /\ ~ (c > issued')
  BY <1>1, <1>2 DEF Waits
<1>5. \A c \in Nat : c > issued' => c > issued
  BY <1>1, <1>2
<1>6. Numbers(calls) /\ Numbers(run.left) /\ WarnedLast(transcript) /\ \A a, b \in actions : a.call = b.call => a = b
  BY <1>3 DEF Numbers, OncePerCall
<1>7. ASSUME NEW d \in Nat
      PROVE  /\ AnsweredIn(transcript, d) => ~ Waits(calls, d) /\ ~ Waits(run.left, d)
             /\ AnsweredIn(transcript, d) => \A a \in actions : a.call = d => a.status \notin {"pending", "executing"}
             /\ WarnedIn(transcript, d) => \E a \in actions : a.call = d /\ a.status = "uncertain"
             /\ Waits(run.left, d) => ~ Waits(calls, d)
             /\ \A a \in actions : a.call = d => ~ Waits(calls, d) /\ ~ Waits(run.left, d)
             /\ d > issued' => ~ AnsweredIn(transcript, d) /\ ~ Waits(calls, d) /\ ~ Waits(run.left, d)
                               /\ \A a \in actions : a.call # d
  BY <1>4, <1>5 DEF OncePerCall
<1> QED
  BY <1>1, <1>6, <1>7 DEF OncePerCall

LEMMA OnceTools ==
  ASSUME Types, Refers, OncePerCall, Tools
  PROVE  OncePerCall'
<1>1. CASE Warn
  <2>1. Turns("loop_guard") /\ run'.reply = <<>>
    BY <1>1, WarnTurns
  <2> QED
    BY <2>1, OnceSilent DEF Turns, durable, Silent
<1>2. CASE Stuck
  <2>1. /\ \E o : Ended(o)
        /\ Silent /\ actions' = actions
    BY <1>2, DeferTypes, StoresTypes, MessagesAre DEF Stuck, At, Defer, Stores, Silent
  <2> QED
    BY <2>1, OnceSilent DEF Ended
<1>3. CASE Record
  <2>1. Records
    BY <1>3, RecordIs
  <2>2. Asks(Ids(run.reply)) \in Message /\ Asks(Ids(run.reply)).role = "assistant"
    <3>1. Ids(run.reply) \in SUBSET Nat
      BY IdsAre DEF Types, Run
    <3> QED
      BY <3>1, AsksIs
  <2> QED
    BY <2>1, <2>2, OnceSilent DEF Records, Moves, Same, Silent
<1>4. CASE Plan
  <2>1. PICK goal, plan : PlansAs(goal, plan)
    BY <1>4, PlanIs
  <2>2. UNCHANGED <<transcript, actions, issued>>
    BY <1>4 DEF Plan
  <2> QED
    BY <2>1, <2>2, OnceEarly DEF PlansAs
<1>5. CASE PlanFails \/ Activate
  <2>1. AnswersEarly
    BY <1>5, EarlyAnswers
  <2> QED
    BY <2>1, OnceEarly DEF AnswersEarly
<1>6. CASE Execute
  <2>1. PICK I, K : Executes(I, K)
    BY <1>6, ExecuteIs
  <2>2. UNCHANGED <<transcript, issued>>
    BY <1>6 DEF Execute
  <2> QED
    BY <2>1, <2>2, OnceExecuted
<1>7. CASE StopTools
  <2>1. Ended("cancelled") /\ UNCHANGED <<transcript, actions>>
    BY <1>7, CancelledTypes DEF StopTools, At, Cancelled
  <2> QED
    BY <2>1, OnceSilent DEF Ended, Silent
<1>8. CASE Collect
  <2>1. Moves("executed", "answers") /\ UNCHANGED <<transcript, actions, issued>>
    BY <1>8, MovesIs DEF Collect, At, Phases, durable
  <2> QED
    BY <2>1, OnceSilent DEF Moves, Same, Silent
<1>9. CASE Answer
  <2>1. PICK c : AnswersFirst(c)
    BY <1>9, AnswerIs
  <2> QED
    BY <2>1, <1>9, OnceAnswered DEF Answer
<1>10. CASE Answered
  <2>1. run.phase = "answers" /\ run.left = <<>>
    BY <1>10 DEF Answered, At
  <2>2. CASE Iterates /\ UNCHANGED <<durable, context, chained, tracker, cancel, issued, spoiled, used>>
    <3>1. run'.reply = <<>> /\ run'.left = run.left
      BY <2>1, <2>2, IteratesIs
    <3> QED
      BY <2>2, <3>1, OnceSilent DEF durable, Silent
  <2>3. CASE Ends("waiting") /\ UNCHANGED <<transcript, actions>>
    <3>1. Ended("waiting")
      BY <2>3, EndsAs DEF Outcomes, Types
    <3> QED
      BY <2>3, <3>1, OnceSilent DEF Ended, Silent
  <2> QED
    BY <2>2, <2>3, <1>10 DEF Answered
<1> QED
  BY <1>1, <1>2, <1>3, <1>4, <1>5, <1>6, <1>7, <1>8, <1>9, <1>10 DEF Tools

LEMMA OnceOthers ==
  ASSUME Types, Refers, OncePerCall, Others
  PROVE  OncePerCall'
<1>1. ASSUME NEW reason, Write(reason) \/ TurnedAway(reason) \/ StoreNote \/ Stop PROVE OncePerCall'
  <2>1. Silent
    BY <1>1, MessagesAre DEF Write, TurnedAway, StoreNote, Stop, durable, Silent
  <2>2. UNCHANGED <<actions, issued, run>>
    BY <1>1 DEF Write, TurnedAway, StoreNote, Stop, durable
  <2> QED
    BY <2>1, <2>2, OnceSilent
<1>2. CASE Crash
  BY <1>2, CrashIs, OnceCrashed
<1>3. ASSUME NEW a \in actions, ActionResolved(a) \/ ResumeBatch(a) PROVE OncePerCall'
  <2>1. /\ a.status \in AtWork \union {"told"} /\ UNCHANGED <<run, issued, transcript>>
        /\ actions' \in {actions \ {a}, (actions \ {a}) \union {Set(a, "told")}}
    BY <1>3 DEF ActionResolved, ResumeBatch, Becomes, Set, AtWork
  <2>2. WarnedLast(transcript) /\ Numbers(run.reply) /\ Numbers(run.left) /\ \A c \in Nat : Waits(run.left, c) => ~ Waits(run.reply, c)
    BY DEF OncePerCall
  <2>3. Set(a, "told").call = a.call /\ Set(a, "told").status = "told"
    BY SetIs DEF Types, ActionStatuses
  <2>4. \A k \in actions' : (k \in actions /\ k # a) \/ k = Set(a, "told")
    BY <2>1
  <2>5. \A b, k \in actions' : b.call = k.call => b = k
    BY <2>3, <2>4 DEF OncePerCall
  <2>6. \A b \in actions : b.status = "uncertain" => b \in actions'
    BY <2>1 DEF AtWork
  <2>7. \A k \in actions' : \E b \in actions : b.call = k.call /\ (k.status \in Settling => b.status \in Settling)
    BY <2>3, <2>4 DEF Settling
  <2> QED
    BY <2>1, <2>2, <2>5, <2>6, <2>7, OnceStays
<1> QED
  BY <1>1, <1>2, <1>3, DecidedIs, OnceDecided DEF Others

LEMMA OnceStep ==
  ASSUME Types, Refers, OncePerCall, [Next]_vars
  PROVE  OncePerCall'
<1>1. CASE RunOut \/ GiveUp \/ StopAtTop \/ StoreFails \/ NoReply \/ Finish
  <2>1. \E o : Ended(o)
    BY <1>1, DeferTypes, CancelledTypes, FailTypes, StoresTypes DEF RunOut, GiveUp, StopAtTop, StoreFails, NoReply, Finish, At
  <2>2. Silent /\ actions' = actions
    BY <1>1, MessagesAre
       DEF RunOut, GiveUp, StopAtTop, StoreFails, NoReply, Finish, Defer, Cancelled, Fail, Stores, Silent
  <2> QED
    BY <2>1, <2>2, OnceSilent DEF Ended
<1>2. CASE Think
  <2>1. Thinks
    BY <1>2, ThinkIs
  <2>2. run'.reply = run.reply /\ run'.left = run.left /\ UNCHANGED <<transcript, actions, issued>>
    BY <2>1 DEF Thinks, Moves, Same
  <2> QED
    BY <2>2, OnceSilent DEF Silent
<1>3. CASE ChainBreaks
  <2>1. Moves("chained", "full") /\ UNCHANGED <<transcript, actions, issued>>
    BY <1>3, MovesIs DEF ChainBreaks, At, Phases, durable
  <2> QED
    BY <2>1, OnceSilent DEF Moves, Same, Silent
<1>4. CASE \E reply \in Replies : Reply(reply)
  BY <1>4, ReplyIs, OnceReplied
<1>5. CASE Reflect \/ Withhold
  <2>1. run'.reply = run.reply /\ \E name \in {"feedback", "active_goal_continuation"} : Turns(name)
    BY <1>5, TextTurns
  <2> QED
    BY <2>1, OnceSilent DEF Turns, durable, Silent
<1>6. CASE Begins
  <2>1. \E from : Begun(from)
    BY <1>6, BeginIs, ContinueIs DEF Begins
  <2> QED
    BY <2>1, OnceSilent DEF Begun, Silent
<1>7. CASE UNCHANGED vars
  BY <1>7 DEF vars, durable, OncePerCall
<1> QED
  BY <1>1, <1>2, <1>3, <1>4, <1>5, <1>6, <1>7, OnceOthers, OnceTools DEF Next, Runs, Asking, Texts

-------------------------------------------------------------------------------
(* The context of a run, and what happened since the last response *)

LEMMA HeadStays ==
  ASSUME NEW s \in Seq(Message), NEW m \in Message, Headed(s)
  PROVE  Headed(Append(s, m)) /\ Append(s, m)[1] = s[1]
<1>1. Len(s) \in Nat /\ Len(s) # 0 /\ s[1].role = "system" /\ Len(Append(s, m)) = Len(s) + 1
  BY SeqFacts, AppendProperties DEF Headed
<1>2. 1 \in 1 .. Len(s)
  BY <1>1
<1>3. Append(s, m)[1] = s[1]
  BY <1>2, AppendProperties
<1> QED
  BY <1>1, <1>3 DEF Headed

\* The calls that wait go from one list to another.
LEMMA OpenedStays ==
  ASSUME NEW s, NEW h, NEW asked, NEW calls, NEW rest, Opened(s, h, asked, calls),
         \A c \in asked : Waits(calls, c) => Waits(rest, c)
  PROVE  Opened(s, h, asked, rest)
BY DEF Opened

\* A run that has ended has neither.
LEMMA RequestEnded ==
  ASSUME NEW o, Ended(o)
  PROVE  ContextWhole' /\ SinceResponse'
BY NoCalls DEF Ended, ContextWhole, SinceResponse

LEMMA RequestBegun ==
  ASSUME SinceResponse, NEW from, Begun(from)
  PROVE  ContextWhole' /\ SinceResponse'
<1>1. ContextWhole'
  BY PromptIsNoTracker DEF Begun, ContextWhole
<1>2. /\ run'.phase = "top" /\ run'.previous = FALSE /\ chained' = chained /\ OneAnswer(chained)
      /\ \A c : ~ Waits(run'.left, c)
  BY NoCalls DEF Begun, SinceResponse
<1>3. SinceResponse'
  BY <1>2 DEF SinceResponse
<1> QED
  BY <1>1, <1>3

LEMMA RequestThought ==
  ASSUME Types, ContextWhole, SinceResponse, Thinks
  PROVE  ContextWhole' /\ SinceResponse'
<1> DEFINE note == System("goal_tracker")
<1>1. /\ run.phase = "top" /\ run'.phase \in {"full", "chained"} /\ (run'.phase = "chained" => run.previous)
      /\ run'.asked = run.asked /\ run'.previous = run.previous /\ run'.left = run.left /\ UNCHANGED spoiled
      /\ run.phase # "idle"
  BY DEF Thinks, Moves, Same, Alike
<1>2. Headed(context) /\ context[1] # note /\ ("tool" \notin spoiled => Whole(context)) /\ context \in Seq(Message)
  BY <1>1 DEF ContextWhole, Types
<1>3. note \in Message /\ note.role = "system"
  BY SystemIs DEF Name
<1> HIDE DEF note
<1>4. Headed(context') /\ context'[1] # note /\ ("tool" \notin spoiled => Whole(context'))
  <2>1. CASE context' = context
    BY <1>2, <2>1
  <2>2. CASE context' = Bounded(Tracked(context))
    <3> DEFINE t == Tracked(context)
    <3>1. t \in Seq(Message) /\ (Whole(context) => Whole(t)) /\ Headed(t) /\ t[1] = context[1]
      BY <1>2, TrackedOf DEF note
    <3> HIDE DEF t
    <3>2. (Whole(t) => Whole(Bounded(t))) /\ Headed(Bounded(t)) /\ Bounded(t)[1] = t[1]
      BY <3>1, BoundedOf
    <3> QED
      BY <1>2, <2>2, <3>1, <3>2 DEF t
  <2> QED
    BY <2>1, <2>2 DEF Thinks
<1>5. ContextWhole'
  BY <1>1, <1>4 DEF ContextWhole, note
<1>6. /\ \A c \in Nat : AnsweredIn(chained', c) <=> AnsweredIn(chained, c)
      /\ OneAnswer(chained')
  <2>1. CASE chained' = chained
    BY <2>1 DEF SinceResponse
  <2>2. CASE chained' = Append(chained, note)
    BY <1>3, <2>2, AnsweredAppend DEF SinceResponse, Types
  <2> QED
    BY <2>1, <2>2 DEF Thinks, note
<1>7. SinceResponse'
  BY <1>1, <1>6 DEF SinceResponse
<1> QED
  BY <1>5, <1>7

LEMMA RequestReplied ==
  ASSUME Types, ContextWhole, NEW reply, Replied(reply)
  PROVE  ContextWhole' /\ SinceResponse'
<1> DEFINE calls == Numbered(reply)
<1>1. /\ reply \in Replies /\ run.phase \in {"chained", "full"} /\ run'.reply = calls /\ run'.asked = Ids(calls)
      /\ run'.phase = (IF reply = <<>> THEN "text" ELSE "batch") /\ chained' = <<>>
      /\ UNCHANGED <<context, spoiled>>
  BY DEF Replied
<1>2. /\ calls \in Seq(Call) /\ Len(calls) = Len(reply) /\ Len(reply) \in Nat /\ reply \in Seq(STRING)
      /\ Ids(calls) \in SUBSET Nat /\ \A c \in Nat : c \in Ids(calls) <=> Waits(calls, c)
  BY <1>1, NumberedIs DEF Types
<1> HIDE DEF calls
<1>3. Headed(context) /\ context[1] # System("goal_tracker") /\ ("tool" \notin spoiled => Whole(context))
  BY <1>1 DEF ContextWhole
<1>4. reply = <<>> <=> Len(calls) = 0
  BY <1>2, EmptySeq
<1>5. reply # <<>> => calls # <<>>
  BY <1>4, EmptySeq
<1>6. ContextWhole'
  BY <1>1, <1>3, <1>5 DEF ContextWhole
<1>7. reply = <<>> => Ids(calls) = {}
  <2>1. reply = <<>> => \A c \in Nat : ~ Waits(calls, c)
    BY <1>4 DEF Waits
  <2> QED
    BY <1>2, <2>1
<1>8. SinceResponse'
  <2>1. Len(<<>>) = 0
    OBVIOUS
  <2> QED
    BY <1>1, <1>2, <1>7, <2>1, NoCalls DEF SinceResponse
<1> QED
  BY <1>6, <1>8

\* Two messages that call nothing and answer nothing.
LEMMA ContextTurned ==
  ASSUME Types, ContextWhole, run.phase \in {"text", "batch"}, NEW name, Turns(name)
  PROVE  ContextWhole'
<1> DEFINE u == Append(context, Says)
<1>1. /\ Headed(context) /\ context[1] # System("goal_tracker") /\ ("tool" \notin spoiled => Whole(context))
      /\ context \in Seq(Message) /\ Says \in Message /\ Says.role # "tool" /\ ~ Calls(Says)
  BY MessagesAre DEF ContextWhole, Types
<1>2. u \in Seq(Message) /\ (Whole(context) => Whole(u)) /\ Headed(u) /\ u[1] = context[1]
  BY <1>1, AppendPlain
<1>3. /\ context' = Append(u, System(name)) /\ System(name) \in Message /\ ~ Calls(System(name))
      /\ System(name).role # "tool" /\ run'.phase = "top" /\ spoiled' = spoiled
  BY DEF Turns
<1> HIDE DEF u
<1>4. (Whole(u) => Whole(context')) /\ Headed(context') /\ context'[1] = u[1]
  BY <1>2, <1>3, AppendPlain
<1> QED
  BY <1>1, <1>2, <1>3, <1>4 DEF ContextWhole

LEMMA RequestTurned ==
  ASSUME Types, Refers, ContextWhole, SinceResponse, Reflect \/ Withhold
  PROVE  ContextWhole' /\ SinceResponse'
<1>1. /\ run.phase = "text" /\ run'.previous = run.previous
      /\ \E name \in {"feedback", "active_goal_continuation"} : Turns(name) /\ chained' = Append(chained, System(name))
  BY TextTurns
<1>2. PICK name : Turns(name) /\ chained' = Append(chained, System(name))
  BY <1>1
<1>3. /\ run'.phase = "top" /\ run'.asked = run.asked /\ run'.left = run.left /\ System(name) \in Message
      /\ System(name).role # "tool"
  BY <1>2 DEF Turns
<1>4. OneAnswer(chained) /\ run.asked = {} /\ \A c \in Nat : ~ AnsweredIn(chained, c)
  BY <1>1 DEF SinceResponse, AnsweredIn
<1>5. OneAnswer(chained') /\ \A c \in Nat : ~ AnsweredIn(chained', c)
  BY <1>2, <1>3, <1>4, AnsweredAppend DEF Types
<1>6. SinceResponse'
  BY <1>3, <1>4, <1>5 DEF SinceResponse
<1> QED
  BY <1>1, <1>2, <1>6, ContextTurned

LEMMA RequestWarned ==
  ASSUME Types, Refers, ContextWhole, SinceResponse, Warn
  PROVE  ContextWhole' /\ SinceResponse'
<1>1. run.phase = "batch" /\ run'.previous = FALSE /\ Turns("loop_guard") /\ chained' = chained
  BY WarnTurns
<1>2. run'.phase = "top" /\ run'.left = run.left
  BY <1>1 DEF Turns
<1>3. SinceResponse'
  BY <1>1, <1>2 DEF SinceResponse
<1> QED
  BY <1>1, <1>3, ContextTurned

LEMMA RequestRecorded ==
  ASSUME Types, ContextWhole, SinceResponse, Records
  PROVE  ContextWhole' /\ SinceResponse'
<1> DEFINE ids == Ids(run.reply)
<1>1. /\ run.phase = "batch" /\ run'.phase = "tools" /\ run'.reply = run.reply /\ run'.asked = run.asked
      /\ run'.left = run.left /\ context' = Append(context, Asks(ids)) /\ UNCHANGED <<chained, spoiled>>
  BY DEF Records, Moves, Same, Alike
<1>2. run.reply \in Seq(Call) /\ run.asked \in SUBSET Nat /\ context \in Seq(Message)
  BY DEF Types, Run
<1>3. ids \in SUBSET Nat /\ \A c \in Nat : c \in ids <=> Waits(run.reply, c)
  BY <1>2, IdsAre
<1> HIDE DEF ids
<1>4. \A c \in Nat : c \in run.asked <=> Waits(run.reply, c)
  BY <1>1 DEF SinceResponse
<1>5. ids = run.asked
  BY <1>2, <1>3, <1>4
<1>6. /\ Headed(context) /\ context[1] # System("goal_tracker") /\ ("tool" \notin spoiled => Whole(context))
      /\ run.reply # <<>>
  BY <1>1 DEF ContextWhole
<1>7. ids # {}
  <2>1. CallFacts(run.reply) /\ Len(run.reply) # 0
    BY <1>2, <1>6, CallsAre, EmptySeq
  <2>2. 1 \in 1 .. Len(run.reply) /\ run.reply[1].id \in Nat
    BY <2>1 DEF CallFacts
  <2>3. Waits(run.reply, run.reply[1].id)
    BY <2>2 DEF Waits
  <2> QED
    BY <1>3, <2>2, <2>3
<1>8. Headed(context') /\ context'[1] = context[1]
  <2>1. Asks(ids) \in Message
    BY <1>3, AsksIs
  <2> QED
    BY <1>1, <1>2, <1>6, <2>1, HeadStays
<1>9. ASSUME "tool" \notin spoiled PROVE \E h \in Nat : Opened(context', h, run.asked, run.reply)
  <2>1. Whole(context) /\ \A c \in ids : Waits(run.reply, c)
    BY <1>3, <1>6, <1>9
  <2>2. Opened(Append(context, Asks(ids)), Len(context) + 1, ids, run.reply)
    BY <1>2, <1>3, <1>7, <2>1, CallOpens
  <2>3. Len(context) + 1 \in Nat
    BY <1>2, SeqFacts
  <2> QED
    BY <1>1, <1>5, <2>2, <2>3
<1>10. ContextWhole'
  BY <1>1, <1>6, <1>8, <1>9 DEF ContextWhole
<1>11. SinceResponse'
  BY <1>1 DEF SinceResponse
<1> QED
  BY <1>10, <1>11

\* From the batch to the calls that wait for an answer, all of them unless some wait for approval.
LEMMA RequestExecuted ==
  ASSUME Types, ContextWhole, SinceResponse, run.phase = "tools", run'.phase \in {"executed", "answers"},
         run'.asked = run.asked, UNCHANGED <<context, chained>>, "tool" \notin spoiled' => "tool" \notin spoiled,
         \A c \in Nat : Waits(run'.left, c) => Waits(run.reply, c),
         ~ run'.approval /\ "tool" \notin spoiled' => \A c \in Nat : Waits(run.reply, c) => Waits(run'.left, c)
  PROVE  ContextWhole' /\ SinceResponse'
<1>1. Headed(context) /\ context[1] # System("goal_tracker") /\ run.asked \in SUBSET Nat
  BY DEF ContextWhole, Types, Run
<1>2. \A c \in Nat : c \in run.asked <=> Waits(run.reply, c)
  BY DEF SinceResponse
<1>3. ASSUME ~ run'.approval, "tool" \notin spoiled' PROVE \E h \in Nat : Opened(context, h, run.asked, run'.left)
  <2>1. PICK h \in Nat : Opened(context, h, run.asked, run.reply)
    BY <1>3 DEF ContextWhole
  <2>2. Opened(context, h, run.asked, run'.left)
    BY <1>1, <1>3, <2>1, OpenedStays
  <2> QED
    BY <2>2
<1>4. ContextWhole'
  BY <1>1, <1>3 DEF ContextWhole
<1>5. OneAnswer(chained) /\ (\A i \in 1 .. Len(chained) : chained[i].role # "tool") /\ \A c \in Nat : ~ AnsweredIn(chained, c)
  BY DEF SinceResponse, AnsweredIn
<1>6. SinceResponse'
  BY <1>2, <1>5 DEF SinceResponse
<1> QED
  BY <1>4, <1>6

LEMMA RequestEarly ==
  ASSUME Types, ContextWhole, SinceResponse, run.phase = "tools", run'.phase = "answers", run'.asked = run.asked,
         run'.left = Early, UNCHANGED <<context, chained>>, spoiled' \in {spoiled, spoiled \union {"plan"}}
  PROVE  ContextWhole' /\ SinceResponse'
<1>1. \A c \in Nat : Waits(Early, c) <=> Waits(run.reply, c)
  <2>1. Carries(Early, run.reply, 1 .. Len(run.reply))
    BY EarlyCarries DEF Types
  <2> QED
    BY <2>1 DEF Carries, Waits
<1> QED
  BY <1>1, RequestExecuted

LEMMA RequestCollected ==
  ASSUME ContextWhole, SinceResponse, Moves("executed", "answers"), UNCHANGED <<context, chained, spoiled>>
  PROVE  ContextWhole' /\ SinceResponse'
<1>1. /\ run.phase = "executed" /\ run'.phase = "answers" /\ run'.left = run.left /\ run'.asked = run.asked
      /\ run'.approval = run.approval
  BY DEF Moves, Same, Alike
<1>2. ContextWhole'
  BY <1>1 DEF ContextWhole
<1>3. SinceResponse'
  BY <1>1 DEF SinceResponse
<1> QED
  BY <1>2, <1>3

LEMMA RequestAnswered ==
  ASSUME Types, OncePerCall, ContextWhole, SinceResponse, run.phase = "answers", NEW c, AnswersFirst(c),
         spoiled' = spoiled
  PROVE  ContextWhole' /\ SinceResponse'
<1> DEFINE m == Answers(c.id)
<1>1. /\ run'.phase = "answers" /\ run'.asked = run.asked /\ run'.approval = run.approval
      /\ context' = Append(context, m) /\ chained' = Append(chained, m)
  BY DEF AnswersFirst, Alike
<1>2. /\ c.id \in Nat /\ Waits(run.left, c.id) /\ ~ Waits(run'.left, c.id)
      /\ \A d \in Nat : Waits(run.left, d) <=> d = c.id \/ Waits(run'.left, d)
  BY HeadWaits DEF OncePerCall
<1>3. m \in Message /\ m.role = "tool" /\ m.of = c.id
  BY <1>2, AnswersIs
<1>4. context \in Seq(Message) /\ chained \in Seq(Message) /\ run.asked \in SUBSET Nat
  BY DEF Types, Run
<1>5. Headed(context) /\ context[1] # System("goal_tracker")
  BY DEF ContextWhole
<1>6. ASSUME ~ run.approval, "tool" \notin spoiled PROVE \E h \in Nat : Opened(context', h, run.asked, run'.left)
  <2>1. PICK h \in Nat : Opened(context, h, run.asked, run.left)
    BY <1>6 DEF ContextWhole
  <2>2. \A d \in run.asked : Waits(run.left, d) => d = c.id \/ Waits(run'.left, d)
    BY <1>2, <1>4
  <2>3. Opened(Append(context, Answers(c.id)), h, run.asked, run'.left)
    BY <1>2, <1>4, <2>1, <2>2, CallAnswered
  <2> QED
    BY <1>1, <2>3
<1> HIDE DEF m
<1>7. Headed(context') /\ context'[1] = context[1]
  BY <1>1, <1>3, <1>4, <1>5, HeadStays
<1>8. ContextWhole'
  BY <1>1, <1>5, <1>6, <1>7 DEF ContextWhole
<1>9. ~ AnsweredIn(chained, c.id) /\ OneAnswer(chained) /\ \A d \in Nat : AnsweredIn(chained, d) => ~ Waits(run.left, d)
  BY <1>2 DEF SinceResponse
<1>10. OneAnswer(chained') /\ \A d \in Nat : AnsweredIn(chained', d) <=> AnsweredIn(chained, d) \/ d = c.id
  BY <1>1, <1>3, <1>4, <1>9, AnsweredAppend
<1>11. \A d \in Nat : AnsweredIn(chained', d) => ~ Waits(run'.left, d)
  BY <1>2, <1>9, <1>10
<1>12. ~ run.approval /\ "tool" \notin spoiled =>
         \A d \in Nat : d \in run.asked <=> AnsweredIn(chained', d) \/ Waits(run'.left, d)
  <2>1. ~ run.approval /\ "tool" \notin spoiled =>
          \A d \in Nat : d \in run.asked <=> AnsweredIn(chained, d) \/ Waits(run.left, d)
    BY DEF SinceResponse
  <2> QED
    BY <1>2, <1>10, <2>1
<1>13. SinceResponse'
  BY <1>1, <1>10, <1>11, <1>12 DEF SinceResponse
<1> QED
  BY <1>8, <1>13

\* With the last answer the context is whole again.
LEMMA RequestIterates ==
  ASSUME Types, Refers, ContextWhole, SinceResponse, run.phase = "answers", run.left = <<>>, ~ run.approval, Iterates,
         UNCHANGED <<context, chained, spoiled>>
  PROVE  ContextWhole' /\ SinceResponse'
<1>1. run'.phase = "top" /\ run'.left = run.left /\ run'.asked = run.asked /\ run.asked \in SUBSET Nat
  BY IteratesIs DEF Types, Run
<1>2. \A c : ~ Waits(run.left, c)
  BY NoCalls
<1>3. Headed(context) /\ context[1] # System("goal_tracker") /\ context \in Seq(Message)
  BY DEF ContextWhole, Types
<1>4. ASSUME "tool" \notin spoiled PROVE Whole(context)
  <2>1. PICK h \in Nat : Opened(context, h, run.asked, run.left)
    BY <1>4 DEF ContextWhole
  <2> QED
    BY <1>2, <1>3, <2>1, AllAnswered
<1>5. ContextWhole'
  BY <1>1, <1>3, <1>4 DEF ContextWhole
<1>6. SinceResponse'
  BY <1>1, <1>2 DEF SinceResponse
<1> QED
  BY <1>5, <1>6

LEMMA RequestStep ==
  ASSUME Types, Refers, OncePerCall, ContextWhole, SinceResponse, [Next]_vars
  PROVE  ContextWhole' /\ SinceResponse'
<1>1. CASE RunOut \/ GiveUp \/ StopAtTop \/ StoreFails \/ NoReply \/ Finish \/ Stuck \/ StopTools \/ Crash
  <2>1. \E o : Ended(o)
    BY <1>1, DeferTypes, CancelledTypes, FailTypes, StoresTypes, CrashIs
       DEF RunOut, GiveUp, StopAtTop, StoreFails, NoReply, Finish, Stuck, StopTools, At, Crashed
  <2> QED
    BY <2>1, RequestEnded
<1>2. CASE Others /\ ~ Crash
  <2>1. UNCHANGED <<run, context, chained, spoiled>>
    BY <1>2 DEF Others, Write, TurnedAway, StoreNote, Stop, Decides, ClaimAction, StoreAnswer, ResolveAction,
                ToolFinished, ActionResolved, ResumeBatch, AbandonAction, durable
  <2> QED
    BY <2>1 DEF ContextWhole, SinceResponse
<1>3. CASE Begins
  BY <1>3, BeginIs, ContinueIs, RequestBegun DEF Begins
<1>4. CASE Think
  BY <1>4, ThinkIs, RequestThought
<1>5. CASE ChainBreaks
  <2>1. Moves("chained", "full") /\ UNCHANGED <<context, chained, spoiled>>
    BY <1>5, MovesIs DEF ChainBreaks, At, Phases
  <2>2. run.phase = "chained" /\ run'.phase = "full" /\ run'.left = run.left
    BY <2>1 DEF Moves, Same
  <2> QED
    BY <2>1, <2>2 DEF ContextWhole, SinceResponse
<1>6. CASE \E reply \in Replies : Reply(reply)
  BY <1>6, ReplyIs, RequestReplied
<1>7. CASE Reflect \/ Withhold
  BY <1>7, RequestTurned
<1>8. CASE Warn
  BY <1>8, RequestWarned
<1>9. CASE Record
  BY <1>9, RecordIs, RequestRecorded
<1>10. CASE Plan
  <2>1. PICK goal, plan : PlansAs(goal, plan)
    BY <1>10, PlanIs
  <2>2. run.phase = "tools" /\ UNCHANGED <<context, chained, spoiled>>
    BY <1>10 DEF Plan, At
  <2>3. run'.phase = "answers" /\ run'.asked = run.asked /\ run'.left = Early
    BY <2>1 DEF PlansAs, Alike
  <2> QED
    BY <2>2, <2>3, RequestEarly
<1>11. CASE PlanFails \/ Activate
  <2>1. AnswersEarly
    BY <1>11, EarlyAnswers
  <2>2. /\ run.phase = "tools" /\ run'.phase = "answers" /\ run'.asked = run.asked /\ run'.left = Early
        /\ UNCHANGED <<context, chained>>
    BY <2>1 DEF AnswersEarly, Alike
  <2>3. spoiled' \in {spoiled, spoiled \union {"plan"}}
    BY <1>11 DEF PlanFails, Activate
  <2> QED
    BY <2>2, <2>3, RequestEarly
<1>12. CASE Execute
  <2>1. PICK I, K : Executes(I, K)
    BY <1>12, ExecuteIs
  <2>2. run.phase = "tools" /\ UNCHANGED <<context, chained>>
    BY <1>12 DEF Execute, At
  <2>3. /\ I \in SUBSET (1 .. Len(run.reply)) /\ K \in SUBSET (1 .. Len(run.reply))
        /\ run'.phase = "executed" /\ run'.asked = run.asked /\ run'.approval = (I # {})
        /\ ("tool" \notin spoiled' => "tool" \notin spoiled /\ I \union K = 1 .. Len(run.reply))
    BY <2>1 DEF Executes, Alike
  <2>4. \A c \in Nat : Waits(run'.left, c) <=> \E n \in K : run.reply[n].id = c
    BY <2>1 DEF Executes, Carries
  <2>5. \A c \in Nat : Waits(run'.left, c) => Waits(run.reply, c)
    BY <2>3, <2>4 DEF Waits
  <2>6. ASSUME ~ run'.approval, "tool" \notin spoiled', NEW c \in Nat, Waits(run.reply, c) PROVE Waits(run'.left, c)
    <3>1. K = 1 .. Len(run.reply)
      BY <2>3, <2>6
    <3> QED
      BY <2>4, <2>6, <3>1 DEF Waits
  <2> QED
    BY <2>2, <2>3, <2>5, <2>6, RequestExecuted
<1>13. CASE Collect
  <2>1. Moves("executed", "answers") /\ UNCHANGED <<context, chained, spoiled>>
    BY <1>13, MovesIs DEF Collect, At, Phases
  <2> QED
    BY <2>1, RequestCollected
<1>14. CASE Answer
  <2>1. PICK c : AnswersFirst(c)
    BY <1>14, AnswerIs
  <2>2. run.phase = "answers" /\ spoiled' = spoiled
    BY <1>14 DEF Answer, At
  <2> QED
    BY <2>1, <2>2, RequestAnswered
<1>15. CASE Answered
  <2>1. run.phase = "answers" /\ run.left = <<>>
    BY <1>15 DEF Answered, At
  <2>2. CASE ~ run.approval /\ Iterates /\ UNCHANGED <<durable, context, chained, tracker, cancel, issued, spoiled, used>>
    BY <2>1, <2>2, RequestIterates
  <2>3. CASE Ends("waiting")
    BY <2>3, EndsAs, RequestEnded DEF Outcomes, Types
  <2> QED
    BY <2>2, <2>3, <1>15 DEF Answered
<1>16. CASE UNCHANGED vars
  BY <1>16 DEF vars, durable, ContextWhole, SinceResponse
<1> QED
  BY <1>1, <1>2, <1>3, <1>4, <1>5, <1>6, <1>7, <1>8, <1>9, <1>10, <1>11, <1>12, <1>13, <1>14, <1>15, <1>16
     DEF Next, Runs, Asking, Texts, Tools

-------------------------------------------------------------------------------
(* The properties *)

\* All that is kept: the properties follow from it, and each of its parts needs others.
Kept ==
  /\ Types /\ Refers /\ GoalKnown /\ OncePerCall /\ ContextWhole /\ SinceResponse /\ RunningIsTrue

LEMMA KeptInit == Init => Kept
<1> SUFFICES ASSUME Init PROVE Kept
  OBVIOUS
<1> DEFINE i == Idle("none")
<1>1. i.phase = "idle" /\ i.from = {} /\ i.reply = <<>> /\ i.left = <<>> /\ i.outcome = "none"
  BY IdleIs DEF Outcomes
<1> HIDE DEF i
<1>2. /\ transcript = <<>> /\ goals = <<>> /\ actions = {} /\ row = <<>> /\ saved = {} /\ run = i /\ chained = <<>>
      /\ tracker = NoTracker /\ issued = 0
  BY DEF Init, i
<1>3. Types /\ tracker.goal = 0
  BY <1>2, TypesInit, NoTrackerIs
<1>4. Refers
  <2>1. Len(goals) = 0
    BY <1>2
  <2> QED
    BY <1>1, <1>2, <1>3, <2>1 DEF Refers
<1>5. GoalKnown
  BY <1>1, <1>2, <1>3 DEF GoalKnown
<1>6. OncePerCall
  BY <1>1, <1>2, NoCalls DEF OncePerCall
<1>7. ContextWhole /\ SinceResponse
  BY <1>1, <1>2, NoCalls DEF ContextWhole, SinceResponse
<1>8. RunningIsTrue
  <2>1. DOMAIN row = {}
    BY <1>2
  <2> QED
    BY <2>1 DEF RunningIsTrue
<1> QED
  BY <1>3, <1>4, <1>5, <1>6, <1>7, <1>8 DEF Kept

LEMMA KeptStep == Kept /\ [Next]_vars => Kept'
<1> SUFFICES ASSUME Kept, [Next]_vars PROVE Kept'
  OBVIOUS
<1>1. Types'
  BY TypesStep DEF Kept
<1> QED
  BY <1>1, RefersStep, GoalStep, OnceStep, RequestStep, RunningStep DEF Kept

\* What the invariant says of the types.
LEMMA TypesKept == Kept => TypeOK
<1> SUFFICES ASSUME Kept PROVE TypeOK
  OBVIOUS
<1>1. Types /\ Refers
  BY DEF Kept
<1>2. run.phase \in Phases /\ run.iteration \in 0 .. MaxIterations /\ run.premature \in 0 .. 2
  BY <1>1 DEF Types, Run
<1>3. /\ DOMAIN row = 1 .. Len(row) /\ \A r \in DOMAIN row : row[r] \in Statuses
      /\ DOMAIN goals = 1 .. Len(goals)
  BY <1>1, SeqFacts DEF Types
<1>4. \A a \in actions : a.status \in {"pending", "uncertain", "told"} \union AtWork \union GivenUp /\ a.run \in DOMAIN row
  BY <1>1, <1>3 DEF Types, Refers, Action, ActionStatuses
<1>5. tracker.goal \in 0 .. Len(goals) /\ \A c \in saved : c.goal \in DOMAIN goals
  BY <1>1, <1>3 DEF Refers
<1> QED
  BY <1>2, <1>3, <1>4, <1>5 DEF TypeOK

\* A full request is the context; a chained one answers the calls of the response it continues.
LEMMA RequestsKept == Kept => RequestsWhole
<1> DEFINE tools == {n \in DOMAIN chained : chained[n].role = "tool"}
<1> SUFFICES ASSUME Kept, "tool" \notin spoiled
             PROVE  /\ run.phase = "full" => Paired(context)
                    /\ run.phase = "chained" =>
                         /\ {chained[n].of : n \in tools} = run.asked
                         /\ \A m, n \in tools : chained[m].of = chained[n].of => m = n
  BY DEF RequestsWhole
<1>1. Types /\ ContextWhole /\ SinceResponse
  BY DEF Kept
<1>2. run.phase = "full" => Paired(context)
  BY <1>1, PairedIsWhole DEF ContextWhole, Types
<1>3. DOMAIN chained = 1 .. Len(chained) /\ \A n \in DOMAIN chained : chained[n].of \in Nat
  <2>1. DOMAIN chained = 1 .. Len(chained) /\ \A n \in DOMAIN chained : chained[n] \in Message
    BY <1>1, SeqFacts DEF Types
  <2> QED
    BY <2>1 DEF Message
<1>4. ASSUME run.phase = "chained" PROVE {chained[n].of : n \in tools} = run.asked
  <2>1. run.asked \in SUBSET Nat /\ \A c \in Nat : c \in run.asked <=> AnsweredIn(chained, c)
    BY <1>1, <1>4 DEF SinceResponse, Types, Run
  <2>2. \A c \in Nat : AnsweredIn(chained, c) <=> \E n \in tools : chained[n].of = c
    BY <1>3 DEF AnsweredIn
  <2> QED
    BY <1>3, <2>1, <2>2
<1>5. \A m, n \in tools : chained[m].of = chained[n].of => m = n
  BY <1>1, <1>3 DEF SinceResponse, OneAnswer
<1> QED
  BY <1>2, <1>4, <1>5

LEMMA AnswersKept == Kept => AnsweredOnce
<1> SUFFICES ASSUME Kept PROVE AnsweredOnce
  OBVIOUS
<1>1. OncePerCall /\ DOMAIN transcript = 1 .. Len(transcript) /\ \A i \in 1 .. Len(transcript) : transcript[i] \in Message
  BY SeqFacts DEF Kept, Types
<1> SUFFICES ASSUME NEW i \in 1 .. Len(transcript), NEW j \in 1 .. Len(transcript), i < j,
                    transcript[i].role = "tool", transcript[j].role = "tool", transcript[i].of = transcript[j].of
             PROVE  /\ transcript[i].name = "result" /\ transcript[j].name = "warning"
                    /\ \E a \in actions : a.call = transcript[j].of /\ a.status = "uncertain"
  BY <1>1 DEF AnsweredOnce
<1>2. transcript[i].name = "result" /\ transcript[j].name = "warning"
  BY <1>1 DEF OncePerCall, WarnedLast
<1>3. transcript[j].of \in Nat /\ WarnedIn(transcript, transcript[j].of)
  BY <1>1, <1>2 DEF WarnedIn, Message
<1> QED
  BY <1>1, <1>2, <1>3 DEF OncePerCall

LEMMA GoalsKept == Kept => FinalGoalClosed
BY DEF Kept, GoalKnown, FinalGoalClosed

LEMMA KeptAlways == Spec => []Kept
BY KeptInit, KeptStep, PTL DEF Spec

\* The variables have their types: a checkpoint, an action and the tracker speak of goals and
\* rows that are there, and the counters of a run stay within their limits.
THEOREM TypeCorrect == Spec => []TypeOK
BY KeptAlways, TypesKept, PTL

\* However the window cuts the transcript and whatever is stored between a call and its answer,
\* the model is asked with every call answered directly after it, and a chained request answers
\* exactly the calls of its response (run.rs, streaming.rs, context_window.rs).
THEOREM RequestsAreWhole == Spec => []RequestsWhole
BY KeptAlways, RequestsKept, PTL

\* The run and the requests that decide its actions never both answer a call, nor one of them
\* twice; only a restart does, once, when an answer was stored and its action not settled
\* (tools.rs, handlers/actions.rs, files_actions.rs).
THEOREM AnswersAreOne == Spec => []AnsweredOnce
BY KeptAlways, AnswersKept, PTL

\* The user gets no final answer while the goal of the run is open (run.rs 328-377, 393-430).
THEOREM FinalGoalsAreClosed == Spec => []FinalGoalClosed
BY KeptAlways, GoalsKept, PTL

\* A row that says running has a run that goes on, or an action whose request is at work or was
\* given up (events.rs).
THEOREM RunningRowsAreTrue == Spec => []RunningIsTrue
BY KeptAlways, PTL DEF Kept

\* All of these: what the turns of a conversation keep.
THEOREM TurnIsKept == Spec => []TurnKept
<1>1. Kept => TurnKept
  BY RequestsKept, AnswersKept, GoalsKept DEF Kept, TurnKept
<1> QED
  BY <1>1, KeptAlways, PTL
===============================================================================
