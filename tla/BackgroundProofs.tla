---------------------------- MODULE BackgroundProofs ----------------------------
(***************************************************************************)
(* Proofs about the parts that work in the background, as MCBackground     *)
(* puts them together.  The schedule, for any tasks, limits, turns,        *)
(* failing statements and crashes: a task runs once per occurrence, what   *)
(* is running is in somebody's hands, what is settled stays settled.       *)
(* Uploaded files, for any number of files, conversations, deletions and   *)
(* import tasks: a file in use keeps its record and its data, and one task *)
(* at a time works on an import.  The polls of a mailbox and of a Google   *)
(* account, whatever arrives, is replaced or fails between two steps: no   *)
(* cursor passes a message that was not stored.  The outbox, for any notes *)
(* and failures: what counts as sent was told, and a failure pays for      *)
(* every repeat; and the heartbeat, which asks once per interval.          *)
(***************************************************************************)
EXTENDS Background, SequencesExt, WellFoundedInduction, FiniteSetTheorems, TLAPS

-------------------------------------------------------------------------------
(* What the library folds over a finite set, whatever order it chooses *)

\* A set of numbers that is not empty has a least element.
LEMMA Least ==
  ASSUME NEW T \in SUBSET Nat, T # {}
  PROVE  \E m \in T : \A k \in T : m <= k
<1> DEFINE R == {p \in Nat \X Nat : p[1] < p[2]}
<1>1. IsWellFoundedOn(R, Nat)
  BY NatLessThanWellFounded DEF OpToRel
<1>2. \A x, y \in T : <<y, x>> \in R <=> y < x
  OBVIOUS
<1> HIDE DEF R
<1>3. PICK x \in T : \A y \in T : ~ (<<y, x>> \in R)
  BY <1>1, WFMin
<1>4. ASSUME NEW k \in T PROVE x <= k
  <2>1. ~ (k < x) /\ k \in Nat /\ x \in Nat
    BY <1>2, <1>3
  <2> QED
    BY <2>1
<1> QED
  BY <1>4

\* A set of numbers that has a bound and is not empty has a greatest element.
LEMMA Greatest ==
  ASSUME NEW N \in Nat, NEW T \in SUBSET (0 .. N), T # {}
  PROVE  Max(T) \in T /\ \A k \in T : k <= Max(T)
<1> DEFINE D == {N - t : t \in T}
<1>1. D \in SUBSET Nat /\ D # {}
  <2>1. \A t \in T : t \in 0 .. N /\ N - t \in Nat
    OBVIOUS
  <2> QED
    BY <2>1
<1>2. PICK m \in D : \A k \in D : m <= k
  BY <1>1, Least
<1>3. PICK t \in T : m = N - t
  BY <1>2
<1>4. ASSUME NEW k \in T PROVE k <= t
  <2>1. N - k \in D
    OBVIOUS
  <2> QED
    BY <2>1, <1>2, <1>3
<1>5. \E x \in T : \A y \in T : x >= y
  BY <1>4
<1> QED
  BY <1>5 DEF Max

\* The subsets of S that have at most k elements.
Upto(S, k) == {s \in SUBSET S : Cardinality(s) <= k}
\* A way to take an element out of a set.
Picks(pick, S) == \A s \in SUBSET S : s # {} => pick[s] \in s
\* The results over those subsets: one element more is one step of go more.
Fold(it, S, pick, base, go, s) == it[s] = IF s = {} THEN base ELSE go[pick[s]][it[s \ {pick[s]}]]
FoldsUpto(it, S, k, pick, V, base, go) ==
  it \in [Upto(S, k) -> V] /\ \A s \in Upto(S, k) : Fold(it, S, pick, base, go, s)

LEMMA OneLess ==
  ASSUME NEW S, IsFiniteSet(S), NEW s \in SUBSET S, NEW x \in s
  PROVE  /\ s \ {x} \in SUBSET S
         /\ Cardinality(s) \in Nat /\ Cardinality(s \ {x}) = Cardinality(s) - 1
         /\ Cardinality(s) > 0
<1>1. IsFiniteSet(s)
  BY FS_Subset
<1>2. Cardinality(s) \in Nat /\ Cardinality(s \ {x}) = Cardinality(s) - 1
  BY <1>1, FS_CardinalityType, FS_RemoveElement
<1>3. Cardinality(s) # 0
  BY <1>1, FS_EmptySet
<1> QED
  BY <1>2, <1>3

LEMMA FoldsExist ==
  ASSUME NEW S, IsFiniteSet(S), NEW pick, Picks(pick, S), NEW V, NEW base \in V, NEW go \in [S -> [V -> V]],
         NEW k \in Nat
  PROVE  \E it : FoldsUpto(it, S, k, pick, V, base, go)
<1> DEFINE Bad == {j \in Nat : ~ \E it : FoldsUpto(it, S, j, pick, V, base, go)}
<1> SUFFICES ASSUME Bad # {} PROVE FALSE
  OBVIOUS
<1>1. PICK least \in Bad : \A j \in Bad : least <= j
  BY Least
<1>2. CASE least = 0
  <2> DEFINE it == [s \in Upto(S, 0) |-> base]
  <2>1. \A s \in Upto(S, 0) : s = {}
    <3> SUFFICES ASSUME NEW s \in SUBSET S, Cardinality(s) <= 0 PROVE s = {}
      BY DEF Upto
    <3>1. IsFiniteSet(s)
      BY FS_Subset
    <3>2. Cardinality(s) \in Nat /\ (Cardinality(s) = 0 <=> s = {})
      BY <3>1, FS_CardinalityType, FS_EmptySet
    <3> QED
      BY <3>2
  <2>2. FoldsUpto(it, S, 0, pick, V, base, go)
    BY <2>1 DEF FoldsUpto, Fold
  <2> HIDE DEF it
  <2> QED
    BY <1>2, <2>2
<1>3. CASE least # 0
  <2>1. least - 1 \in Nat /\ least - 1 \notin Bad
    BY <1>1, <1>3
  <2>2. PICK smaller : FoldsUpto(smaller, S, least - 1, pick, V, base, go)
    BY <2>1
  <2> DEFINE it == [s \in Upto(S, least) |-> IF s = {} THEN base ELSE go[pick[s]][smaller[s \ {pick[s]}]]]
  <2>3. \A s \in Upto(S, least - 1) : s \in Upto(S, least) /\ it[s] = smaller[s]
    <3>1. \A s \in Upto(S, least - 1) : s \in Upto(S, least)
      <4> SUFFICES ASSUME NEW s \in SUBSET S, Cardinality(s) <= least - 1 PROVE Cardinality(s) <= least
        BY DEF Upto
      <4>1. Cardinality(s) \in Nat
        BY FS_Subset, FS_CardinalityType
      <4> QED
        BY <4>1
    <3> QED
      BY <2>2, <3>1 DEF FoldsUpto, Fold
  <2>4. ASSUME NEW s \in Upto(S, least) PROVE it[s] \in V /\ Fold(it, S, pick, base, go, s)
    <3>1. CASE s = {}
      BY <3>1 DEF Fold
    <3>2. CASE s # {}
      <4>1. s \in SUBSET S /\ pick[s] \in s /\ pick[s] \in S
        BY <3>2 DEF Upto, Picks
      <4>2. s \ {pick[s]} \in Upto(S, least - 1)
        BY <4>1, OneLess DEF Upto
      <4>3. it[s \ {pick[s]}] = smaller[s \ {pick[s]}] /\ smaller[s \ {pick[s]}] \in V
        BY <2>2, <2>3, <4>2 DEF FoldsUpto
      <4>4. it[s] = go[pick[s]][smaller[s \ {pick[s]}]]
        BY <3>2
      <4>5. go[pick[s]] \in [V -> V]
        BY <4>1
      <4> HIDE DEF it
      <4> QED
        BY <3>2, <4>3, <4>4, <4>5 DEF Fold
    <3> QED
      BY <3>1, <3>2
  <2>5. FoldsUpto(it, S, least, pick, V, base, go)
    BY <2>4 DEF FoldsUpto
  <2> HIDE DEF it
  <2> QED
    BY <2>5
<1> QED
  BY <1>2, <1>3

\* Every fold over a finite set with values in V is defined.
LEMMA FoldExists ==
  ASSUME NEW S, IsFiniteSet(S), NEW pick, Picks(pick, S), NEW V, NEW base \in V, NEW go \in [S -> [V -> V]]
  PROVE  \E it \in [SUBSET S -> V] : \A s \in SUBSET S : Fold(it, S, pick, base, go, s)
<1>1. Cardinality(S) \in Nat /\ Upto(S, Cardinality(S)) = SUBSET S
  BY FS_CardinalityType, FS_Subset DEF Upto
<1>2. PICK it : FoldsUpto(it, S, Cardinality(S), pick, V, base, go)
  BY <1>1, FoldsExist
<1> QED
  BY <1>1, <1>2 DEF FoldsUpto

\* A set of subsets that a set is not in unless a smaller one is, is empty.
LEMMA NoSmallest ==
  ASSUME NEW S, IsFiniteSet(S), NEW B \in SUBSET SUBSET S,
         \A s \in B : \E x \in s : s \ {x} \in B
  PROVE  B = {}
<1> SUFFICES ASSUME B # {} PROVE FALSE
  OBVIOUS
<1> DEFINE T == {Cardinality(s) : s \in B}
<1>1. T \in SUBSET Nat /\ T # {}
  BY FS_Subset, FS_CardinalityType
<1>2. PICK m \in T : \A k \in T : m <= k
  BY <1>1, Least
<1>3. PICK s \in B : m = Cardinality(s)
  OBVIOUS
<1>4. PICK x \in s : s \ {x} \in B
  OBVIOUS
<1>5. Cardinality(s \ {x}) = m - 1 /\ m \in Nat
  BY <1>3, OneLess
<1>6. m - 1 \in T
  BY <1>4, <1>5
<1> QED
  BY <1>2, <1>5, <1>6

-------------------------------------------------------------------------------
(* The schedule *)

Stages == {"none", "used up", "started", "posting", "claiming", "running", "settling", "failing"}

\* What an executor has done of the occurrence it was spawned for, and that
\* there was a run left for it.
Occurrence ==
  \A t \in Tasks :
    /\ executor[t] \in {"used up", "started", "posting", "claiming"} => ran[t] = runCount[t]
    /\ executor[t] \in {"running", "settling"} => ran[t] = runCount[t] + 1
    /\ executor[t] \in {"started", "posting", "claiming"} /\ MaxRuns[t] # NoLimit => ran[t] < MaxRuns[t]

\* A task that does not exist has no history.
Unscheduled == \A t \in Tasks : status[t] = "absent" => ran[t] = 0 /\ runCount[t] = 0

\* The loop holds one task, and only while it completes it.
LoopHolds ==
  /\ \A t \in Tasks : executor[t] = "used up" =>
       looping = "completing" /\ \A u \in Tasks : executor[u] = "used up" => u = t
  /\ looping = "down" => \A t \in Tasks : executor[t] = "none"

Counts == RunsAsScheduled /\ Occurrence /\ Unscheduled
Hands == RunningHasExecutor /\ LoopHolds
IInv == TypeOK /\ Hands /\ Counts

-------------------------------------------------------------------------------
(* Typing *)

Statuses == {"absent", "pending", "running"} \union Settled
Shapes ==
  /\ status \in [Tasks -> Statuses] /\ due \in [Tasks -> BOOLEAN]
  /\ looping \in {"down", "idle", "claiming", "completing"} /\ listed \subseteq Tasks
  /\ executor \in [Tasks -> Stages]
  /\ owner \in Tasks \union {"nobody", "turn", "background"}
  /\ unanswered \in [Tasks -> BOOLEAN]
Numbers ==
  /\ runCount \in [Tasks -> Nat] /\ ran \in [Tasks -> Nat]
  /\ turns \in 0..MaxTurns /\ faults \in 0..MaxFaults /\ crashes \in 0..MaxCrashes

LEMMA Typing == TypeOK <=> Shapes /\ Numbers
BY DEF TypeOK, Shapes, Numbers, Statuses, Stages

LEMMA ShapeStep == Shapes /\ [Next]_vars => Shapes'
<1> SUFFICES ASSUME Shapes, [Next]_vars PROVE Shapes'
  OBVIOUS
<1> USE DEF Shapes, Statuses, Stages, Settled, rowVars, historyVars, NoFault, Executor
<1>1. ASSUME NEW t \in Tasks, Schedule(t) \/ Cancel(t) \/ FallsDue(t) PROVE Shapes'
  BY <1>1 DEF Schedule, Cancel, FallsDue, CreateRow, CancelRow
<1>2. ASSUME NEW t \in Tasks, DeferBusy(t) \/ DeferRace(t) PROVE Shapes'
  BY <1>2 DEF DeferBusy, DeferRace, NextRun
<1>3. ASSUME NEW t \in Tasks, FoundFree(t) \/ PostPrompt(t) \/ ReplyFails(t) PROVE Shapes'
  BY <1>3 DEF FoundFree, PostPrompt, ReplyFails
<1>4. ASSUME NEW t \in Tasks, BeginRun(t) \/ EndRun(t) PROVE Shapes'
  BY <1>4 DEF BeginRun, EndRun
<1>5. ASSUME NEW t \in Tasks, Settle(t) PROVE Shapes'
  BY <1>5 DEF Settle, NextRun, Finish
<1>6. ASSUME NEW t \in Tasks, StoreFailure(t) \/ StatementFails(t) PROVE Shapes'
  BY <1>6 DEF StoreFailure, StatementFails, Finish
<1>7. CASE List \/ EndList \/ TickFails
  BY <1>7 DEF List, EndList, TickFails
<1>8. ASSUME NEW t \in Tasks, Claim(t) PROVE Shapes'
  BY <1>8 DEF Claim, ClaimRow
<1>9. ASSUME NEW t \in Tasks, Complete(t) PROVE Shapes'
  BY <1>9 DEF Complete, Finish
<1>10. CASE OtherReleases \/ \E w \in {"turn", "background"} : OtherClaims(w)
  BY <1>10 DEF OtherReleases, OtherClaims
<1>11. CASE Crash \/ Restart
  BY <1>11 DEF Crash, Restart, InterruptRows
<1>12. CASE UNCHANGED vars
  BY <1>12 DEF vars
<1> QED
  BY <1>1, <1>2, <1>3, <1>4, <1>5, <1>6, <1>7, <1>8, <1>9, <1>10, <1>11, <1>12 DEF Next, Loop, Execute

\* Runs are counted one by one, what is bounded grows below its bound.
Counting ==
  /\ runCount' = runCount \/ \E t \in Tasks : runCount' = [runCount EXCEPT ![t] = @ + 1]
  /\ ran' = ran \/ \E t \in Tasks : ran' = [ran EXCEPT ![t] = @ + 1]
  /\ turns' = turns \/ (turns < MaxTurns /\ turns' = turns + 1)
  /\ faults' = faults \/ (faults < MaxFaults /\ faults' = faults + 1)
  /\ crashes' = crashes \/ (crashes < MaxCrashes /\ crashes' = crashes + 1)

LEMMA CountingStep == Numbers /\ [Next]_vars => Counting
<1> SUFFICES ASSUME Numbers, [Next]_vars PROVE Counting
  OBVIOUS
<1> USE DEF Counting, rowVars, historyVars, NoFault, Fault
<1>1. ASSUME NEW t \in Tasks, Schedule(t) \/ Cancel(t) \/ FallsDue(t) PROVE Counting
  BY <1>1 DEF Schedule, Cancel, FallsDue, CreateRow, CancelRow
<1>2. ASSUME NEW t \in Tasks, DeferBusy(t) \/ DeferRace(t) \/ Settle(t) PROVE Counting
  <2>1. runCount' = runCount \/ runCount' = [runCount EXCEPT ![t] = @ + 1]
    <3>1. CASE NextRun(t, TRUE)
      BY <3>1 DEF NextRun
    <3>2. CASE NextRun(t, FALSE)
      <4>1. runCount' = runCount \/ runCount' = [runCount EXCEPT ![t] = @]
        BY <3>2 DEF NextRun
      <4> QED
        BY <4>1 DEF Numbers
    <3> QED
      BY <1>2, <3>1, <3>2 DEF DeferBusy, DeferRace, Settle, Finish
  <2> QED
    BY <1>2, <2>1 DEF DeferBusy, DeferRace, Settle
<1>3. ASSUME NEW t \in Tasks,
             FoundFree(t) \/ PostPrompt(t) \/ BeginRun(t) \/ EndRun(t) \/ ReplyFails(t)
      PROVE  Counting
  BY <1>3 DEF FoundFree, PostPrompt, BeginRun, EndRun, ReplyFails
<1>4. ASSUME NEW t \in Tasks, StoreFailure(t) \/ StatementFails(t) PROVE Counting
  BY <1>4 DEF StoreFailure, StatementFails, Finish
<1>5. ASSUME NEW t \in Tasks, Claim(t) \/ Complete(t) PROVE Counting
  BY <1>5 DEF Claim, Complete, ClaimRow, Finish
<1>6. CASE List \/ EndList \/ TickFails
  BY <1>6 DEF List, EndList, TickFails
<1>7. CASE OtherReleases \/ \E w \in {"turn", "background"} : OtherClaims(w)
  BY <1>7 DEF OtherReleases, OtherClaims
<1>8. CASE Crash \/ Restart
  BY <1>8 DEF Crash, Restart, InterruptRows
<1>9. CASE UNCHANGED vars
  BY <1>9 DEF vars
<1> QED
  BY <1>1, <1>2, <1>3, <1>4, <1>5, <1>6, <1>7, <1>8, <1>9 DEF Next, Loop, Execute

LEMMA NumberStep == Numbers /\ [Next]_vars => Numbers'
<1> SUFFICES ASSUME Numbers, Counting PROVE Numbers'
  BY CountingStep
<1>1. runCount' \in [Tasks -> Nat] /\ ran' \in [Tasks -> Nat]
  BY DEF Counting, Numbers
<1>2. turns' \in 0..MaxTurns /\ faults' \in 0..MaxFaults /\ crashes' \in 0..MaxCrashes
  BY ScheduleAssumption DEF Counting, Numbers
<1> QED
  BY <1>1, <1>2 DEF Numbers

-------------------------------------------------------------------------------
(* Rows and executors *)

\* An executor's row is running or cancelled, and only failing statements and
\* crashes leave a running row behind.
LEMMA HandsStep == TypeOK /\ Hands /\ [Next]_vars => Hands'
<1> SUFFICES ASSUME Shapes, Numbers, Hands, [Next]_vars PROVE Hands'
  BY Typing
<1>f. faults \in Nat /\ (faults' = faults \/ faults' = faults + 1)
  <2>1. MaxFaults \in Nat
    BY ScheduleAssumption
  <2> QED
    BY <2>1, CountingStep DEF Counting, Numbers
<1>g. (faults > 0 => faults' > 0) /\ (Fault => faults' > 0)
  BY <1>f DEF Fault
<1> USE DEF Hands, RunningHasExecutor, LoopHolds, Shapes, rowVars, historyVars, NoFault, Executor
<1>1. ASSUME NEW t \in Tasks, Schedule(t) \/ Cancel(t) \/ FallsDue(t) PROVE Hands'
  BY <1>1 DEF Schedule, Cancel, FallsDue, CreateRow, CancelRow, Active
<1>2. ASSUME NEW t \in Tasks, DeferBusy(t) \/ DeferRace(t) PROVE Hands'
  BY <1>2 DEF DeferBusy, DeferRace, NextRun
<1>3. ASSUME NEW t \in Tasks, FoundFree(t) \/ PostPrompt(t) \/ ReplyFails(t) PROVE Hands'
  BY <1>3 DEF FoundFree, PostPrompt, ReplyFails
<1>4. ASSUME NEW t \in Tasks, BeginRun(t) \/ EndRun(t) PROVE Hands'
  BY <1>4 DEF BeginRun, EndRun
<1>5. ASSUME NEW t \in Tasks, Settle(t) PROVE Hands'
  BY <1>5 DEF Settle, NextRun, Finish
<1>6. ASSUME NEW t \in Tasks, StoreFailure(t) \/ StatementFails(t) PROVE Hands'
  <2>1. CASE StoreFailure(t)
    BY <1>g, <2>1 DEF StoreFailure, Finish
  <2>2. CASE StatementFails(t)
    <3>1. faults' > 0
      BY <1>g, <2>2 DEF StatementFails
    <3> QED
      BY <2>2, <3>1 DEF StatementFails
  <2> QED
    BY <1>6, <2>1, <2>2
<1>7. CASE List \/ EndList
  BY <1>7 DEF List, EndList
<1>8. CASE TickFails
  <2>1. faults' > 0
    BY <1>g, <1>8 DEF TickFails
  <2> QED
    BY <1>8, <2>1 DEF TickFails
<1>9. ASSUME NEW t \in Tasks, Claim(t) PROVE Hands'
  BY <1>9 DEF Claim, ClaimRow
<1>10. ASSUME NEW t \in Tasks, Complete(t) PROVE Hands'
  BY <1>10 DEF Complete, Finish
<1>11. CASE OtherReleases \/ \E w \in {"turn", "background"} : OtherClaims(w)
  BY <1>11 DEF OtherReleases, OtherClaims
<1>12. CASE Crash \/ Restart
  BY <1>12 DEF Crash, Restart, InterruptRows
<1>13. CASE UNCHANGED vars
  BY <1>13 DEF vars
<1> QED
  BY <1>1, <1>2, <1>3, <1>4, <1>5, <1>6, <1>7, <1>8, <1>9, <1>10, <1>11, <1>12, <1>13 DEF Next, Loop, Execute

-------------------------------------------------------------------------------
(* Runs *)

\* What Counts says of one task.
Counted(x) ==
  /\ ran[x] <= runCount[x] + 1
  /\ MaxRuns[x] # NoLimit => ran[x] <= MaxRuns[x]
  /\ status[x] = "pending" /\ executor[x] = "none" => ran[x] = runCount[x]
  /\ executor[x] \in {"used up", "started", "posting", "claiming"} => ran[x] = runCount[x]
  /\ executor[x] \in {"running", "settling"} => ran[x] = runCount[x] + 1
  /\ executor[x] \in {"started", "posting", "claiming"} /\ MaxRuns[x] # NoLimit => ran[x] < MaxRuns[x]
  /\ status[x] = "absent" => ran[x] = 0 /\ runCount[x] = 0

LEMMA CountedAll == Counts <=> \A x \in Tasks : Counted(x)
BY DEF Counts, RunsAsScheduled, Occurrence, Unscheduled, Counted

\* A run begins, is counted and is limited as the schedule says.
LEMMA CountsStep == TypeOK /\ Hands /\ Counts /\ [Next]_vars => Counts'
<1> SUFFICES ASSUME Shapes, Numbers, Hands, [Next]_vars, NEW x \in Tasks, Counted(x)
             PROVE  Counted(x)'
  BY Typing, CountedAll DEF Counts, RunsAsScheduled, Occurrence, Unscheduled, Counted
<1>t. /\ ran[x] \in Nat /\ runCount[x] \in Nat /\ (MaxRuns[x] # NoLimit => MaxRuns[x] \in Nat)
      /\ ran \in [Tasks -> Nat] /\ runCount \in [Tasks -> Nat]
      /\ status \in [Tasks -> Statuses] /\ executor \in [Tasks -> Stages]
  BY ScheduleAssumption DEF Numbers, Shapes
<1>h. executor[x] # "none" => status[x] \in {"running", "cancelled"}
  BY DEF Hands, RunningHasExecutor
\* Three ways to leave the counts alone.
<1>k. ASSUME UNCHANGED <<status[x], runCount[x], ran[x], executor[x]>> PROVE Counted(x)'
  BY <1>k DEF Counted
<1>l. ASSUME UNCHANGED <<runCount[x], ran[x]>>, executor'[x] \in {"none", "failing"},
             status'[x] \notin {"pending", "absent"}
      PROVE  Counted(x)'
  BY <1>l DEF Counted
<1>m. ASSUME UNCHANGED <<runCount[x], ran[x]>>, executor[x] \in {"started", "posting", "claiming"},
             \/ executor'[x] = "none"
             \/ executor'[x] \in {"posting", "claiming"}, status'[x] # "absent"
      PROVE  Counted(x)'
  BY <1>m DEF Counted
<1> USE DEF Executor
<1>1. ASSUME NEW t \in Tasks, Schedule(t) PROVE Counted(x)'
  <2>1. UNCHANGED <<runCount, ran, executor>> /\ status' = [status EXCEPT ![t] = "pending"]
          /\ status[t] = "absent"
    BY <1>1 DEF Schedule, CreateRow, historyVars
  <2>2. CASE x = t
    <3>1. ran[x] = 0 /\ runCount[x] = 0 /\ executor[x] = "none"
      BY <1>h, <2>1, <2>2 DEF Counted
    <3> QED
      BY <1>t, <2>1, <2>2, <3>1 DEF Counted
  <2>3. CASE x # t
    BY <1>k, <1>t, <2>1, <2>3
  <2> QED
    BY <2>2, <2>3
<1>2. ASSUME NEW t \in Tasks, Cancel(t) PROVE Counted(x)'
  <2>1. /\ UNCHANGED <<runCount, ran, executor>>
        /\ status'[x] = status[x] \/ status'[x] = "cancelled"
    BY <1>t, <1>2 DEF Cancel, CancelRow, historyVars
  <2> QED
    BY <1>t, <2>1 DEF Counted
<1>3. ASSUME NEW t \in Tasks, FallsDue(t) PROVE Counted(x)'
  BY <1>k, <1>3 DEF FallsDue, historyVars
<1>4. ASSUME NEW t \in Tasks, DeferBusy(t) \/ DeferRace(t) PROVE Counted(x)'
  <2>1. /\ ran' = ran /\ executor[t] \in {"started", "claiming"} /\ executor' = [executor EXCEPT ![t] = "none"]
        /\ NextRun(t, FALSE)
    BY <1>4 DEF DeferBusy, DeferRace, historyVars
  <2>2. runCount'[x] = runCount[x] /\ (x # t => status'[x] = status[x])
        /\ (status'[x] = status[x] \/ status'[x] = "pending")
    BY <1>t, <2>1 DEF NextRun, rowVars
  <2>3. CASE x = t
    <3>1. executor'[x] = "none" /\ status'[x] # "absent" /\ executor[x] \in {"started", "posting", "claiming"}
      BY <1>t, <1>h, <2>1, <2>2, <2>3
    <3> QED
      BY <1>m, <2>1, <2>2, <3>1
  <2>4. CASE x # t
    BY <1>k, <1>t, <2>1, <2>2, <2>4
  <2> QED
    BY <2>3, <2>4
<1>5. ASSUME NEW t \in Tasks, FoundFree(t) \/ PostPrompt(t) PROVE Counted(x)'
  <2>1. /\ UNCHANGED <<status, runCount, ran>> /\ executor[t] \in {"started", "posting"}
        /\ \/ executor' = [executor EXCEPT ![t] = "posting"]
           \/ executor' = [executor EXCEPT ![t] = "claiming"]
    BY <1>5 DEF FoundFree, PostPrompt, rowVars, historyVars
  <2>2. CASE x = t
    <3>1. executor'[x] \in {"posting", "claiming"} /\ status'[x] # "absent"
      BY <1>t, <1>h, <2>1, <2>2
    <3> QED
      BY <1>m, <2>1, <2>2, <3>1
  <2>3. CASE x # t
    BY <1>k, <1>t, <2>1, <2>3
  <2> QED
    BY <2>2, <2>3
<1>6. ASSUME NEW t \in Tasks, BeginRun(t) PROVE Counted(x)'
  <2>1. /\ UNCHANGED <<status, runCount>> /\ executor[t] = "claiming"
        /\ executor' = [executor EXCEPT ![t] = "running"] /\ ran' = [ran EXCEPT ![t] = @ + 1]
    BY <1>6 DEF BeginRun, rowVars
  <2>2. CASE x = t
    <3>1. ran'[x] = ran[x] + 1 /\ executor'[x] = "running" /\ status'[x] # "absent"
      BY <1>t, <1>h, <2>1, <2>2
    <3> QED
      BY <1>t, <2>1, <2>2, <3>1 DEF Counted
  <2>3. CASE x # t
    BY <1>k, <1>t, <2>1, <2>3
  <2> QED
    BY <2>2, <2>3
<1>7. ASSUME NEW t \in Tasks, EndRun(t) \/ ReplyFails(t) \/ StatementFails(t) PROVE Counted(x)'
  <2>1. /\ UNCHANGED <<status, runCount, ran>>
        /\ \/ executor[t] = "running" /\ executor' = [executor EXCEPT ![t] = "settling"]
           \/ executor[t] # "none" /\ executor' = [executor EXCEPT ![t] = "failing"]
           \/ executor[t] # "none" /\ executor' = [executor EXCEPT ![t] = "none"]
    BY <1>7 DEF EndRun, ReplyFails, StatementFails, rowVars, historyVars
  <2>2. CASE x = t
    <3>1. status[x] \in {"running", "cancelled"}
      BY <1>h, <2>1, <2>2
    <3>2. CASE executor[t] = "running" /\ executor' = [executor EXCEPT ![t] = "settling"]
      BY <1>t, <2>1, <2>2, <3>1, <3>2 DEF Counted
    <3>3. CASE executor'[x] \in {"none", "failing"}
      BY <1>l, <2>1, <3>1, <3>3
    <3> QED
      BY <1>t, <2>1, <2>2, <3>2, <3>3
  <2>3. CASE x # t
    BY <1>k, <1>t, <2>1, <2>3
  <2> QED
    BY <2>2, <2>3
<1>8. ASSUME NEW t \in Tasks, Settle(t) PROVE Counted(x)'
  <2>1. ran' = ran /\ executor[t] = "settling" /\ executor' = [executor EXCEPT ![t] = "none"]
    BY <1>8 DEF Settle, historyVars
  <2>2. \/ UNCHANGED <<status, runCount>>
        \/ runCount' = runCount /\ status' = [status EXCEPT ![t] = "completed"]
        \/ /\ status' = [status EXCEPT ![t] = "pending"]
           /\ runCount' = [runCount EXCEPT ![t] = @ + 1]
    BY <1>t, <1>8 DEF Settle, NextRun, Finish, rowVars
  <2>3. CASE x = t
    <3>1. executor'[x] = "none" /\ status[x] \in {"running", "cancelled"} /\ ran[x] = runCount[x] + 1
      BY <1>t, <1>h, <2>1, <2>3 DEF Counted
    <3>2. CASE runCount' = runCount
      <4>1. status'[x] \notin {"pending", "absent"}
        BY <1>t, <2>2, <2>3, <3>1, <3>2
      <4> QED
        BY <1>l, <2>1, <3>1, <3>2, <4>1
    <3>3. CASE status' = [status EXCEPT ![t] = "pending"] /\ runCount' = [runCount EXCEPT ![t] = @ + 1]
      <4>1. runCount'[x] = runCount[x] + 1 /\ status'[x] = "pending"
        BY <1>t, <2>3, <3>3
      <4>2. ran'[x] = runCount'[x] /\ ran'[x] <= runCount'[x] + 1
        BY <1>t, <2>1, <3>1, <4>1
      <4>3. MaxRuns[x] # NoLimit => ran'[x] <= MaxRuns[x]
        BY <2>1 DEF Counted
      <4> QED
        BY <2>1, <3>1, <4>1, <4>2, <4>3 DEF Counted
    <3> QED
      BY <2>2, <3>2, <3>3
  <2>4. CASE x # t
    BY <1>k, <1>t, <2>1, <2>2, <2>4
  <2> QED
    BY <2>3, <2>4
<1>9. ASSUME NEW t \in Tasks, StoreFailure(t) \/ Complete(t) PROVE Counted(x)'
  <2>1. /\ UNCHANGED <<runCount, ran>> /\ executor[t] # "none" /\ executor' = [executor EXCEPT ![t] = "none"]
        /\ \A u \in Tasks : status'[u] \in {status[u], "failed", "completed"}
        /\ \A u \in Tasks : u # t => status'[u] = status[u]
    BY <1>t, <1>9 DEF StoreFailure, Complete, Finish, historyVars
  <2>2. CASE x = t
    <3>1. executor'[x] = "none" /\ status'[x] \notin {"pending", "absent"}
      BY <1>t, <1>h, <2>1, <2>2
    <3> QED
      BY <1>l, <2>1, <3>1
  <2>3. CASE x # t
    BY <1>k, <1>t, <2>1, <2>3
  <2> QED
    BY <2>2, <2>3
<1>10. ASSUME NEW t \in Tasks, Claim(t) PROVE Counted(x)'
  <2>1. UNCHANGED <<runCount, ran>>
    BY <1>10 DEF Claim, ClaimRow, historyVars
  <2>2. CASE status[t] # "pending" \/ x # t
    <3>1. status'[x] = status[x] /\ executor'[x] = executor[x]
      BY <1>t, <1>10, <2>2 DEF Claim, ClaimRow
    <3> QED
      BY <1>k, <2>1, <3>1
  <2>3. CASE status[t] = "pending" /\ x = t
    <3>1. executor[x] = "none" /\ ran[x] = runCount[x]
      BY <1>h, <2>3 DEF Counted
    <3>2. /\ status'[x] = "running"
          /\ \/ executor'[x] = "used up"
             \/ executor'[x] = "started" /\ (MaxRuns[x] # NoLimit => ~(runCount[x] >= MaxRuns[x]))
      BY <1>t, <1>10, <2>3 DEF Claim, ClaimRow
    <3>3. ran'[x] = ran[x] /\ runCount'[x] = runCount[x]
      BY <2>1
    <3>5. ran'[x] = runCount'[x] /\ ran'[x] <= runCount'[x] + 1
      BY <1>t, <3>1, <3>3
    <3>6. ASSUME executor'[x] = "started", MaxRuns[x] # NoLimit PROVE ran'[x] < MaxRuns[x]
      <4>1. MaxRuns[x] \in Nat /\ ~(runCount[x] >= MaxRuns[x])
        BY <1>t, <3>2, <3>6
      <4> QED
        BY <1>t, <3>1, <3>3, <4>1
    <3>4. MaxRuns[x] # NoLimit => ran'[x] <= MaxRuns[x]
      BY <2>1 DEF Counted
    <3> QED
      BY <3>2, <3>4, <3>5, <3>6 DEF Counted
  <2> QED
    BY <2>2, <2>3
<1>11. CASE List \/ EndList \/ OtherReleases \/ \E w \in {"turn", "background"} : OtherClaims(w)
  BY <1>k, <1>11 DEF List, EndList, OtherReleases, OtherClaims, rowVars, historyVars
<1>12. CASE TickFails \/ Crash
  <2>1. UNCHANGED <<status, runCount, ran>> /\ (executor'[x] = executor[x] \/ executor'[x] = "none")
    BY <1>t, <1>12 DEF TickFails, Crash, rowVars, historyVars
  <2>2. CASE executor'[x] = executor[x]
    BY <1>k, <2>1, <2>2
  <2>3. CASE executor[x] # "none" /\ executor'[x] = "none"
    BY <1>h, <1>l, <2>1, <2>3
  <2> QED
    BY <2>1, <2>2, <2>3
<1>13. CASE Restart
  <2>1. /\ UNCHANGED <<runCount, ran, executor>>
        /\ status'[x] = status[x] \/ status'[x] = "failed"
    BY <1>t, <1>13 DEF Restart, InterruptRows, historyVars
  <2> QED
    BY <1>t, <2>1 DEF Counted
<1>14. CASE UNCHANGED vars
  BY <1>k, <1>14 DEF vars, rowVars, historyVars
<1> QED
  BY <1>1, <1>2, <1>3, <1>4, <1>5, <1>6, <1>7, <1>8, <1>9, <1>10, <1>11, <1>12, <1>13, <1>14
     DEF Next, Loop, Execute

-------------------------------------------------------------------------------
(* The theorems *)

LEMMA Inductive == Spec => []IInv
<1>1. Init => IInv
  <2> SUFFICES ASSUME Init PROVE IInv
    OBVIOUS
  <2>1. Shapes
    BY DEF Init, Shapes, Statuses, Stages
  <2>2. Numbers
    BY ScheduleAssumption DEF Init, Numbers
  <2>3. Hands
    BY DEF Init, Hands, RunningHasExecutor, LoopHolds
  <2>4. ASSUME NEW x \in Tasks PROVE Counted(x)
    <3>1. ran[x] = 0 /\ runCount[x] = 0 /\ executor[x] = "none" /\ (MaxRuns[x] # NoLimit => MaxRuns[x] \in Nat)
      BY ScheduleAssumption DEF Init
    <3> QED
      BY <3>1 DEF Counted
  <2> QED
    BY <2>1, <2>2, <2>3, <2>4, Typing, CountedAll DEF IInv
<1>2. IInv /\ [Next]_vars => IInv'
  <2> SUFFICES ASSUME IInv, [Next]_vars PROVE IInv'
    OBVIOUS
  <2>1. Shapes' /\ Numbers'
    BY Typing, ShapeStep, NumberStep DEF IInv
  <2>2. TypeOK'
    BY <2>1 DEF TypeOK, Shapes, Numbers, Statuses, Stages
  <2> QED
    BY <2>2, HandsStep, CountsStep DEF IInv
<1> QED
  BY <1>1, <1>2, PTL DEF Spec

\* Every reachable state of the schedule is well typed.
THEOREM TypeCorrect == Spec => []TypeOK
<1>1. IInv => TypeOK
  BY DEF IInv
<1> QED
  BY <1>1, Inductive, PTL

\* A task runs once per occurrence and never more often than it was asked to,
\* and a running row is in somebody's hands (src/event_loop/scheduler.rs 13-204).
THEOREM ScheduleIsKept == Spec => []ScheduleKept
<1>1. IInv => ScheduleKept
  BY DEF IInv, Hands, Counts, ScheduleKept
<1> QED
  BY <1>1, Inductive, PTL

\* What is cancelled, failed or completed stays so, whatever the executor that is still at
\* work writes: each of its statements asks for 'running' (repositories/scheduler.rs 103-197).
THEOREM SettledStays == Spec => ScheduleSettles
<1> DEFINE A == \A t \in Tasks : status[t] \in Settled =>
                  /\ status'[t] = status[t]
                  /\ executor[t] = "none" => executor'[t] = "none"
<1>1. IInv /\ Next => A
  <2> SUFFICES ASSUME Shapes, Hands, Next, NEW x \in Tasks, status[x] \in Settled
               PROVE  status'[x] = status[x] /\ (executor[x] = "none" => executor'[x] = "none")
    BY Typing DEF IInv
  <2> USE DEF Shapes, Statuses, Stages, Settled, rowVars, historyVars, Executor
  <2>1. ASSUME NEW t \in Tasks, Schedule(t) \/ Cancel(t) \/ FallsDue(t)
        PROVE  status'[x] = status[x] /\ executor' = executor
    BY <2>1 DEF Schedule, Cancel, FallsDue, CreateRow, CancelRow, Active
  <2>2. ASSUME NEW t \in Tasks, Execute(t) PROVE executor[x] = "none" => executor'[x] = "none"
    BY <2>2 DEF Execute, DeferBusy, FoundFree, PostPrompt, BeginRun, DeferRace, EndRun, ReplyFails, Settle,
                StoreFailure, StatementFails
  <2>3. ASSUME NEW t \in Tasks, Execute(t) PROVE status'[x] = status[x]
    BY <2>3 DEF Execute, DeferBusy, FoundFree, PostPrompt, BeginRun, DeferRace, EndRun, ReplyFails, Settle,
                StoreFailure, StatementFails, NextRun, Finish
  <2>4. CASE List \/ EndList \/ TickFails
    BY <2>4 DEF List, EndList, TickFails
  <2>5. ASSUME NEW t \in Tasks, Claim(t) \/ Complete(t)
        PROVE  status'[x] = status[x] /\ (executor[x] = "none" => executor'[x] = "none")
    BY <2>5 DEF Claim, Complete, ClaimRow, Finish
  <2>6. CASE OtherReleases \/ Crash \/ Restart \/ \E w \in {"turn", "background"} : OtherClaims(w)
    BY <2>6 DEF OtherReleases, Crash, Restart, InterruptRows, OtherClaims
  <2> QED
    BY <2>1, <2>2, <2>3, <2>4, <2>5, <2>6 DEF Next, Loop
<1>2. IInv /\ [Next]_vars => [A]_vars
  BY <1>1
<1> QED
  BY <1>2, Inductive, PTL DEF Spec, ScheduleSettles

-------------------------------------------------------------------------------
(* Uploaded files *)

WorkerSteps == {"none", "spawned", "reading", "checking", "analysing", "saving", "completing", "failing", "failed"}
\* A task that is at work and has not written its result yet.
Busy == {"reading", "checking", "analysing", "saving", "failing"}

FileShape ==
  /\ Uploads!TypeOK
  /\ DOMAIN request = Requests /\ DOMAIN worker = Workers
  /\ \A w \in Workers : worker[w].at \in WorkerSteps /\ DOMAIN worker[w] = {"at", "file", "todo", "saved"}
  /\ faults \in Nat /\ crashes \in Nat

\* The requests, field by field.
RequestShape ==
  \A r \in Requests :
    /\ DOMAIN request[r] = {"at", "of", "files", "todo", "staged", "deleted"}
    /\ request[r].files \subseteq Files /\ request[r].todo \subseteq Files
    /\ request[r].at = "none" => request[r].staged = {}

\* What a request has in its hands is what it moved aside, and only a crash or a failure leaves
\* data in the trash that no request will put back.
Aside ==
  /\ \A f \in Files, r \in Requests : f \in request[r].staged <=> place[f] = r
  /\ \A f \in Files : place[f] = "trash" => (crashes > 0 \/ faults > 0)

\* A record that was deleted does not come back: its file was uploaded already.
NoReturn ==
  /\ \A f \in Files : place[f] \in {"absent", "gone"} => f \notin record
  /\ \A f \in Files, r \in Requests :
       f \in request[r].deleted => f \notin record /\ place[f] # "absent"

\* What is used has its record; a task works on an import that has its row.
UseKept ==
  /\ \A f \in Files : attached[f] # {} \/ import[f] # "absent" => f \in record
  /\ \A w \in Workers : worker[w].at # "none" => Uploads!File(w) \in Files /\ import[Uploads!File(w)] # "absent"

\* One task at a time has the claim of an import, and while it works the row says so.
OneTask ==
  /\ \A v, w \in Workers : worker[v].at \in Busy /\ worker[w].at \in Busy
       /\ Uploads!File(v) = Uploads!File(w) => v = w
  /\ \A w \in Workers : worker[w].at \in Busy => import[Uploads!File(w)] = "processing"

FInv == FileShape /\ RequestShape /\ Aside /\ NoReturn /\ UseKept

-------------------------------------------------------------------------------
\* In the beginning nothing is uploaded.
LEMMA FilesInit == ASSUME Uploads!FileAssumption, Uploads!Init PROVE FInv /\ OneTask
BY DEF Uploads!FileAssumption, Uploads!Init, FInv, FileShape, RequestShape, Aside, NoReturn, UseKept, OneTask,
       Uploads!TypeOK,
       Uploads!NoRequest, Uploads!NoWorker, WorkerSteps, Busy, Uploads!File

\* Whatever the chunks and their order, the analysis ends in one of two steps.
LEMMA AnalysisStep ==
  ASSUME NEW w \in Workers, FileShape, Uploads!Analyse(w)
  PROVE  \E step \in {"failing", "saving"} : \E todo :
           worker' = [worker EXCEPT ![w].at = step, ![w].todo = todo]
<1> USE DEF FileShape
<1>1. CASE worker' = [worker EXCEPT ![w].at = "failing"]
  <2>1. worker' = [worker EXCEPT ![w].at = "failing", ![w].todo = worker[w].todo]
    BY <1>1
  <2> QED
    BY <2>1
<1>2. CASE \E done \in SUBSET Chunks \ {{}} : \E order \in SetToSeqs(done) :
            worker' = [worker EXCEPT ![w].at = IF stopAsked[Uploads!File(w)] THEN "failing" ELSE "saving",
                                     ![w].todo = IF stopAsked[Uploads!File(w)] THEN <<>> ELSE Uploads!ToSave(order)]
  <2>1. PICK todo : worker' = [worker EXCEPT ![w].at = IF stopAsked[Uploads!File(w)] THEN "failing" ELSE "saving",
                                                 ![w].todo = todo]
    BY <1>2, Zenon
  <2> QED
    BY <2>1
<1> QED
  BY <1>1, <1>2, Zenon DEF Uploads!Analyse

\* What the steps of an import task do to the rows, in one place.
LEMMA ImportStep ==
  ASSUME FileShape, UseKept, NEW w \in Workers, Uploads!Import(w)
  PROVE  /\ UNCHANGED <<Uploads!fileVars, Uploads!conversationVars, request, up, crashes>>
         /\ faults' \in Nat /\ faults' >= faults
         /\ Uploads!TypeOK'
         /\ DOMAIN worker' = Workers
         /\ \A v \in Workers : worker'[v].at \in WorkerSteps
              /\ DOMAIN worker'[v] = {"at", "file", "todo", "saved"}
         /\ \A v \in Workers \ {w} : worker'[v] = worker[v]
         /\ worker'[w].at # "none" => worker[w].at # "none" /\ worker'[w].file = worker[w].file
         /\ \A f \in Files : import'[f] = "absent" <=> import[f] = "absent"
<1> USE DEF FileShape, Uploads!TypeOK, UseKept, WorkerSteps, Uploads!File, Uploads!Go, Uploads!NoFault,
            Uploads!Fault, Uploads!NoWorker
<1>1. CASE Uploads!ClaimImport(w)
  BY <1>1 DEF Uploads!ClaimImport, Uploads!fileVars, Uploads!conversationVars
<1>2. CASE Uploads!NotClaimed(w)
  BY <1>2 DEF Uploads!NotClaimed, Uploads!fileVars, Uploads!conversationVars
<1>3. CASE Uploads!ReadExport(w) \/ Uploads!StartAnalysis(w)
  BY <1>3 DEF Uploads!ReadExport, Uploads!StartAnalysis, Uploads!fileVars, Uploads!conversationVars
<1>4. CASE Uploads!Analyse(w)
  <2>1. \E step \in {"failing", "saving"} : \E todo :
          worker' = [worker EXCEPT ![w].at = step, ![w].todo = todo]
    BY <1>4, AnalysisStep
  <2>2. worker[w].at = "analysing" /\ Uploads!NoFault
        /\ UNCHANGED <<Uploads!fileVars, Uploads!conversationVars, request, import, stopAsked, importRun, memories, attempts>>
    BY <1>4, Zenon DEF Uploads!Analyse
  <2> QED
    BY <2>1, <2>2 DEF Uploads!fileVars, Uploads!conversationVars
<1>5. CASE Uploads!SaveMemory(w)
  BY <1>5 DEF Uploads!SaveMemory, Uploads!fileVars, Uploads!conversationVars
<1>6. CASE Uploads!CompleteImport(w) \/ Uploads!FailImport(w)
  BY <1>6 DEF Uploads!CompleteImport, Uploads!FailImport, Uploads!fileVars, Uploads!conversationVars
<1>7. CASE Uploads!CloseImportRun(w)
  BY <1>7 DEF Uploads!CloseImportRun, Uploads!fileVars, Uploads!conversationVars
<1>8. CASE Uploads!ImportStatementFails(w)
  BY <1>8 DEF Uploads!ImportStatementFails, Uploads!Working, Uploads!fileVars, Uploads!conversationVars
<1> QED
  BY <1>1, <1>2, <1>3, <1>4, <1>5, <1>6, <1>7, <1>8 DEF Uploads!Import

\* The steps of import tasks keep the invariant of the files.
LEMMA ImportKeeps == ASSUME FInv, NEW w \in Workers, Uploads!Import(w) PROVE FInv'
<1>1. FileShape'
  BY ImportStep DEF FInv, FileShape
<1>2. RequestShape' /\ Aside' /\ NoReturn'
  <2>1. UNCHANGED <<record, place, request, crashes>> /\ faults' \in Nat /\ faults' >= faults
    BY ImportStep DEF FInv, Uploads!fileVars
  <2> QED
    BY <2>1 DEF FInv, FileShape, RequestShape, Aside, NoReturn
<1>3. UseKept'
  <2>1. \A f \in Files : import'[f] = "absent" <=> import[f] = "absent"
    BY ImportStep DEF FInv
  <2>2. \A v \in Workers : worker'[v].at # "none" => worker[v].at # "none" /\ worker'[v].file = worker[v].file
    BY ImportStep DEF FInv
  <2>3. UNCHANGED <<record, attached>>
    BY ImportStep DEF FInv, Uploads!fileVars
  <2> QED
    BY <2>1, <2>2, <2>3 DEF FInv, UseKept, Uploads!File
<1> QED
  BY <1>1, <1>2, <1>3 DEF FInv

\* What may be deleted is used by nobody any more once the records are gone.
LEMMA GoneUnused ==
  ASSUME FInv, NEW r \in Requests, Uploads!DeleteRecords(r), NEW f \in Uploads!Gone(r)
  PROVE  f \in record /\ import[f] = "absent" /\ attached'[f] = {}
BY DEF FInv, FileShape, Uploads!TypeOK, RequestShape, Uploads!Gone, Uploads!DeleteRecords, Uploads!Unused,
       Uploads!Deletable, Uploads!fileVars

\* The steps of a deletion.
LEMMA DeletionKeeps == ASSUME Uploads!FileAssumption, FInv, NEW r \in Requests, Uploads!Delete(r) PROVE FInv'
<1> USE DEF FInv, FileShape, RequestShape
<1>1. ASSUME NEW f \in Files, Uploads!Stage(r, f) PROVE FInv'
  <2>1. FileShape' /\ RequestShape'
    BY <1>1 DEF Uploads!Stage, Uploads!TypeOK, Uploads!conversationVars, Uploads!importVars, Uploads!NoFault
  <2>2. Aside'
    BY <1>1 DEF Uploads!Stage, Uploads!TypeOK, Aside, Uploads!NoFault, Uploads!FileAssumption
  <2>3. NoReturn'
    BY <1>1 DEF Uploads!Stage, Uploads!TypeOK, NoReturn, Uploads!FileAssumption
  <2>4. UseKept'
    BY <1>1 DEF Uploads!Stage, UseKept, Uploads!importVars, Uploads!File
  <2> QED
    BY <2>1, <2>2, <2>3, <2>4
<1>2. ASSUME NEW f \in Files, Uploads!Settle(r, f) PROVE FInv'
  <2>1. FileShape' /\ RequestShape'
    BY <1>2 DEF Uploads!Settle, Uploads!TypeOK, Uploads!conversationVars, Uploads!importVars, Uploads!NoFault
  <2>2. Aside'
    BY <1>2 DEF Uploads!Settle, Uploads!TypeOK, Aside, Uploads!NoFault, Uploads!FileAssumption
  <2>3. NoReturn'
    BY <1>2 DEF Uploads!Settle, Uploads!TypeOK, NoReturn, Uploads!FileAssumption
  <2>4. UseKept'
    BY <1>2 DEF Uploads!Settle, UseKept, Uploads!importVars, Uploads!File
  <2> QED
    BY <2>1, <2>2, <2>3, <2>4
<1>3. CASE Uploads!DeleteRecords(r)
  <2>1. FileShape' /\ RequestShape'
    BY <1>3 DEF Uploads!DeleteRecords, Uploads!TypeOK, Uploads!importVars, Uploads!NoFault
  <2>2. Aside'
    BY <1>3 DEF Uploads!DeleteRecords, Aside, Uploads!NoFault
  <2>3. NoReturn'
    BY <1>3, GoneUnused DEF Uploads!DeleteRecords, NoReturn
  <2>4. UseKept'
    <3>1. \A f \in Files : attached'[f] \subseteq attached[f]
      BY <1>3 DEF Uploads!DeleteRecords, Uploads!TypeOK, Uploads!Deletable
    <3>2. record' = record \ Uploads!Gone(r) /\ UNCHANGED <<import, worker>>
      BY <1>3 DEF Uploads!DeleteRecords, Uploads!importVars
    <3> QED
      BY <1>3, <3>1, <3>2, GoneUnused DEF UseKept, Uploads!File
  <2> QED
    BY <2>1, <2>2, <2>3, <2>4
<1>4. CASE Uploads!DeletionFails(r)
  BY <1>4 DEF Uploads!DeletionFails, Uploads!TypeOK, Aside, NoReturn, UseKept, Uploads!File, Uploads!fileVars,
              Uploads!conversationVars, Uploads!importVars, Uploads!Fault
<1>5. CASE Uploads!EndRequest(r)
  BY <1>5 DEF Uploads!EndRequest, Uploads!TypeOK, Aside, NoReturn, UseKept, Uploads!File, Uploads!fileVars,
              Uploads!conversationVars, Uploads!importVars, Uploads!NoFault, Uploads!NoRequest
<1>6. ASSUME NEW f \in Files, Uploads!SettleFails(r, f) PROVE FInv'
  <2>1. FileShape' /\ RequestShape'
    BY <1>6 DEF Uploads!SettleFails, Uploads!TypeOK, Uploads!conversationVars, Uploads!importVars, Uploads!Fault
  <2>2. Aside'
    BY <1>6 DEF Uploads!SettleFails, Uploads!TypeOK, Aside, Uploads!Fault, Uploads!FileAssumption
  <2>3. NoReturn'
    BY <1>6 DEF Uploads!SettleFails, Uploads!TypeOK, NoReturn, Uploads!FileAssumption
  <2>4. UseKept'
    BY <1>6 DEF Uploads!SettleFails, UseKept, Uploads!importVars, Uploads!File
  <2> QED
    BY <2>1, <2>2, <2>3, <2>4
<1>7. CASE Uploads!CutShort(r)
  <2>1. FileShape' /\ RequestShape'
    BY <1>7 DEF Uploads!CutShort, Uploads!LeftBy, Uploads!TypeOK, Uploads!conversationVars, Uploads!importVars,
                Uploads!Fault, Uploads!NoRequest
  <2>2. Aside'
    BY <1>7 DEF Uploads!CutShort, Uploads!LeftBy, Uploads!TypeOK, Aside, Uploads!Fault, Uploads!FileAssumption,
                Uploads!NoRequest
  <2>3. NoReturn'
    BY <1>7 DEF Uploads!CutShort, Uploads!LeftBy, NoReturn, Uploads!FileAssumption, Uploads!NoRequest
  <2>4. UseKept'
    BY <1>7 DEF Uploads!CutShort, UseKept, Uploads!importVars, Uploads!File
  <2> QED
    BY <2>1, <2>2, <2>3, <2>4
<1> QED
  BY <1>1, <1>2, <1>3, <1>4, <1>5, <1>6, <1>7 DEF Uploads!Delete

\* A deletion begins with nothing moved aside.
LEMMA BeginKeeps ==
  ASSUME Uploads!FileAssumption, FInv, NEW r \in Requests, NEW of \in Conversations \union {"draft"},
         NEW files \in SUBSET Files, Uploads!Begin(r, of, files)
  PROVE  FInv'
BY DEF Uploads!Begin, FInv, FileShape, RequestShape, Uploads!TypeOK, Aside, NoReturn, UseKept, Uploads!File,
       Uploads!fileVars, Uploads!conversationVars, Uploads!importVars, Uploads!NoFault, Uploads!NoRequest

\* An upload gives a new file its data, and its record unless the statement fails.
LEMMA UploadKeeps == ASSUME Uploads!FileAssumption, FInv, NEW f \in Files, Uploads!Upload(f) PROVE FInv'
<1> USE DEF FInv
<1>1. /\ place[f] = "absent" /\ place' = [place EXCEPT ![f] = "uploads"]
      /\ record \subseteq record' /\ record' \subseteq record \union {f}
      /\ UNCHANGED <<attached, conversation, depends, request, import, stopAsked, importRun, worker,
                     memories, attempts, up, crashes>>
      /\ faults' \in Nat /\ faults' >= faults /\ crashes \in Nat
  <2>1. /\ place[f] = "absent" /\ place' = [place EXCEPT ![f] = "uploads"]
        /\ UNCHANGED <<attached, conversation, depends, request, import, stopAsked, importRun, worker,
                       memories, attempts>>
    BY DEF Uploads!Upload, Uploads!conversationVars, Uploads!importVars
  <2>2. /\ record' = record \union {f} \/ record' = record
        /\ UNCHANGED <<up, crashes>> /\ (faults' = faults \/ faults' = faults + 1)
    BY Zenon DEF Uploads!Upload, Uploads!NoFault, Uploads!Fault
  <2>3. faults' \in Nat /\ faults' >= faults /\ crashes \in Nat
    BY <2>2 DEF FileShape
  <2> QED
    BY <2>1, <2>2, <2>3
<1>2. \A g \in Files : place'[g] = IF g = f THEN "uploads" ELSE place[g]
  BY <1>1 DEF FileShape, Uploads!TypeOK
<1>3. FileShape'
  <2>1. Uploads!TypeOK'
    <3>1. record' \subseteq Files /\ place' \in [Files -> Requests \union {"absent", "uploads", "trash", "gone"}]
      BY <1>1 DEF FileShape, Uploads!TypeOK
    <3>2. savedFor' \in [Files -> Conversations \union {"none"}]
      <4>1. savedFor' = savedFor \/ \E c \in Conversations \union {"none"} : savedFor' = [savedFor EXCEPT ![f] = c]
        BY Zenon DEF Uploads!Upload
      <4> QED
        BY <4>1 DEF FileShape, Uploads!TypeOK
    <3> QED
      BY <1>1, <3>1, <3>2 DEF FileShape, Uploads!TypeOK
  <2> QED
    BY <1>1, <2>1 DEF FileShape
<1>4. RequestShape'
  BY <1>1 DEF RequestShape
<1>5. UseKept'
  BY <1>1 DEF UseKept, Uploads!File
<1>6. Aside'
  <2>1. \A g \in Files, r \in Requests : g \in request'[r].staged <=> place'[g] = r
    BY <1>1, <1>2 DEF Aside, Uploads!FileAssumption
  <2>2. faults \in Nat /\ ((crashes > 0 \/ faults > 0) => (crashes' > 0 \/ faults' > 0))
    BY <1>1 DEF FileShape
  <2>3. \A g \in Files : place'[g] = "trash" => place[g] = "trash"
    BY <1>2
  <2> QED
    BY <2>1, <2>2, <2>3 DEF Aside
<1>7. NoReturn'
  BY <1>1, <1>2 DEF NoReturn
<1> QED
  BY <1>3, <1>4, <1>5, <1>6, <1>7

\* A stop that is asked for concerns no file.
LEMMA StopKeeps == ASSUME FInv, NEW f \in Files, Uploads!StopImport(f) PROVE FInv'
BY DEF Uploads!StopImport, FInv, FileShape, Uploads!TypeOK, RequestShape, Aside, NoReturn, UseKept,
       Uploads!File, Uploads!NoFault,
       Uploads!fileVars, Uploads!conversationVars

\* A message can only use a file that has its record.
LEMMA AttachKeeps == ASSUME FInv, NEW f \in Files, NEW c \in Conversations, Uploads!Attach(f, c) PROVE FInv'
BY DEF Uploads!Attach, FInv, FileShape, Uploads!TypeOK, RequestShape, Aside, NoReturn, UseKept, Uploads!File,
       Uploads!NoFault, Uploads!importVars

\* Archiving a conversation moves no file.
LEMMA ConversationKeeps ==
  ASSUME FInv, NEW c \in Conversations, Uploads!Archive(c) \/ Uploads!Depend(c) PROVE FInv'
<1> USE DEF FInv, FileShape, Uploads!TypeOK, RequestShape, Aside, NoReturn, UseKept, Uploads!File,
            Uploads!NoFault, Uploads!fileVars, Uploads!importVars
<1>1. CASE Uploads!Archive(c)
  BY <1>1 DEF Uploads!Archive
<1>2. CASE Uploads!Depend(c)
  <2>1. depends' \in [Conversations -> BOOLEAN]
    <3>1. depends' = [depends EXCEPT ![c] = ~depends[c]] /\ depends \in [Conversations -> BOOLEAN]
      BY <1>2 DEF Uploads!Depend
    <3> QED
      BY ONLY <3>1, Zenon
  <2> QED
    BY <1>2, <2>1 DEF Uploads!Depend
<1> QED
  BY <1>1, <1>2

\* An import that is asked for, with or without a task for it.
LEMMA EnqueueStep ==
  ASSUME FInv, NEW w \in Workers, NEW f \in Files, Uploads!Enqueue(w, f)
  PROVE  /\ f \in record
         /\ UNCHANGED <<Uploads!fileVars, Uploads!conversationVars, request, stopAsked, importRun, memories, attempts, up,
                        faults, crashes>>
         /\ import' \in [Files -> {"absent", "queued", "processing", "failed", "completed"}]
         /\ \A g \in Files : import'[g] = IF g = f /\ import[g] = "absent" THEN "queued" ELSE import[g]
         /\ DOMAIN worker' = Workers
         /\ \A v \in Workers : \/ worker'[v] = worker[v]
                              \/ worker'[v] = [at |-> "spawned", file |-> f, todo |-> <<>>, saved |-> 0]
<1>1. /\ f \in record
      /\ UNCHANGED <<Uploads!fileVars, Uploads!conversationVars, request, stopAsked, importRun, memories, attempts, up,
                     faults, crashes>>
  BY DEF Uploads!Enqueue, Uploads!NoFault
<1>2. import' \in [Files -> {"absent", "queued", "processing", "failed", "completed"}]
      /\ \A g \in Files : import'[g] = IF g = f /\ import[g] = "absent" THEN "queued" ELSE import[g]
  BY DEF Uploads!Enqueue, FInv, FileShape, Uploads!TypeOK
<1>3. /\ DOMAIN worker' = Workers
      /\ \A v \in Workers : \/ worker'[v] = worker[v]
                           \/ worker'[v] = [at |-> "spawned", file |-> f, todo |-> <<>>, saved |-> 0]
  BY DEF Uploads!Enqueue, Uploads!Spawn, Uploads!NoWorker, FInv, FileShape
<1> QED
  BY <1>1, <1>2, <1>3

\* Only a file with its record is imported.
LEMMA EnqueueKeeps ==
  ASSUME FInv, NEW w \in Workers, NEW f \in Files, Uploads!Enqueue(w, f) PROVE FInv'
<1>1. f \in record /\ UNCHANGED <<Uploads!fileVars, Uploads!conversationVars, request, stopAsked, importRun, memories, attempts,
                                up, faults, crashes>>
  BY EnqueueStep
<1>2. import' \in [Files -> {"absent", "queued", "processing", "failed", "completed"}]
      /\ \A g \in Files : import'[g] = IF g = f /\ import[g] = "absent" THEN "queued" ELSE import[g]
  BY EnqueueStep
<1>3. /\ DOMAIN worker' = Workers
      /\ \A v \in Workers : \/ worker'[v] = worker[v]
                           \/ worker'[v] = [at |-> "spawned", file |-> f, todo |-> <<>>, saved |-> 0]
  BY EnqueueStep
<1>4. import'[f] # "absent"
  BY <1>2
<1>5. FileShape'
  <2>1. Uploads!TypeOK'
    BY <1>1, <1>2 DEF FInv, FileShape, Uploads!TypeOK, Uploads!fileVars, Uploads!conversationVars
  <2> QED
    BY <1>1, <1>3, <2>1 DEF FInv, FileShape, WorkerSteps
<1>6. RequestShape' /\ Aside' /\ NoReturn'
  BY <1>1 DEF FInv, RequestShape, Aside, NoReturn, Uploads!fileVars
<1>7. UseKept'
  BY <1>1, <1>2, <1>3, <1>4 DEF FInv, UseKept, Uploads!File, Uploads!fileVars
<1> QED
  BY <1>5, <1>6, <1>7 DEF FInv

\* A crash ends all requests and tasks; what they moved to the trash stays there.
LEMMA CrashKeeps == ASSUME Uploads!FileAssumption, FInv, Uploads!Crash PROVE FInv'
<1> USE DEF FInv
<1>1. /\ UNCHANGED <<record, savedFor, attached, conversation, depends, import, stopAsked, importRun, memories,
                     attempts, faults>>
      /\ crashes' \in Nat /\ crashes' > 0 /\ up' = FALSE /\ faults \in Nat
      /\ place' = [f \in Files |-> IF place[f] \in Requests THEN "trash" ELSE place[f]]
  BY DEF Uploads!Crash, Uploads!LeftBy, FileShape, Uploads!conversationVars
<1>2. /\ request' = [r \in Requests |-> Uploads!NoRequest]
      /\ worker' = [w \in Workers |-> Uploads!NoWorker]
  BY DEF Uploads!Crash
<1>3. FileShape'
  BY <1>1, <1>2 DEF FileShape, Uploads!TypeOK, Uploads!NoRequest, Uploads!NoWorker, WorkerSteps
<1>4. RequestShape' /\ Aside' /\ NoReturn'
  <2>1. RequestShape' /\ NoReturn'
    BY <1>1, <1>2 DEF RequestShape, NoReturn, Uploads!NoRequest
  <2>2. (crashes' > 0 \/ faults' > 0)
    BY <1>1
  <2>3. \A f \in Files, r \in Requests : f \notin request'[r].staged /\ place'[f] # r
    BY <1>1, <1>2 DEF Uploads!NoRequest, Uploads!FileAssumption
  <2> QED
    BY <2>1, <2>2, <2>3 DEF Aside
<1>5. UseKept'
  BY <1>1, <1>2 DEF UseKept, Uploads!NoWorker, Uploads!File
<1> QED
  BY <1>3, <1>4, <1>5

\* After a restart every queued import has a task of its own.
LEMMA Resumed ==
  ASSUME FInv, Uploads!Restart
  PROVE  /\ DOMAIN worker' = Workers
         /\ \A w \in Workers :
              \/ worker'[w] = Uploads!NoWorker
              \/ /\ worker'[w].file \in Files /\ import'[worker'[w].file] = "queued"
                 /\ worker'[w] = [at |-> "spawned", file |-> worker'[w].file, todo |-> <<>>, saved |-> 0]
<1>1. PICK assign \in [Workers -> Files \union {"none"}] :
        /\ \A f \in Files : import'[f] = "queued" <=> \E w \in Workers : assign[w] = f
        /\ worker' = [w \in Workers |-> IF assign[w] = "none" THEN Uploads!NoWorker
                                        ELSE [Uploads!NoWorker EXCEPT !.at = "spawned", !.file = assign[w]]]
  BY Zenon DEF Uploads!Restart
<1> QED
  BY <1>1 DEF Uploads!NoWorker

\* What is resumed has its row.
LEMMA RestartKeeps == ASSUME FInv, Uploads!Restart PROVE FInv'
<1>1. UNCHANGED <<record, place, savedFor, attached, conversation, depends, request, stopAsked, memories, attempts,
                  faults, crashes>>
      /\ up' = TRUE
  BY DEF Uploads!Restart, Uploads!fileVars, Uploads!conversationVars
<1>2. /\ import' = [f \in Files |-> IF import[f] = "processing" THEN "queued" ELSE import[f]]
      /\ importRun' = [f \in Files |-> IF importRun[f] = "running" THEN "interrupted" ELSE importRun[f]]
  BY DEF Uploads!Restart
<1>3. FileShape'
  <2>1. import' \in [Files -> {"absent", "queued", "processing", "failed", "completed"}]
        /\ importRun' \in [Files -> {"none", "running", "completed", "failed", "cancelled", "interrupted"}]
    BY <1>2 DEF FInv, FileShape, Uploads!TypeOK
  <2>2. Uploads!TypeOK'
    BY <1>1, <2>1 DEF FInv, FileShape, Uploads!TypeOK
  <2>3. DOMAIN worker' = Workers
        /\ \A w \in Workers : worker'[w].at \in WorkerSteps /\ DOMAIN worker'[w] = {"at", "file", "todo", "saved"}
    BY Resumed DEF Uploads!NoWorker, WorkerSteps
  <2> QED
    BY <1>1, <2>2, <2>3 DEF FInv, FileShape
<1>4. RequestShape' /\ Aside' /\ NoReturn'
  BY <1>1 DEF FInv, RequestShape, Aside, NoReturn
<1>5. UseKept'
  <2>1. \A f \in Files : import'[f] = "absent" <=> import[f] = "absent"
    BY <1>2
  <2>2. \A w \in Workers : worker'[w].at # "none" => worker'[w].file \in Files
          /\ import'[worker'[w].file] # "absent"
    BY Resumed DEF Uploads!NoWorker
  <2> QED
    BY <1>1, <2>1, <2>2 DEF FInv, UseKept, Uploads!File
<1> QED
  BY <1>3, <1>4, <1>5 DEF FInv

\* Every step keeps the invariant of the files.
LEMMA FilesStep == ASSUME Uploads!FileAssumption, FInv, [Uploads!Next]_(Uploads!vars) PROVE FInv'
<1>1. ASSUME NEW f \in Files, Uploads!Upload(f) \/ Uploads!StopImport(f) PROVE FInv'
  <2>1. CASE Uploads!Upload(f)
    BY <2>1, UploadKeeps
  <2>2. CASE Uploads!StopImport(f)
    BY <2>2, StopKeeps
  <2> QED
    BY <1>1, <2>1, <2>2
<1>2. ASSUME NEW f \in Files, NEW c \in Conversations, Uploads!Attach(f, c) PROVE FInv'
  BY <1>2, AttachKeeps
<1>3. ASSUME NEW c \in Conversations, Uploads!Archive(c) \/ Uploads!Depend(c) PROVE FInv'
  BY <1>3, ConversationKeeps
<1>4. ASSUME NEW r \in Requests, NEW f \in Files, Uploads!DeleteDraft(r, f) PROVE FInv'
  BY <1>4, BeginKeeps DEF Uploads!DeleteDraft
<1>5. ASSUME NEW r \in Requests, NEW c \in Conversations, Uploads!DeleteConversation(r, c) PROVE FInv'
  <2>1. {f \in record : Uploads!OnlyIn(c, f)} \in SUBSET Files
    BY DEF FInv, FileShape, Uploads!TypeOK
  <2>2. Uploads!Begin(r, c, {f \in record : Uploads!OnlyIn(c, f)})
    BY <1>5 DEF Uploads!DeleteConversation
  <2> QED
    BY <2>1, <2>2, BeginKeeps
<1>6. ASSUME NEW r \in Requests, Uploads!Delete(r) PROVE FInv'
  BY <1>6, DeletionKeeps
<1>7. ASSUME NEW w \in Workers, NEW f \in Files, Uploads!Enqueue(w, f) PROVE FInv'
  BY <1>7, EnqueueKeeps
<1>8. ASSUME NEW w \in Workers, Uploads!Import(w) PROVE FInv'
  BY <1>8, ImportKeeps
<1>9. CASE Uploads!Crash \/ Uploads!Restart
  BY <1>9, CrashKeeps, RestartKeeps
<1>10. CASE UNCHANGED Uploads!vars
  BY <1>10 DEF Uploads!vars, Uploads!fileVars, Uploads!conversationVars, Uploads!importVars, FInv, FileShape,
               Uploads!TypeOK, RequestShape, Aside,
               NoReturn, UseKept, Uploads!File
<1> QED
  BY <1>1, <1>2, <1>3, <1>4, <1>5, <1>6, <1>7, <1>8, <1>9, <1>10 DEF Uploads!Next

\* TypeOK of FileImports, for any values of the constants.
THEOREM UploadsTyped == Uploads!FileAssumption /\ Uploads!Spec => []Uploads!TypeOK
<1> SUFFICES ASSUME Uploads!FileAssumption PROVE Uploads!Spec => []Uploads!TypeOK
  OBVIOUS
<1>1. Uploads!Init => FInv
  BY FilesInit
<1>2. FInv /\ [Uploads!Next]_(Uploads!vars) => FInv'
  BY FilesStep
<1>3. FInv => Uploads!TypeOK
  BY DEF FInv, FileShape
<1> QED
  BY <1>1, <1>2, <1>3, PTL DEF Uploads!Spec

-------------------------------------------------------------------------------
(* What follows *)

\* What a message or an import uses has its record; the data of a record is in place, in the hands
\* of a deletion that will put it back, or left in the trash after a crash or a failure.
LEMMA FilesGood == ASSUME FInv PROVE Uploads!FilesKept
<1> SUFFICES ASSUME NEW f \in Files, f \in record, place[f] # "uploads", place[f] # "trash"
             PROVE  \E r \in Requests : place[f] = r /\ f \in request[r].staged \ request[r].deleted
  BY DEF FInv, Aside, UseKept, Uploads!FilesKept
<1>1. place[f] \in Requests
  BY DEF FInv, FileShape, Uploads!TypeOK, NoReturn
<1>2. f \in request[place[f]].staged /\ f \notin request[place[f]].deleted
  BY <1>1 DEF FInv, Aside, NoReturn
<1> QED
  BY <1>1, <1>2

\* A step of a task and the claim of its import: a task gets the claim of an import that no
\* other has, and gives it up only once it has written the outcome.
LEMMA ClaimStep ==
  ASSUME FInv, OneTask, NEW w \in Workers, Uploads!Import(w)
  PROVE  OneTask'
<1> USE DEF FInv, FileShape, Uploads!TypeOK, UseKept, OneTask, Busy, Uploads!File, Uploads!Go, Uploads!NoWorker
<1>1. CASE Uploads!ClaimImport(w)
  BY <1>1 DEF Uploads!ClaimImport
<1>2. CASE Uploads!NotClaimed(w)
  BY <1>2 DEF Uploads!NotClaimed
<1>3. CASE Uploads!ReadExport(w) \/ Uploads!StartAnalysis(w)
  BY <1>3 DEF Uploads!ReadExport, Uploads!StartAnalysis
<1>4. CASE Uploads!Analyse(w)
  <2>1. worker[w].at = "analysing" /\ UNCHANGED import
    BY <1>4, Zenon DEF Uploads!Analyse
  <2>2. PICK step \in {"failing", "saving"} : \E todo :
          worker' = [worker EXCEPT ![w].at = step, ![w].todo = todo]
    BY <1>4, AnalysisStep
  <2>3. \A v \in Workers : worker'[v].file = worker[v].file /\ (worker'[v].at \in Busy <=> worker[v].at \in Busy)
    BY <2>1, <2>2
  <2> QED
    BY <2>1, <2>3
<1>5. CASE Uploads!SaveMemory(w)
  BY <1>5 DEF Uploads!SaveMemory
<1>6. CASE Uploads!CompleteImport(w) \/ Uploads!FailImport(w)
  BY <1>6 DEF Uploads!CompleteImport, Uploads!FailImport
<1>7. CASE Uploads!CloseImportRun(w)
  BY <1>7 DEF Uploads!CloseImportRun
<1>8. CASE Uploads!ImportStatementFails(w)
  BY <1>8 DEF Uploads!ImportStatementFails, Uploads!Working, WorkerSteps
<1> QED
  BY <1>1, <1>2, <1>3, <1>4, <1>5, <1>6, <1>7, <1>8 DEF Uploads!Import

\* Every step.
LEMMA OneTaskStep == ASSUME FInv, OneTask, [Uploads!Next]_(Uploads!vars) PROVE OneTask'
<1>1. CASE UNCHANGED <<import, worker>>
  BY <1>1 DEF OneTask, Uploads!File
<1>2. ASSUME NEW w \in Workers, Uploads!Import(w) PROVE OneTask'
  BY <1>2, ClaimStep
<1>3. ASSUME NEW w \in Workers, NEW f \in Files, Uploads!Enqueue(w, f) PROVE OneTask'
  <2>1. \A g \in Files : import[g] # "absent" => import'[g] = import[g]
    BY <1>3, EnqueueStep
  <2>2. \A v \in Workers : worker'[v] = worker[v] \/ worker'[v].at \notin Busy
    <3>1. \A v \in Workers : \/ worker'[v] = worker[v]
                           \/ worker'[v] = [at |-> "spawned", file |-> f, todo |-> <<>>, saved |-> 0]
      BY <1>3, EnqueueStep
    <3> QED
      BY <3>1 DEF Busy
  <2>3. \A v \in Workers : worker[v].at \in Busy => Uploads!File(v) \in Files
    BY DEF FInv, UseKept, Busy
  <2> QED
    BY <2>1, <2>2, <2>3 DEF OneTask, Uploads!File
<1>4. CASE Uploads!Crash
  BY <1>4 DEF Uploads!Crash, Uploads!NoWorker, OneTask, Busy
<1>5. CASE Uploads!Restart
  <2>1. \A w \in Workers : worker'[w].at \notin Busy
    BY <1>5, Resumed DEF Uploads!NoWorker, Busy
  <2> QED
    BY <2>1 DEF OneTask
<1>6. UNCHANGED <<import, worker>> \/ Uploads!Crash \/ Uploads!Restart
      \/ (\E w \in Workers : Uploads!Import(w) \/ \E f \in Files : Uploads!Enqueue(w, f))
  <2>1. ASSUME NEW f \in Files, Uploads!Upload(f) \/ Uploads!StopImport(f) PROVE UNCHANGED <<import, worker>>
    BY <2>1 DEF Uploads!Upload, Uploads!StopImport, Uploads!importVars
  <2>2. ASSUME NEW f \in Files, NEW c \in Conversations, Uploads!Attach(f, c) PROVE UNCHANGED <<import, worker>>
    BY <2>2 DEF Uploads!Attach, Uploads!importVars
  <2>3. ASSUME NEW c \in Conversations, Uploads!Archive(c) \/ Uploads!Depend(c) PROVE UNCHANGED <<import, worker>>
    BY <2>3, Zenon DEF Uploads!Archive, Uploads!Depend, Uploads!importVars
  <2>4. ASSUME NEW r \in Requests, NEW f \in Files, Uploads!DeleteDraft(r, f) PROVE UNCHANGED <<import, worker>>
    BY <2>4 DEF Uploads!DeleteDraft, Uploads!Begin, Uploads!importVars
  <2>5. ASSUME NEW r \in Requests, NEW c \in Conversations, Uploads!DeleteConversation(r, c)
        PROVE  UNCHANGED <<import, worker>>
    BY <2>5 DEF Uploads!DeleteConversation, Uploads!Begin, Uploads!importVars
  <2>6. ASSUME NEW r \in Requests, Uploads!Delete(r) PROVE UNCHANGED <<import, worker>>
    BY <2>6 DEF Uploads!Delete, Uploads!Stage, Uploads!DeleteRecords, Uploads!DeletionFails, Uploads!Settle,
                Uploads!SettleFails, Uploads!CutShort, Uploads!EndRequest, Uploads!importVars
  <2>7. CASE UNCHANGED Uploads!vars
    BY <2>7 DEF Uploads!vars, Uploads!importVars
  <2> QED
    BY <2>1, <2>2, <2>3, <2>4, <2>5, <2>6, <2>7 DEF Uploads!Next
<1> QED
  BY <1>1, <1>2, <1>3, <1>4, <1>5, <1>6

\* Two tasks never work on one import at the same time, however often it is enqueued, stopped,
\* tried again and taken up after a crash.
Exclusive ==
  \A v, w \in Workers : worker[v].at \in Busy /\ worker[w].at \in Busy
    /\ Uploads!File(v) = Uploads!File(w) => v = w

\* The claim is one guarded update, so that of the tasks spawned for an import one has it.
THEOREM TasksExclude == Uploads!FileAssumption /\ Uploads!Spec => []Exclusive
<1> SUFFICES ASSUME Uploads!FileAssumption PROVE Uploads!Spec => []Exclusive
  OBVIOUS
<1>1. Uploads!Init => FInv /\ OneTask
  BY FilesInit
<1>2. FInv /\ OneTask /\ [Uploads!Next]_(Uploads!vars) => OneTask'
  BY OneTaskStep
<1>3. FInv /\ [Uploads!Next]_(Uploads!vars) => FInv'
  BY FilesStep
<1>4. OneTask => Exclusive
  BY DEF OneTask, Exclusive
<1> QED
  BY <1>1, <1>2, <1>3, <1>4, PTL DEF Uploads!Spec

-------------------------------------------------------------------------------
(* What an import saves *)

\* The memories that may be saved, and the lists of them that name none twice.
Worth == (UNION {Learned[c] : c \in Chunks}) \ Sensitive
Once(list) == \A i, j \in 1 .. Len(list) : list[i] = list[j] => i = j
Lists == {list \in Seq(Worth) : Once(list)}

\* An instance has the library's operators by its own name.
LEMMA UploadsLibrary ==
  /\ \A S : Uploads!Cardinality(S) = Cardinality(S)
  /\ \A S : Uploads!IsFiniteSet(S) <=> IsFiniteSet(S)
  /\ \A S : Uploads!Max(S) = Max(S)
<1>1. \A S : Uploads!Cardinality(S) = Cardinality(S)
  BY DEF Cardinality, Uploads!Cardinality
<1>2. \A S : Uploads!IsFiniteSet(S) <=> IsFiniteSet(S)
  BY DEF IsFiniteSet, Uploads!IsFiniteSet
<1>3. \A S : Uploads!Max(S) = Max(S)
  BY DEF Max, Uploads!Max
<1> QED
  BY <1>1, <1>2, <1>3

\* The library's order of a finite set names each of its elements once.
LEMMA InOrder ==
  ASSUME NEW S, IsFiniteSet(S)
  PROVE  Uploads!SetToSeq(S) \in Seq(S) /\ Once(Uploads!SetToSeq(S))
<1>1. Cardinality(S) \in Nat /\ IsFiniteSet(1 .. Cardinality(S)) /\ Cardinality(1 .. Cardinality(S)) = Cardinality(S)
  BY FS_CardinalityType, FS_Interval
<1>2. ExistsBijection(1 .. Cardinality(S), S)
  BY <1>1, FS_SameCardinalityBij
<1>3. PICK f \in [1 .. Cardinality(S) -> S] : \A i, j \in 1 .. Cardinality(S) : f[i] = f[j] => i = j
  BY <1>2 DEF ExistsBijection, Bijection, Injection, IsInjective
<1>4. Uploads!Cardinality(S) = Cardinality(S)
  BY UploadsLibrary
<1>5. Uploads!SetToSeq(S) = CHOOSE g \in [1 .. Cardinality(S) -> S] : Uploads!IsInjective(g)
  BY <1>4 DEF Uploads!SetToSeq
<1>6. Uploads!IsInjective(f)
  BY <1>3 DEF Uploads!IsInjective
<1>7. Uploads!SetToSeq(S) \in [1 .. Cardinality(S) -> S] /\ Uploads!IsInjective(Uploads!SetToSeq(S))
  BY <1>5, <1>6
<1> QED
  BY <1>1, <1>7 DEF Once, Uploads!IsInjective

\* What one chunk adds to a list.
With(all, c) == all \o Uploads!SetToSeq(Learned[c] \ (Sensitive \union Uploads!ToSet(all)))

LEMMA WithIsList == ASSUME Uploads!FileAssumption, NEW all \in Lists, NEW c \in Chunks PROVE With(all, c) \in Lists
<1> DEFINE D == Learned[c] \ (Sensitive \union Uploads!ToSet(all))
           more == Uploads!SetToSeq(D)
<1>1. IsFiniteSet(D)
  <2>1. IsFiniteSet(Learned[c])
    BY UploadsLibrary DEF Uploads!FileAssumption
  <2> QED
    BY <2>1, FS_Subset
<1>2. more \in Seq(D) /\ Once(more)
  BY <1>1, InOrder
<1>3. D \subseteq Worth /\ \A i \in 1 .. Len(all) : all[i] \notin D
  <2>1. D \subseteq Worth
    BY DEF Worth
  <2>2. \A i \in 1 .. Len(all) : all[i] \in Uploads!ToSet(all)
    BY DEF Lists, Uploads!ToSet
  <2> QED
    BY <2>1, <2>2
<1>4. all \in Seq(Worth) /\ Once(all)
  BY DEF Lists
<1> HIDE DEF D, more
<1>5. more \in Seq(Worth) /\ \A i \in 1 .. Len(more) : more[i] \in D
  BY <1>2, <1>3
<1>6. all \o more \in Seq(Worth) /\ Len(all \o more) = Len(all) + Len(more) /\ Len(all) \in Nat /\ Len(more) \in Nat
  BY <1>4, <1>5
<1>7. Once(all \o more)
  <2> SUFFICES ASSUME NEW i \in 1 .. Len(all) + Len(more), NEW j \in 1 .. Len(all) + Len(more), i <= j,
                      (all \o more)[i] = (all \o more)[j]
               PROVE  i = j
    BY <1>6 DEF Once
  <2>1. \A k \in 1 .. Len(all) + Len(more) :
          (all \o more)[k] = IF k <= Len(all) THEN all[k] ELSE more[k - Len(all)]
    BY <1>4, <1>5
  <2>2. CASE j <= Len(all)
    <3>1. all[i] = all[j] /\ i \in 1 .. Len(all) /\ j \in 1 .. Len(all)
      BY <1>6, <2>1, <2>2
    <3> QED
      BY <1>4, <3>1 DEF Once
  <2>3. CASE i > Len(all)
    <3>1. more[i - Len(all)] = more[j - Len(all)]
      BY <1>6, <2>1, <2>3
    <3>2. i - Len(all) \in 1 .. Len(more) /\ j - Len(all) \in 1 .. Len(more)
      BY <1>6, <2>3
    <3>3. i - Len(all) = j - Len(all)
      BY <1>2, <3>1, <3>2 DEF Once
    <3> QED
      BY <1>6, <3>3
  <2>4. CASE i <= Len(all) /\ j > Len(all)
    <3>1. all[i] = more[j - Len(all)] /\ i \in 1 .. Len(all) /\ j - Len(all) \in 1 .. Len(more)
      BY <1>6, <2>1, <2>4
    <3> QED
      BY <1>3, <1>5, <3>1
  <2> QED
    BY <1>6, <2>2, <2>3, <2>4
<1> QED
  BY <1>6, <1>7 DEF Lists, With, more, D

\* The fold of the chunks, one after the other.
ListFrom(order, lists, s) ==
  IF s = {} THEN <<>> ELSE With(lists[s \ {Uploads!Max(s)}], order[Uploads!Max(s)])

LEMMA ToSaveIsFold ==
  ASSUME NEW order
  PROVE  Uploads!ToSave(order)
           = (CHOOSE lists : lists = [s \in SUBSET DOMAIN order |-> ListFrom(order, lists, s)])[DOMAIN order]
  BY DEF Uploads!ToSave, Uploads!FoldLeft, Uploads!MapThenFoldSet, ListFrom, With

\* Whatever chunks succeed and in whatever order, what is to be saved names nothing twice and
\* nothing that looks sensitive.
LEMMA ToSaveIsList ==
  ASSUME Uploads!FileAssumption, NEW n \in Nat, NEW order \in [1 .. n -> Chunks]
  PROVE  Uploads!ToSave(order) \in Lists
<1> DEFINE S == 1 .. n
           pick == [s \in SUBSET S |-> Uploads!Max(s)]
           go == [i \in S |-> [all \in Lists |-> With(all, order[i])]]
<1>1. IsFiniteSet(S)
  BY FS_Interval
<1>2. \A s \in SUBSET S : s # {} => Uploads!Max(s) \in s
  <2> SUFFICES ASSUME NEW s \in SUBSET S, s # {} PROVE Uploads!Max(s) \in s
    OBVIOUS
  <2>1. s \in SUBSET (0 .. n)
    OBVIOUS
  <2>2. Max(s) \in s /\ Uploads!Max(s) = Max(s)
    BY <2>1, Greatest, UploadsLibrary
  <2> QED
    BY <2>2
<1>3. Picks(pick, S)
  BY <1>2 DEF Picks
<1>4. <<>> \in Lists
  BY DEF Lists, Once
<1>5. go \in [S -> [Lists -> Lists]]
  BY WithIsList
<1>6. PICK some \in [SUBSET S -> Lists] : \A s \in SUBSET S : Fold(some, S, pick, <<>>, go, s)
  <2> HIDE DEF pick, go, S
  <2> QED
    BY <1>1, <1>3, <1>4, <1>5, FoldExists
<1>7. some = [s \in SUBSET S |-> ListFrom(order, some, s)]
  <2>1. ASSUME NEW s \in SUBSET S PROVE some[s] = ListFrom(order, some, s)
    <3>1. CASE s = {}
      BY <1>6, <3>1 DEF Fold, ListFrom
    <3>2. CASE s # {}
      <4> DEFINE x == Uploads!Max(s)
      <4>1. pick[s] = x /\ x \in s /\ x \in S
        BY <1>2, <3>2
      <4>2. some[s \ {x}] \in Lists
        BY <1>6
      <4>3. some[s] = go[x][some[s \ {x}]]
        <5> HIDE DEF pick, go, x
        <5> QED
          BY <1>6, <3>2, <4>1 DEF Fold
      <4> QED
        BY <3>2, <4>1, <4>2, <4>3 DEF ListFrom
    <3> QED
      BY <3>1, <3>2
  <2> QED
    BY <2>1
<1> DEFINE lists == CHOOSE lists : lists = [s \in SUBSET S |-> ListFrom(order, lists, s)]
<1>8. lists = [s \in SUBSET S |-> ListFrom(order, lists, s)]
  BY <1>7
<1>9. DOMAIN order = S
  OBVIOUS
<1>10. Uploads!ToSave(order) = lists[S]
  BY <1>9, ToSaveIsFold
<1> HIDE DEF lists
<1> DEFINE B == {s \in SUBSET S : lists[s] \notin Lists}
<1>11. \A s \in B : \E x \in s : s \ {x} \in B
  <2> SUFFICES ASSUME NEW s \in SUBSET S, lists[s] \notin Lists
               PROVE  s # {} /\ Uploads!Max(s) \in s /\ lists[s \ {Uploads!Max(s)}] \notin Lists
    OBVIOUS
  <2>1. lists[s] = ListFrom(order, lists, s)
    BY <1>8
  <2>2. s # {}
    BY <1>4, <2>1 DEF ListFrom
  <2>3. Uploads!Max(s) \in s /\ order[Uploads!Max(s)] \in Chunks
    BY <1>2, <2>2
  <2>4. lists[s \ {Uploads!Max(s)}] \notin Lists
    <3>1. With(lists[s \ {Uploads!Max(s)}], order[Uploads!Max(s)]) \notin Lists
      BY <2>1, <2>2 DEF ListFrom
    <3> QED
      BY <2>3, <3>1, WithIsList
  <2> QED
    BY <2>2, <2>3, <2>4
<1>12. B = {}
  <2> HIDE DEF B, S
  <2> QED
    BY <1>1, <1>11, NoSmallest DEF B
<1> QED
  BY <1>10, <1>12

\* What the analysis leaves to save is a list.
LEMMA AnalysisSaves ==
  ASSUME Uploads!FileAssumption, FInv, NEW w \in Workers, Uploads!Analyse(w)
  PROVE  \E to \in {"saving", "failing"} : \E list :
           worker' = [worker EXCEPT ![w].at = to, ![w].todo = list] /\ (to = "saving" => list \in Lists)
<1>1. CASE worker' = [worker EXCEPT ![w].at = "failing"]
  <2>1. worker' = [worker EXCEPT ![w].at = "failing", ![w].todo = worker[w].todo]
    BY <1>1 DEF FInv, FileShape
  <2> QED
    BY <2>1
<1>2. ASSUME NEW done \in SUBSET Chunks \ {{}}, NEW order \in Uploads!SetToSeqs(done),
             worker' = [worker EXCEPT ![w].at = IF stopAsked[Uploads!File(w)] THEN "failing" ELSE "saving",
                                      ![w].todo = IF stopAsked[Uploads!File(w)] THEN <<>> ELSE Uploads!ToSave(order)]
      PROVE  \E to \in {"saving", "failing"} : \E list :
               worker' = [worker EXCEPT ![w].at = to, ![w].todo = list] /\ (to = "saving" => list \in Lists)
  <2>0. IsFiniteSet(Chunks)
    BY UploadsLibrary DEF Uploads!FileAssumption
  <2>1. IsFiniteSet(done) /\ Cardinality(done) \in Nat
    BY <2>0, FS_Subset, FS_CardinalityType
  <2>2. Uploads!Cardinality(done) = Cardinality(done)
    BY UploadsLibrary
  <2>3. order \in [1 .. Cardinality(done) -> Chunks]
    BY <2>2 DEF Uploads!SetToSeqs
  <2>4. Uploads!ToSave(order) \in Lists
    BY <2>1, <2>3, ToSaveIsList
  <2>5. CASE stopAsked[Uploads!File(w)]
    <3>1. worker' = [worker EXCEPT ![w].at = "failing", ![w].todo = <<>>]
      BY <1>2, <2>5
    <3> QED
      BY <3>1
  <2>6. CASE ~stopAsked[Uploads!File(w)]
    <3>1. worker' = [worker EXCEPT ![w].at = "saving", ![w].todo = Uploads!ToSave(order)]
      BY <1>2, <2>6
    <3> QED
      BY <2>4, <3>1
  <2> QED
    BY <2>5, <2>6
<1> QED
  BY <1>1, <1>2, Zenon DEF Uploads!Analyse

\* What of a memory is saved for a file, and who is still to save it in this attempt.
SavedOf(f, m) == {k \in memories : k[1] = f /\ k[2] = m}
Due(w, f, m) ==
  /\ worker[w].file = f
  /\ \/ worker[w].at \in {"reading", "checking", "analysing"}
     \/ worker[w].at = "saving" /\ \E i \in 1 .. Len(worker[w].todo) : worker[w].todo[i] = m

\* What is left to save names nothing twice.
ToSaveOnce == \A w \in Workers : worker[w].at = "saving" => worker[w].todo \in Lists
\* A memory is saved at most once per attempt, and not yet in this one by who is to save it.
SavedOnce ==
  /\ memories \in SUBSET (Files \X Worth \X Nat)
  /\ \A f \in Files, m \in Worth :
       /\ IsFiniteSet(SavedOf(f, m)) /\ Cardinality(SavedOf(f, m)) <= attempts[f]
       /\ \A w \in Workers : Due(w, f, m) => Cardinality(SavedOf(f, m)) < attempts[f]
\* A row that says processing has a task that works on it.
HasTask ==
  \A f \in Files : import[f] = "processing" =>
    ~up \/ faults > 0 \/ \E w \in Workers : worker[w].at \in Busy /\ worker[w].file = f
SavedNumbers == \A w \in Workers : worker[w].saved \in Nat

SaveInv == ToSaveOnce /\ SavedOnce /\ HasTask /\ SavedNumbers

\* A step of a task that saves nothing.
LEMMA NothingSaved ==
  ASSUME FInv, OneTask, SaveInv, UNCHANGED memories, NEW w \in Workers,
         \A v \in Workers : v # w => worker'[v] = worker[v],
         worker'[w].saved \in Nat,
         worker'[w].at = "saving" => worker'[w].todo \in Lists,
         \A f \in Files : attempts'[f] \in Nat /\ attempts'[f] >= attempts[f],
         \A f \in Files, m \in Worth : Due(w, f, m)' => Due(w, f, m) \/ attempts'[f] > attempts[f]
  PROVE  (ToSaveOnce /\ SavedOnce /\ SavedNumbers)'
<1>1. ToSaveOnce' /\ SavedNumbers'
  BY DEF SaveInv, ToSaveOnce, SavedNumbers
<1>2. SavedOnce'
  <2>1. \A f \in Files, m \in Worth : SavedOf(f, m)' = SavedOf(f, m)
    BY DEF SavedOf
  <2>2. \A f \in Files : attempts[f] \in Nat
    BY DEF FInv, FileShape, Uploads!TypeOK
  <2>3. ASSUME NEW f \in Files, NEW m \in Worth, NEW v \in Workers, Due(v, f, m)'
        PROVE  Cardinality(SavedOf(f, m)) < attempts'[f]
    <3>1. Cardinality(SavedOf(f, m)) \in Nat /\ Cardinality(SavedOf(f, m)) <= attempts[f]
      BY FS_CardinalityType DEF SaveInv, SavedOnce
    <3>2. CASE v = w
      BY <2>2, <2>3, <3>1, <3>2 DEF SaveInv, SavedOnce
    <3>3. CASE v # w
      <4>1. Due(v, f, m)
        BY <2>3, <3>3 DEF Due
      <4> QED
        BY <2>2, <3>1, <4>1 DEF SaveInv, SavedOnce
    <3> QED
      BY <3>2, <3>3
  <2>4. ASSUME NEW f \in Files, NEW m \in Worth
        PROVE  IsFiniteSet(SavedOf(f, m)) /\ Cardinality(SavedOf(f, m)) <= attempts'[f]
    <3>1. Cardinality(SavedOf(f, m)) \in Nat /\ Cardinality(SavedOf(f, m)) <= attempts[f] /\ IsFiniteSet(SavedOf(f, m))
      BY FS_CardinalityType DEF SaveInv, SavedOnce
    <3> QED
      BY <2>2, <3>1
  <2> QED
    BY <2>1, <2>3, <2>4 DEF SaveInv, SavedOnce
<1> QED
  BY <1>1, <1>2

\* The step that saves a memory: nobody else works on the import, and the rest of the list does not
\* name it again.
LEMMA MemorySaved ==
  ASSUME FInv, OneTask, SaveInv, NEW w \in Workers, Uploads!SaveMemory(w)
  PROVE  (ToSaveOnce /\ SavedOnce /\ SavedNumbers)'
<1> DEFINE g == worker[w].file
           todo == worker[w].todo
           head == Head(todo)
           entry == <<g, head, worker[w].saved + 1>>
<1>1. /\ worker[w].at = "saving" /\ todo # <<>> /\ worker[w].saved \in Nat
      /\ memories' = memories \union {entry}
      /\ worker' = [worker EXCEPT ![w].todo = Tail(@), ![w].saved = @ + 1]
      /\ UNCHANGED attempts
  BY DEF Uploads!SaveMemory, Uploads!Saved, Uploads!File, SaveInv, SavedNumbers
<1>2. todo \in Seq(Worth) /\ Once(todo)
  BY <1>1 DEF SaveInv, ToSaveOnce, Lists
<1>3. g \in Files /\ \A f \in Files : attempts[f] \in Nat
  BY <1>1 DEF FInv, UseKept, FileShape, Uploads!TypeOK, Uploads!File
<1>4. /\ Len(todo) \in Nat /\ Len(todo) > 0 /\ head = todo[1] /\ head \in Worth
      /\ Tail(todo) \in Seq(Worth) /\ Len(Tail(todo)) = Len(todo) - 1
      /\ \A i \in 1 .. Len(Tail(todo)) : Tail(todo)[i] = todo[i + 1] /\ i + 1 \in 1 .. Len(todo)
  BY <1>1, <1>2
<1>5. Once(Tail(todo)) /\ \A i \in 1 .. Len(Tail(todo)) : Tail(todo)[i] # head
  <2>1. ASSUME NEW i \in 1 .. Len(Tail(todo)), NEW j \in 1 .. Len(Tail(todo)), Tail(todo)[i] = Tail(todo)[j]
        PROVE  i = j
    <3>1. i + 1 = j + 1
      BY <1>2, <1>4, <2>1 DEF Once
    <3> QED
      BY <3>1
  <2>2. ASSUME NEW i \in 1 .. Len(Tail(todo)), Tail(todo)[i] = head PROVE FALSE
    <3>1. 1 \in 1 .. Len(todo) /\ i + 1 \in 1 .. Len(todo) /\ todo[i + 1] = todo[1]
      BY <1>4, <2>2
    <3>2. i + 1 = 1
      BY <1>2, <3>1 DEF Once
    <3> QED
      BY <3>2
  <2> QED
    BY <2>1, <2>2 DEF Once
<1>6. /\ worker'[w].at = "saving" /\ worker'[w].file = g /\ worker'[w].todo = Tail(todo)
      /\ worker'[w].saved = worker[w].saved + 1
      /\ \A v \in Workers : v # w => worker'[v] = worker[v]
  BY <1>1 DEF FInv, FileShape
<1>7. ToSaveOnce' /\ SavedNumbers'
  <2>1. Tail(todo) \in Lists
    BY <1>4, <1>5 DEF Lists
  <2>2. worker[w].saved + 1 \in Nat
    BY <1>1
  <2> QED
    BY <1>6, <2>1, <2>2 DEF SaveInv, ToSaveOnce, SavedNumbers
<1>8. memories' \in SUBSET (Files \X Worth \X Nat)
  BY <1>1, <1>3, <1>4 DEF SaveInv, SavedOnce
<1>9. Due(w, g, head)
  BY <1>1, <1>4 DEF Due
<1>10. ASSUME NEW f \in Files, NEW m \in Worth
       PROVE  /\ IsFiniteSet(SavedOf(f, m)') /\ Cardinality(SavedOf(f, m)') <= attempts'[f]
              /\ \A v \in Workers : Due(v, f, m)' => Cardinality(SavedOf(f, m)') < attempts'[f]
  <2>0. IsFiniteSet(SavedOf(f, m)) /\ Cardinality(SavedOf(f, m)) \in Nat
    BY FS_CardinalityType DEF SaveInv, SavedOnce
  <2>1. CASE f = g /\ m = head
    <3>1. SavedOf(f, m)' = SavedOf(f, m) \union {entry}
      BY <1>1, <2>1 DEF SavedOf
    <3>2. /\ IsFiniteSet(SavedOf(f, m)')
          /\ Cardinality(SavedOf(f, m)') <= Cardinality(SavedOf(f, m)) + 1 /\ Cardinality(SavedOf(f, m)') \in Nat
      <4>1. ASSUME NEW T, IsFiniteSet(T), NEW x
            PROVE  /\ IsFiniteSet(T \union {x})
                   /\ Cardinality(T \union {x}) <= Cardinality(T) + 1 /\ Cardinality(T \union {x}) \in Nat
        <5>1. Cardinality(T) \in Nat /\ IsFiniteSet(T \union {x})
              /\ (Cardinality(T \union {x}) = Cardinality(T) \/ Cardinality(T \union {x}) = Cardinality(T) + 1)
          BY <4>1, FS_AddElement, FS_CardinalityType
        <5> QED
          BY <5>1
      <4> QED
        BY <2>0, <3>1, <4>1
    <3>3. Cardinality(SavedOf(f, m)) < attempts[f]
      BY <1>9, <2>1 DEF SaveInv, SavedOnce
    <3>4. ASSUME NEW v \in Workers, Due(v, f, m)' PROVE FALSE
      <4>1. CASE v = w
        BY <1>5, <1>6, <2>1, <3>4, <4>1 DEF Due
      <4>2. CASE v # w
        <5>1. worker[v].at \in Busy /\ worker[w].at \in Busy /\ Uploads!File(v) = Uploads!File(w)
          BY <1>1, <1>6, <2>1, <3>4, <4>2 DEF Due, Busy, Uploads!File
        <5> QED
          BY <4>2, <5>1 DEF OneTask
      <4> QED
        BY <4>1, <4>2
    <3> QED
      BY <1>1, <1>3, <2>0, <3>2, <3>3, <3>4
  <2>2. CASE ~(f = g /\ m = head)
    <3>1. SavedOf(f, m)' = SavedOf(f, m)
      BY <1>1, <2>2 DEF SavedOf
    <3>2. ASSUME NEW v \in Workers, Due(v, f, m)' PROVE Due(v, f, m)
      <4>1. CASE v = w
        <5>1. f = g /\ \E i \in 1 .. Len(Tail(todo)) : Tail(todo)[i] = m
          BY <1>6, <3>2, <4>1 DEF Due
        <5>2. \E i \in 1 .. Len(todo) : todo[i] = m
          BY <1>4, <5>1
        <5> QED
          BY <1>1, <4>1, <5>1, <5>2 DEF Due
      <4>2. CASE v # w
        BY <1>6, <3>2, <4>2 DEF Due
      <4> QED
        BY <4>1, <4>2
    <3> QED
      BY <1>1, <3>1, <3>2 DEF SaveInv, SavedOnce
  <2> QED
    BY <2>1, <2>2
<1> QED
  BY <1>7, <1>8, <1>10 DEF SavedOnce

\* The steps of a task.
LEMMA SavingStep ==
  ASSUME Uploads!FileAssumption, FInv, OneTask, SaveInv, NEW w \in Workers, Uploads!Import(w)
  PROVE  SaveInv'
<1> USE DEF Uploads!File, Uploads!Go
<1>0. /\ DOMAIN worker = Workers /\ \A v \in Workers : DOMAIN worker[v] = {"at", "file", "todo", "saved"}
      /\ worker[w].saved \in Nat
      /\ attempts \in [Files -> Nat] /\ DOMAIN import = Files
      /\ \A v \in Workers : worker[v].at # "none" => worker[v].file \in Files
  BY DEF FInv, FileShape, Uploads!TypeOK, SaveInv, SavedNumbers, UseKept
<1>1. CASE Uploads!ClaimImport(w)
  <2>1. worker' = [worker EXCEPT ![w].at = "reading"] /\ worker[w].at = "spawned" /\ UNCHANGED <<memories, up, faults>>
        /\ attempts' = [attempts EXCEPT ![worker[w].file] = @ + 1]
        /\ import' = [import EXCEPT ![worker[w].file] = "processing"]
    BY <1>1 DEF Uploads!ClaimImport, Uploads!NoFault
  <2>2. (ToSaveOnce /\ SavedOnce /\ SavedNumbers)'
    BY <1>0, <2>1, NothingSaved DEF Due
  <2>3. HasTask'
    BY <1>0, <2>1 DEF SaveInv, HasTask, Busy
  <2> QED
    BY <2>2, <2>3 DEF SaveInv
<1>2. CASE Uploads!NotClaimed(w)
  <2>1. worker' = [worker EXCEPT ![w] = Uploads!NoWorker] /\ worker[w].at = "spawned"
        /\ UNCHANGED <<memories, up, faults, attempts, import>>
    BY <1>2 DEF Uploads!NotClaimed, Uploads!NoFault
  <2>2. (ToSaveOnce /\ SavedOnce /\ SavedNumbers)'
    BY <1>0, <2>1, NothingSaved DEF Due, Uploads!NoWorker
  <2>3. HasTask'
    BY <1>0, <2>1 DEF SaveInv, HasTask, Busy
  <2> QED
    BY <2>2, <2>3 DEF SaveInv
<1>3. CASE Uploads!ReadExport(w) \/ Uploads!StartAnalysis(w)
  <2>1. PICK to \in {"checking", "analysing", "failing"} :
          worker' = [worker EXCEPT ![w].at = to] /\ worker[w].at \in {"reading", "checking"}
          /\ UNCHANGED <<memories, up, faults, attempts, import>>
    BY <1>3 DEF Uploads!ReadExport, Uploads!StartAnalysis, Uploads!NoFault
  <2>2. (ToSaveOnce /\ SavedOnce /\ SavedNumbers)'
    BY <1>0, <2>1, NothingSaved DEF Due
  <2>3. HasTask'
    BY <1>0, <2>1 DEF SaveInv, HasTask, Busy
  <2> QED
    BY <2>2, <2>3 DEF SaveInv
<1>4. CASE Uploads!Analyse(w)
  <2>1. worker[w].at = "analysing" /\ UNCHANGED <<memories, up, faults, attempts, import>>
    BY <1>4, Zenon DEF Uploads!Analyse, Uploads!NoFault
  <2>a. PICK to \in {"saving", "failing"} :
          \E list : worker' = [worker EXCEPT ![w].at = to, ![w].todo = list] /\ (to = "saving" => list \in Lists)
    BY <1>0, <1>4, AnalysisSaves
  <2>2. PICK list : worker' = [worker EXCEPT ![w].at = to, ![w].todo = list] /\ (to = "saving" => list \in Lists)
    BY <2>a
  <2>3. (ToSaveOnce /\ SavedOnce /\ SavedNumbers)'
    BY <1>0, <2>1, <2>2, NothingSaved DEF Due
  <2>4. HasTask'
    BY <1>0, <2>1, <2>2 DEF SaveInv, HasTask, Busy
  <2> QED
    BY <2>3, <2>4 DEF SaveInv
<1>5. CASE Uploads!SaveMemory(w)
  <2>1. (ToSaveOnce /\ SavedOnce /\ SavedNumbers)'
    BY <1>5, MemorySaved
  <2>2. HasTask'
    BY <1>0, <1>5 DEF Uploads!SaveMemory, Uploads!NoFault, SaveInv, HasTask, Busy
  <2> QED
    BY <2>1, <2>2 DEF SaveInv
<1>6. CASE Uploads!CompleteImport(w) \/ Uploads!FailImport(w)
  <2>1. PICK to \in {"completing", "failed"}, s \in {"completed", "failed"} :
          worker' = [worker EXCEPT ![w].at = to] /\ worker[w].at \in {"saving", "failing"}
          /\ import' = [import EXCEPT ![worker[w].file] = s]
          /\ UNCHANGED <<memories, up, faults, attempts>>
    BY <1>6 DEF Uploads!CompleteImport, Uploads!FailImport, Uploads!NoFault
  <2>2. (ToSaveOnce /\ SavedOnce /\ SavedNumbers)'
    BY <1>0, <2>1, NothingSaved DEF Due
  <2>3. HasTask'
    BY <1>0, <2>1 DEF SaveInv, HasTask, Busy
  <2> QED
    BY <2>2, <2>3 DEF SaveInv
<1>7. CASE Uploads!CloseImportRun(w)
  <2>1. worker' = [worker EXCEPT ![w] = Uploads!NoWorker] /\ worker[w].at \in {"completing", "failed"}
        /\ UNCHANGED <<memories, up, faults, attempts, import>>
    BY <1>7 DEF Uploads!CloseImportRun, Uploads!NoFault
  <2>2. (ToSaveOnce /\ SavedOnce /\ SavedNumbers)'
    BY <1>0, <2>1, NothingSaved DEF Due, Uploads!NoWorker
  <2>3. HasTask'
    BY <1>0, <2>1 DEF SaveInv, HasTask, Busy
  <2> QED
    BY <2>2, <2>3 DEF SaveInv
<1>8. CASE Uploads!ImportStatementFails(w)
  <2>1. PICK to \in {"completing", "failed", "failing"} :
          worker' = [worker EXCEPT ![w].at = to] /\ UNCHANGED <<memories, up, attempts, import>>
    BY <1>8 DEF Uploads!ImportStatementFails, Uploads!Fault
  <2>2. faults' > 0
    BY <1>8 DEF Uploads!ImportStatementFails, Uploads!Fault, FInv, FileShape
  <2>3. (ToSaveOnce /\ SavedOnce /\ SavedNumbers)'
    BY <1>0, <2>1, NothingSaved DEF Due
  <2> QED
    BY <2>2, <2>3 DEF SaveInv, HasTask
<1> QED
  BY <1>1, <1>2, <1>3, <1>4, <1>5, <1>6, <1>7, <1>8 DEF Uploads!Import

\* Every step.
LEMMA SaveStep ==
  ASSUME Uploads!FileAssumption, FInv, OneTask, SaveInv, [Uploads!Next]_(Uploads!vars)
  PROVE  SaveInv'
<1>2. ASSUME NEW w \in Workers, Uploads!Import(w) PROVE SaveInv'
  BY <1>2, SavingStep
<1>3. ASSUME NEW w \in Workers, NEW f \in Files, Uploads!Enqueue(w, f) PROVE SaveInv'
  <2>1. UNCHANGED <<memories, attempts, up, faults>>
        /\ \A g \in Files : import'[g] = IF g = f /\ import[g] = "absent" THEN "queued" ELSE import[g]
    BY <1>3, EnqueueStep
  <2>2. \A v \in Workers : \/ worker'[v] = worker[v]
                           \/ /\ worker[v].at = "none"
                              /\ worker'[v] = [at |-> "spawned", file |-> f, todo |-> <<>>, saved |-> 0]
    BY <1>3 DEF Uploads!Enqueue, Uploads!Spawn, Uploads!NoWorker, FInv, FileShape
  <2>3. ToSaveOnce' /\ SavedNumbers'
    BY <2>2 DEF SaveInv, ToSaveOnce, SavedNumbers
  <2>4. \A g \in Files, m \in Worth : SavedOf(g, m)' = SavedOf(g, m)
    BY <2>1 DEF SavedOf
  <2>5. \A v \in Workers, g \in Files, m \in Worth : Due(v, g, m)' => Due(v, g, m)
    BY <2>2 DEF Due
  <2>6. SavedOnce'
    BY <2>1, <2>4, <2>5 DEF SaveInv, SavedOnce
  <2>7. HasTask'
    BY <2>1, <2>2 DEF SaveInv, HasTask, Busy
  <2> QED
    BY <2>3, <2>6, <2>7 DEF SaveInv
<1>4. CASE Uploads!Crash \/ Uploads!Restart
  <2>1. UNCHANGED <<memories, attempts>>
    BY <1>4 DEF Uploads!Crash, Uploads!Restart
  <2>2. \A w \in Workers : worker'[w].at \in {"none", "spawned"} /\ worker'[w].saved = 0
    <3>1. CASE Uploads!Crash
      BY <3>1 DEF Uploads!Crash, Uploads!NoWorker
    <3>2. CASE Uploads!Restart
      BY <3>2, Resumed DEF Uploads!NoWorker
    <3> QED
      BY <1>4, <3>1, <3>2
  <2>3. ToSaveOnce' /\ SavedNumbers'
    BY <2>2 DEF ToSaveOnce, SavedNumbers
  <2>4. SavedOnce'
    <3>1. \A g \in Files, m \in Worth : SavedOf(g, m)' = SavedOf(g, m)
      BY <2>1 DEF SavedOf
    <3>2. \A v \in Workers, g \in Files, m \in Worth : ~ Due(v, g, m)'
      BY <2>2 DEF Due
    <3> QED
      BY <2>1, <3>1, <3>2 DEF SaveInv, SavedOnce
  <2>5. HasTask'
    <3>1. CASE Uploads!Crash
      BY <3>1 DEF Uploads!Crash, HasTask
    <3>2. CASE Uploads!Restart
      BY <3>2 DEF Uploads!Restart, HasTask
    <3> QED
      BY <1>4, <3>1, <3>2
  <2> QED
    BY <2>3, <2>4, <2>5 DEF SaveInv
<1>5. ASSUME UNCHANGED <<import, worker, memories, attempts>>, up' = up, faults' \in Nat, faults' >= faults PROVE SaveInv'
  <2>1. HasTask'
    BY <1>5 DEF SaveInv, HasTask, FInv, FileShape
  <2> QED
    BY <1>5, <2>1 DEF SaveInv, ToSaveOnce, SavedOnce, SavedNumbers, SavedOf, Due
<1>6. \/ /\ UNCHANGED <<import, worker, memories, attempts>> /\ up' = up
         /\ faults' \in Nat /\ faults' >= faults
      \/ Uploads!Crash \/ Uploads!Restart
      \/ \E w \in Workers : Uploads!Import(w) \/ \E f \in Files : Uploads!Enqueue(w, f)
  <2> USE DEF Uploads!importVars, Uploads!NoFault, Uploads!Fault
  <2>0. faults \in Nat
    BY DEF FInv, FileShape
  <2>1. ASSUME NEW f \in Files, Uploads!Upload(f) \/ Uploads!StopImport(f)
        PROVE  UNCHANGED <<import, worker, memories, attempts>> /\ up' = up /\ faults' \in Nat /\ faults' >= faults
    BY <2>0, <2>1 DEF Uploads!Upload, Uploads!StopImport
  <2>2. ASSUME NEW f \in Files, NEW c \in Conversations, Uploads!Attach(f, c)
        PROVE  UNCHANGED <<import, worker, memories, attempts>> /\ up' = up /\ faults' \in Nat /\ faults' >= faults
    BY <2>0, <2>2 DEF Uploads!Attach
  <2>3. ASSUME NEW c \in Conversations, Uploads!Archive(c) \/ Uploads!Depend(c)
        PROVE  UNCHANGED <<import, worker, memories, attempts>> /\ up' = up /\ faults' \in Nat /\ faults' >= faults
    <3>1. UNCHANGED <<import, worker, memories, attempts, up, faults>>
      BY <2>3, Zenon DEF Uploads!Archive, Uploads!Depend
    <3> QED
      BY <2>0, <3>1
  <2>4. ASSUME NEW r \in Requests, NEW f \in Files, Uploads!DeleteDraft(r, f)
        PROVE  UNCHANGED <<import, worker, memories, attempts>> /\ up' = up /\ faults' \in Nat /\ faults' >= faults
    BY <2>0, <2>4 DEF Uploads!DeleteDraft, Uploads!Begin
  <2>5. ASSUME NEW r \in Requests, NEW c \in Conversations, Uploads!DeleteConversation(r, c)
        PROVE  UNCHANGED <<import, worker, memories, attempts>> /\ up' = up /\ faults' \in Nat /\ faults' >= faults
    BY <2>0, <2>5 DEF Uploads!DeleteConversation, Uploads!Begin
  <2>6. ASSUME NEW r \in Requests, Uploads!Delete(r)
        PROVE  UNCHANGED <<import, worker, memories, attempts>> /\ up' = up /\ faults' \in Nat /\ faults' >= faults
    <3>1. ASSUME NEW f \in Files, Uploads!Stage(r, f) \/ Uploads!Settle(r, f) PROVE UNCHANGED <<Uploads!importVars, up, faults>>
      BY <3>1 DEF Uploads!Stage, Uploads!Settle
    <3>2. CASE Uploads!DeleteRecords(r) \/ Uploads!EndRequest(r)
      BY <2>0, <3>2 DEF Uploads!DeleteRecords, Uploads!EndRequest
    <3>3. CASE Uploads!DeletionFails(r) \/ Uploads!CutShort(r)
      BY <2>0, <3>3 DEF Uploads!DeletionFails, Uploads!CutShort
    <3>4. ASSUME NEW f \in Files, Uploads!SettleFails(r, f)
          PROVE  UNCHANGED Uploads!importVars /\ up' = up /\ faults' = faults + 1
      BY <3>4 DEF Uploads!SettleFails
    <3> QED
      BY <2>0, <2>6, <3>1, <3>2, <3>3, <3>4 DEF Uploads!Delete
  <2>7. CASE UNCHANGED Uploads!vars
    BY <2>0, <2>7 DEF Uploads!vars
  <2> QED
    BY <2>1, <2>2, <2>3, <2>4, <2>5, <2>6, <2>7 DEF Uploads!Next
<1> QED
  BY <1>2, <1>3, <1>4, <1>5, <1>6

LEMMA SaveInit == ASSUME Uploads!FileAssumption, Uploads!Init PROVE SaveInv
<1>1. memories = {} /\ attempts = [f \in Files |-> 0] /\ worker = [w \in Workers |-> Uploads!NoWorker]
      /\ import = [f \in Files |-> "absent"]
  BY DEF Uploads!Init
<1>2. SavedOnce
  <2>1. \A f \in Files, m \in Worth : SavedOf(f, m) = {}
    BY <1>1 DEF SavedOf
  <2>2. IsFiniteSet({}) /\ Cardinality({}) = 0
    BY FS_EmptySet
  <2>3. \A w \in Workers, f \in Files, m \in Worth : ~Due(w, f, m)
    BY <1>1 DEF Due, Uploads!NoWorker
  <2> QED
    BY <1>1, <2>1, <2>2, <2>3 DEF SavedOnce
<1> QED
  BY <1>1, <1>2 DEF SaveInv, ToSaveOnce, HasTask, SavedNumbers, Uploads!NoWorker

\* The invariant says what ImportedOnce says.
LEMMA ImportsGood == ASSUME FInv, OneTask, SaveInv PROVE Uploads!ImportedOnce
<1>0. \A S : Uploads!Cardinality(S) = Cardinality(S)
  BY UploadsLibrary
<1> SUFFICES ASSUME NEW f \in Files
             PROVE  LET tasks == {w \in Workers : Uploads!Working(w) /\ Uploads!File(w) = f} IN
                    /\ Cardinality({w \in tasks : worker[w].at \notin {"completing", "failed"}}) <= 1
                    /\ import[f] = "processing" => tasks # {} \/ ~up \/ faults > 0
                    /\ \A m \in UNION {Learned[c] : c \in Chunks} :
                         Cardinality({k \in memories : k[1] = f /\ k[2] = m}) <= (IF m \in Sensitive THEN 0 ELSE attempts[f])
  BY <1>0, Zenon DEF Uploads!ImportedOnce
<1> DEFINE tasks == {w \in Workers : Uploads!Working(w) /\ Uploads!File(w) = f}
           busy == {w \in tasks : worker[w].at \notin {"completing", "failed"}}
<1>1. Cardinality(busy) <= 1
  <2>1. \A w \in busy : worker[w].at \in Busy
    BY DEF FInv, FileShape, WorkerSteps, Busy, Uploads!Working
  <2>2. \A v, w \in busy : v = w
    BY <2>1 DEF OneTask
  <2>3. CASE busy = {}
    BY <2>3, FS_EmptySet
  <2>4. CASE busy # {}
    <3>1. PICK w \in busy : TRUE
      BY <2>4
    <3>2. busy = {w}
      BY <2>2, <3>1
    <3> HIDE DEF busy
    <3> QED
      BY <3>2, FS_Singleton
  <2> QED
    BY <2>3, <2>4
<1>2. import[f] = "processing" => tasks # {} \/ ~up \/ faults > 0
  BY DEF SaveInv, HasTask, Busy, Uploads!Working, Uploads!File
<1>3. ASSUME NEW m \in UNION {Learned[c] : c \in Chunks}
      PROVE  Cardinality(SavedOf(f, m)) <= (IF m \in Sensitive THEN 0 ELSE attempts[f])
  <2>1. CASE m \in Sensitive
    <3>1. SavedOf(f, m) = {}
      <4>1. \A k \in memories : k[2] \in Worth
        BY DEF SaveInv, SavedOnce
      <4>2. m \notin Worth
        BY <2>1 DEF Worth
      <4> QED
        BY <4>1, <4>2 DEF SavedOf
    <3> QED
      BY <2>1, <3>1, FS_EmptySet
  <2>2. CASE m \notin Sensitive
    <3>1. m \in Worth
      BY <2>2 DEF Worth
    <3> QED
      BY <2>2, <3>1 DEF SaveInv, SavedOnce
  <2> QED
    BY <2>1, <2>2
<1> QED
  BY <1>1, <1>2, <1>3 DEF SavedOf

\* Both promises of FileImports, for any files, deletions, tasks and exports: what is in use keeps
\* its record, and the data of a record is never destroyed, is moved only by a deletion that has it
\* in its hands, and is left in the trash only after a crash or a failure; one task works on an
\* import, an import that is being processed has its task, and what it learns is saved
\* at most once per attempt, and never what looks sensitive.
THEOREM FilesAreKept == Uploads!FileAssumption /\ Uploads!Spec => []FilesKept
<1> SUFFICES ASSUME Uploads!FileAssumption PROVE Uploads!Spec => []FilesKept
  OBVIOUS
<1>1. Uploads!Init => FInv /\ OneTask /\ SaveInv
  BY FilesInit, SaveInit
<1>2. FInv /\ OneTask /\ SaveInv /\ [Uploads!Next]_(Uploads!vars) => (FInv /\ OneTask /\ SaveInv)'
  BY FilesStep, OneTaskStep, SaveStep
<1>3. FInv /\ OneTask /\ SaveInv => FilesKept
  BY FilesGood, ImportsGood DEF FilesKept
<1> QED
  BY <1>1, <1>2, <1>3, PTL DEF Uploads!Spec

-------------------------------------------------------------------------------
(* A mailbox and a Google account *)

MailAt == {"idle", "planning", "seeding", "fetching", "inserting", "storing_uid", "storing_validity",
           "polling", "clearing", "clearing_token", "pausing_token", "storing_cursor"}
\* A cursor of the mailbox is about to be stored.
Storing == at \in {"storing_uid", "storing_validity"} \/ (at = "inserting" /\ feed = "imap")

Placed ==
  /\ at \in MailAt /\ feed \in {"imap"} \union Feeds
  /\ at \in {"planning", "seeding", "fetching", "storing_uid", "storing_validity"} => feed = "imap"
  /\ at = "storing_cursor" => feed # "imap"
  /\ at \in {"polling", "clearing", "clearing_token", "pausing_token", "storing_cursor"} => Feeds # {}
MailTypes ==
  /\ mailbox \in [validity : 1 .. MaxMailboxes, last : 0 .. MaxMail]
  /\ known \in [validity : 1 .. MaxMailboxes, last : 0 .. MaxMail]
  /\ cursor \in [uid : Mail!None .. MaxMail, validity : {Mail!None} \union 1 .. MaxMailboxes]
  /\ torn \in BOOLEAN
CursorTypes ==
  /\ position \in [uid : Int, validity : Int]
  /\ Storing => position.uid \in 0 .. MaxMail /\ position.validity \in 1 .. MaxMailboxes
  /\ at \in {"inserting", "storing_cursor"} /\ feed # "imap" => 0 <= position.uid /\ position.uid <= items[feed]
SeedTypes ==
  /\ seeded \in [Mail!Sources -> Int]
  /\ \A s \in Mail!Sources : seeded[s] >= Mail!None
  /\ seedings \in Nat
FeedTypes ==
  /\ items \in [Feeds -> Nat] /\ feedCursor \in [Feeds -> Int]
  /\ \A f \in Feeds : items[f] <= MaxItems[f] /\ Mail!None <= feedCursor[f] /\ feedCursor[f] <= items[f]
AccountTypes ==
  /\ account \in {"active", "paused"} /\ pausedFor \in 0 .. MaxTokens /\ cached \in BOOLEAN
  /\ current \in 1 .. MaxTokens /\ snapshot \in 1 .. MaxTokens /\ revoked \in Nat /\ revoked <= current
  /\ faults \in 0 .. MaxFaults /\ resets \in 0 .. MaxResets
MailShape == Placed /\ MailTypes /\ CursorTypes /\ SeedTypes /\ FeedTypes /\ AccountTypes

\* What a poll of the mailbox knows, unless the mailbox was replaced meanwhile, and what its plan
\* followed from.
Stale == cursor.uid = Mail!None \/ (cursor.validity # Mail!None /\ cursor.validity < mailbox.validity)
Told ==
  /\ cursor.validity <= mailbox.validity
  /\ at \in {"planning", "seeding", "fetching"} =>
       /\ cursor.validity <= known.validity /\ known.validity <= mailbox.validity
       /\ ~torn => known.validity = mailbox.validity /\ known.last <= mailbox.last
  /\ at = "seeding" => Stale
  /\ at = "fetching" => cursor.uid # Mail!None /\ cursor.uid < known.last
       /\ cursor.validity \in {Mail!None, known.validity}
  /\ Storing => /\ position.validity <= mailbox.validity
                /\ ~torn => position.validity = mailbox.validity

Covered(source, validity, from, to, more) ==
  \A u \in from + 1 .. to : <<source, validity, u>> \in events \union dropped \union more

\* Between where the cursor was put and where it is, or goes next, nothing is missing.
MailCovered ==
  /\ (~torn /\ cursor.uid # Mail!None /\ cursor.validity \in {Mail!None, mailbox.validity}
       /\ at # "storing_validity") =>
       Covered("imap", mailbox.validity, seeded["imap"], cursor.uid, {})
  /\ (~torn /\ Storing) =>
       Covered("imap", mailbox.validity, seeded["imap"], position.uid, IF at = "inserting" THEN batch ELSE {})
  /\ at = "storing_validity" => cursor.uid = position.uid

\* A cursor is put once for every mailbox, and once more for a failure.
SeedingsCounted ==
  /\ seedings <= mailbox.validity + faults
  /\ (Stale /\ at \notin {"storing_uid", "storing_validity"}) \/ (Storing
       /\ position.validity < mailbox.validity)
       => seedings < mailbox.validity + faults

FeedsCovered ==
  /\ \A f \in Feeds : feedCursor[f] # Mail!None => Covered(f, 0, seeded[f], feedCursor[f], {})
  /\ at \in {"inserting", "storing_cursor"} /\ feed # "imap" =>
       feedCursor[feed] # Mail!None /\ Covered(feed, 0, feedCursor[feed], position.uid, IF at = "inserting" THEN batch ELSE {})

MailInv == MailShape /\ Told /\ MailCovered /\ SeedingsCounted /\ FeedsCovered

-------------------------------------------------------------------------------
\* An instance has the library's operators by its own name.
LEMMA MailLibrary ==
  /\ \A S : Mail!Cardinality(S) = Cardinality(S)
  /\ \A S : Mail!Max(S) = Max(S)
<1>1. \A S : Mail!Cardinality(S) = Cardinality(S)
  BY DEF Cardinality, Mail!Cardinality
<1>2. \A S : Mail!Max(S) = Max(S)
  BY DEF Max, Mail!Max
<1> QED
  BY <1>1, <1>2

\* The constants are numbers.
LEMMA MailBounds ==
  ASSUME Mail!PollingAssumption
  PROVE  /\ MaxMail \in Nat /\ MaxResets \in Nat /\ MaxFaults \in Nat /\ FetchLimit \in Nat /\ 0 < FetchLimit
         /\ MaxMailboxes \in Nat /\ 1 <= MaxMailboxes /\ MaxTokens \in Nat /\ 1 <= MaxTokens
         /\ \A f \in Feeds : MaxItems[f] \in Nat
         /\ "imap" \notin Feeds /\ Feeds \subseteq {"gmail", "calendar"}
         /\ Feeds # {} => "gmail" \in Feeds /\ "calendar" \in Feeds
  BY DEF Mail!PollingAssumption

\* What is fetched of the mailbox: the messages up to the next position are in hand, or nobody
\* can see them; and the position is one of the mailbox.
LEMMA FetchIs ==
  ASSUME Mail!PollingAssumption, MailShape, Told, Mail!Fetch
  PROVE  /\ position'.uid \in 0 .. MaxMail /\ position'.validity = mailbox.validity
         /\ position' \in [uid : Int, validity : Int]
         /\ dropped \subseteq dropped'
         /\ ~torn => \A u \in cursor.uid + 1 .. position'.uid : <<"imap", mailbox.validity, u>> \in batch' \union dropped'
<1> DEFINE all == (cursor.uid + 1) .. mailbox.last
           uids == Mail!FirstOf(all, FetchLimit)
           Messages(U) == {<<"imap", mailbox.validity, u>> : u \in U}
           End(got) == IF got # {} THEN Max(got) ELSE Max({known.last, cursor.uid})
<1>1. PICK got \in {uids} \union {uids \ {u} : u \in uids} :
        /\ batch' = Messages(got)
        /\ position' = [uid |-> End(got), validity |-> mailbox.validity]
        /\ dropped' = dropped \union
             Messages(IF got # {} \/ uids = {} THEN uids \ got ELSE (cursor.uid + 1) .. End(got))
  BY MailLibrary DEF Mail!Fetch
<1>2. /\ cursor.uid \in 0 .. MaxMail /\ known.last \in 0 .. MaxMail /\ mailbox.last \in 0 .. MaxMail
      /\ MaxMail \in Nat /\ cursor.uid < known.last
  <2>1. /\ cursor.uid # Mail!None /\ cursor.uid < known.last /\ cursor.uid \in Mail!None .. MaxMail
        /\ known.last \in 0 .. MaxMail /\ mailbox.last \in 0 .. MaxMail
    BY DEF Mail!Fetch, Mail!At, MailShape, MailTypes, Told
  <2> QED
    BY <2>1, MailBounds DEF Mail!None
<1>3. uids \subseteq all /\ all \subseteq 0 .. MaxMail /\ got \subseteq uids
  <2>1. uids \subseteq all
    BY DEF Mail!FirstOf
  <2>2. all \subseteq 0 .. MaxMail
    BY <1>2
  <2> HIDE DEF uids, all
  <2>3. got \subseteq uids
    OBVIOUS
  <2> QED
    BY <2>1, <2>2, <2>3
<1>4. got # {} => Max(got) \in got /\ \A k \in got : k <= Max(got)
  <2> HIDE DEF uids, all
  <2>1. MaxMail \in Nat /\ got \in SUBSET (0 .. MaxMail)
    BY <1>2, <1>3
  <2> QED
    BY <2>1, Greatest
<1>5. Max({known.last, cursor.uid}) = known.last
  <2>1. {known.last, cursor.uid} \in SUBSET (0 .. MaxMail)
    BY <1>2
  <2>2. Max({known.last, cursor.uid}) \in {known.last, cursor.uid}
          /\ known.last <= Max({known.last, cursor.uid})
    BY <2>1, <1>2, Greatest
  <2> QED
    BY <2>2, <1>2
<1>6. ASSUME NEW u \in uids, NEW v \in all, v < u PROVE v \in uids
  <2>1. IsFiniteSet(all)
    <3>1. cursor.uid + 1 \in Int /\ mailbox.last \in Int
      BY <1>2
    <3> QED
      BY <3>1, FS_Interval
  <2>2. {w \in all : w < v} \subseteq {w \in all : w < u} /\ {w \in all : w < u} \subseteq all
    BY <1>2, <1>6, <1>3
  <2>3. IsFiniteSet({w \in all : w < u})
    BY <2>1, <2>2, FS_Subset
  <2>4. /\ IsFiniteSet({w \in all : w < v})
        /\ Cardinality({w \in all : w < v}) <= Cardinality({w \in all : w < u})
    BY <2>2, <2>3, FS_Subset
  <2>5. Cardinality({w \in all : w < v}) \in Nat /\ Cardinality({w \in all : w < u}) \in Nat
          /\ FetchLimit \in Nat
    BY <2>3, <2>4, FS_CardinalityType DEF Mail!PollingAssumption
  <2>6. Cardinality({w \in all : w < u}) < FetchLimit
    BY MailLibrary DEF Mail!FirstOf
  <2> HIDE DEF all
  <2>7. Cardinality({w \in all : w < v}) < FetchLimit
    BY <2>4, <2>5, <2>6
  <2> QED
    BY <2>7, MailLibrary DEF Mail!FirstOf
<1>7. End(got) \in 0 .. MaxMail
  BY <1>2, <1>3, <1>4, <1>5
<1>8. ASSUME ~torn, NEW u \in cursor.uid + 1 .. End(got)
      PROVE  u \in got \/ u \in (IF got # {} \/ uids = {} THEN uids \ got ELSE (cursor.uid + 1) .. End(got))
  <2>1. CASE got # {}
    <3>1. Max(got) \in uids /\ u <= Max(got) /\ Max(got) \in 0 .. MaxMail /\ Max(got) <= mailbox.last
      BY <1>2, <1>3, <1>4, <1>8, <2>1
    <3>2. u \in all
      BY <1>2, <1>8, <3>1
    <3> HIDE DEF uids, all
    <3>3. u \in uids
      BY <1>6, <3>1, <3>2, <1>3
    <3> QED
      BY <2>1, <3>3
  <2>2. CASE got = {} /\ uids = {}
    <3>1. cursor.uid + 1 \in all
      BY <1>2, <1>8 DEF Told, Mail!Fetch, Mail!At
    <3>2. {w \in all : w < cursor.uid + 1} = {}
      BY <1>2
    <3>3. cursor.uid + 1 \in uids
      <4>1. Mail!Cardinality({w \in all : w < cursor.uid + 1}) = 0 /\ 0 < FetchLimit
        BY <3>2, FS_EmptySet, MailLibrary, MailBounds
      <4> HIDE DEF all
      <4> QED
        BY <3>1, <4>1 DEF Mail!FirstOf
    <3> QED
      BY <2>2, <3>3
  <2>3. CASE got = {} /\ uids # {}
    BY <2>3, <1>8
  <2> HIDE DEF uids, End
  <2> QED
    BY <2>1, <2>2, <2>3
<1> HIDE DEF uids, End
<1> QED
  <2>1. position' = [uid |-> End(got), validity |-> mailbox.validity] /\ mailbox.validity \in Int
    BY <1>1 DEF MailShape, MailTypes
  <2>2. position'.uid = End(got) /\ position'.validity = mailbox.validity
          /\ position' \in [uid : Int, validity : Int]
    BY <2>1, <1>7
  <2>3. dropped \subseteq dropped'
    BY <1>1
  <2>4. ASSUME ~torn, NEW u \in cursor.uid + 1 .. position'.uid
        PROVE  <<"imap", mailbox.validity, u>> \in batch' \union dropped'
    BY <1>1, <1>8, <2>2, <2>4
  <2> QED
    BY <1>7, <2>2, <2>3, <2>4

LEMMA PlacedStep ==
  ASSUME Mail!PollingAssumption, MailShape, Told, [Mail!Next]_(Mail!vars)
  PROVE  Placed'
<1>1. CASE Mail!Status
  BY <1>1 DEF Mail!Status, Placed, MailAt, Mail!At
<1>2. CASE Mail!Plan
  BY <1>2 DEF Mail!Plan, Mail!PlannedPoll, MailShape, Placed, MailAt, Mail!At, Mail!feedVars
<1>3. CASE Mail!Seed
  BY <1>3 DEF Mail!Seed, MailShape, Placed, MailAt, Mail!At, Mail!feedVars
<1>4. CASE Mail!Fetch
  <2>1. feed = "imap" /\ feed' = feed /\ at' = "inserting"
    BY <1>4 DEF Mail!Fetch, Mail!At, Mail!feedVars, MailShape, Placed
  <2> QED
    BY <2>1 DEF Placed, MailAt
<1>5. CASE Mail!StoreUid
  BY <1>5 DEF Mail!StoreUid, MailShape, Placed, MailAt, Mail!At, Mail!feedVars
<1>6. CASE Mail!StoreValidity
  BY <1>6 DEF Mail!StoreValidity, MailShape, Placed, MailAt, Mail!At, Mail!feedVars
<1>7. CASE Mail!Insert
  BY <1>7 DEF Mail!Insert, MailShape, Placed, Mail!feedVars
<1>8. CASE Mail!Inserted
  BY <1>8 DEF Mail!Inserted, MailShape, Placed, MailAt, Mail!At, Mail!feedVars
<1>9. CASE Mail!PollGoogle
  BY <1>9 DEF Mail!PollGoogle, Placed, MailAt, Mail!PollingAssumption
<1>10. CASE Mail!ClearStatus
  BY <1>10 DEF Mail!ClearStatus, MailShape, Placed, MailAt, Mail!At, Mail!feedVars
<1>11. CASE Mail!ClearToken
  BY <1>11 DEF Mail!ClearToken, MailShape, Placed, MailAt, Mail!At, Mail!PollingAssumption
<1>12. CASE Mail!Refused
  BY <1>12 DEF Mail!Refused, MailShape, Placed, MailAt, Mail!At, Mail!feedVars
<1>13. CASE Mail!PauseToken
  BY <1>13 DEF Mail!PauseToken, MailShape, Placed, MailAt, Mail!At, Mail!feedVars
<1>14. CASE Mail!SeedFeed
  BY <1>14 DEF Mail!SeedFeed, Mail!AfterFeed, Mail!NextFeed, MailShape, Placed, MailAt, Mail!At,
               Mail!PollingAssumption
<1>15. CASE Mail!ResetFeed
  BY <1>15 DEF Mail!ResetFeed, Mail!AfterFeed, Mail!NextFeed, MailShape, Placed, MailAt, Mail!At,
               Mail!PollingAssumption
<1>16. CASE Mail!ListFeed
  BY <1>16 DEF Mail!ListFeed, MailShape, Placed, MailAt, Mail!At, Mail!feedVars
<1>17. CASE Mail!SummaryFails
  BY <1>17 DEF Mail!SummaryFails, MailShape, Placed, Mail!feedVars
<1>18. CASE Mail!StoreCursor
  BY <1>18 DEF Mail!StoreCursor, Mail!AfterFeed, Mail!NextFeed, MailShape, Placed, MailAt, Mail!At,
               Mail!PollingAssumption
<1>19. CASE Mail!PollFails
  BY <1>19 DEF Mail!PollFails, Placed, MailAt
<1>20. CASE Mail!Arrives
  BY <1>20 DEF Mail!Arrives, MailShape, Placed, Mail!feedVars
<1>21. CASE Mail!Replaced
  BY <1>21 DEF Mail!Replaced, MailShape, Placed, Mail!feedVars
<1>22. CASE Mail!Revoked
  BY <1>22 DEF Mail!Revoked, MailShape, Placed, Mail!feedVars
<1>23. CASE Mail!Reconnected
  BY <1>23 DEF Mail!Reconnected, MailShape, Placed, Mail!feedVars
<1>24. CASE Mail!AccessExpires
  BY <1>24 DEF Mail!AccessExpires, MailShape, Placed, Mail!feedVars
<1>25. ASSUME NEW f \in Feeds, Mail!FeedGrows(f) PROVE Placed'
  BY <1>25 DEF Mail!FeedGrows, MailShape, Placed
<1>26. CASE UNCHANGED Mail!vars
  BY <1>26 DEF Mail!vars, MailShape, Placed, Mail!feedVars
<1> QED
  BY <1>1, <1>2, <1>3, <1>4, <1>5, <1>6, <1>7, <1>8, <1>9, <1>10, <1>11, <1>12, <1>13, <1>14, <1>15, <1>16,
     <1>17, <1>18, <1>19, <1>20, <1>21, <1>22, <1>23, <1>24, <1>25, <1>26 DEF Mail!Next, Mail!Poll, Mail!World

LEMMA MailTypesStep ==
  ASSUME Mail!PollingAssumption, MailShape, Told, [Mail!Next]_(Mail!vars)
  PROVE  MailTypes'
<1>1. CASE Mail!Status
  BY <1>1 DEF Mail!Status, MailShape, MailTypes
<1>2. CASE Mail!Plan
  BY <1>2 DEF Mail!Plan, MailShape, MailTypes, Mail!mailVars
<1>3. CASE Mail!Seed
  BY <1>3 DEF Mail!Seed, MailShape, MailTypes, Mail!mailVars
<1>4. CASE Mail!Fetch
  BY <1>4, FetchIs DEF Mail!Fetch, MailShape, MailTypes, Mail!mailVars
<1>5. CASE Mail!StoreUid
  <2>1. position.uid \in 0 .. MaxMail
    BY <1>5 DEF Mail!StoreUid, Mail!At, MailShape, CursorTypes, Storing
  <2>2. position.uid \in Mail!None .. MaxMail
    BY <2>1 DEF Mail!None
  <2>3. cursor' = [cursor EXCEPT !.uid = position.uid] /\ UNCHANGED <<mailbox, known, torn>>
    BY <1>5 DEF Mail!StoreUid
  <2> QED
    BY <2>2, <2>3 DEF MailShape, MailTypes
<1>6. CASE Mail!StoreValidity
  BY <1>6 DEF Mail!StoreValidity, MailShape, MailTypes, CursorTypes, Mail!At, Storing
<1>7. CASE Mail!Insert
  BY <1>7 DEF Mail!Insert, MailShape, MailTypes, Mail!mailVars
<1>8. CASE Mail!Inserted
  BY <1>8 DEF Mail!Inserted, MailShape, MailTypes, Mail!mailVars
<1>9. CASE Mail!PollGoogle
  BY <1>9 DEF Mail!PollGoogle, MailShape, MailTypes, Mail!mailVars
<1>10. CASE Mail!ClearStatus
  BY <1>10 DEF Mail!ClearStatus, MailShape, MailTypes, Mail!mailVars
<1>11. CASE Mail!ClearToken
  BY <1>11 DEF Mail!ClearToken, MailShape, MailTypes, Mail!mailVars
<1>12. CASE Mail!Refused
  BY <1>12 DEF Mail!Refused, MailShape, MailTypes, Mail!mailVars
<1>13. CASE Mail!PauseToken
  BY <1>13 DEF Mail!PauseToken, MailShape, MailTypes, Mail!mailVars
<1>14. CASE Mail!SeedFeed
  BY <1>14 DEF Mail!SeedFeed, MailShape, MailTypes, Mail!mailVars
<1>15. CASE Mail!ResetFeed
  BY <1>15 DEF Mail!ResetFeed, MailShape, MailTypes, Mail!mailVars
<1>16. CASE Mail!ListFeed
  BY <1>16 DEF Mail!ListFeed, MailShape, MailTypes, Mail!mailVars
<1>17. CASE Mail!SummaryFails
  BY <1>17 DEF Mail!SummaryFails, MailShape, MailTypes, Mail!mailVars
<1>18. CASE Mail!StoreCursor
  BY <1>18 DEF Mail!StoreCursor, MailShape, MailTypes, Mail!mailVars
<1>19. CASE Mail!PollFails
  BY <1>19 DEF Mail!PollFails, MailShape, MailTypes, Mail!mailVars
<1>20. CASE Mail!Arrives
  <2>1. mailbox' = [mailbox EXCEPT !.last = mailbox.last + 1] /\ UNCHANGED <<cursor, known, torn>>
    BY <1>20 DEF Mail!Arrives
  <2>2. mailbox.last + 1 \in 0 .. MaxMail
    BY <1>20, MailBounds DEF Mail!Arrives, MailShape, MailTypes
  <2> QED
    BY <2>1, <2>2 DEF MailShape, MailTypes
<1>21. CASE Mail!Replaced
  <2>1. mailbox' = [validity |-> mailbox.validity + 1, last |-> 0] /\ UNCHANGED <<cursor, known>>
    BY <1>21 DEF Mail!Replaced
  <2>2. mailbox.validity + 1 \in 1 .. MaxMailboxes /\ 0 \in 0 .. MaxMail
    BY <1>21, MailBounds DEF Mail!Replaced, MailShape, MailTypes
  <2>3. torn' \in BOOLEAN
    BY <1>21 DEF Mail!Replaced, MailShape, MailTypes
  <2> QED
    BY <2>1, <2>2, <2>3 DEF MailShape, MailTypes
<1>22. CASE Mail!Revoked
  BY <1>22 DEF Mail!Revoked, MailShape, MailTypes, Mail!mailVars
<1>23. CASE Mail!Reconnected
  BY <1>23 DEF Mail!Reconnected, MailShape, MailTypes, Mail!mailVars
<1>24. CASE Mail!AccessExpires
  BY <1>24 DEF Mail!AccessExpires, MailShape, MailTypes, Mail!mailVars
<1>25. ASSUME NEW f \in Feeds, Mail!FeedGrows(f) PROVE MailTypes'
  BY <1>25 DEF Mail!FeedGrows, MailShape, MailTypes, Mail!mailVars
<1>26. CASE UNCHANGED Mail!vars
  BY <1>26 DEF Mail!vars, MailShape, MailTypes, Mail!mailVars
<1> QED
  BY <1>1, <1>2, <1>3, <1>4, <1>5, <1>6, <1>7, <1>8, <1>9, <1>10, <1>11, <1>12, <1>13, <1>14, <1>15, <1>16,
     <1>17, <1>18, <1>19, <1>20, <1>21, <1>22, <1>23, <1>24, <1>25, <1>26 DEF Mail!Next, Mail!Poll, Mail!World

LEMMA CursorTypesStep ==
  ASSUME Mail!PollingAssumption, MailShape, Told, [Mail!Next]_(Mail!vars)
  PROVE  CursorTypes'
<1>1. CASE Mail!Status
  BY <1>1 DEF Mail!Status, MailShape, CursorTypes, Mail!At, Mail!storeVars, Storing
<1>2. CASE Mail!Plan
  BY <1>2 DEF Mail!Plan, Mail!PlannedPoll, MailShape, CursorTypes, Mail!At, Mail!storeVars, Storing
<1>3. CASE Mail!Seed
  <2>1. position' = [uid |-> mailbox.last, validity |-> mailbox.validity]
    BY <1>3 DEF Mail!Seed
  <2>2. mailbox.last \in 0 .. MaxMail /\ mailbox.validity \in 1 .. MaxMailboxes
    BY DEF MailShape, MailTypes
  <2>3. position' \in [uid : Int, validity : Int] /\ position'.uid \in 0 .. MaxMail
          /\ position'.validity \in 1 .. MaxMailboxes
    BY <2>1, <2>2
  <2>4. at' = "storing_uid"
    BY <1>3 DEF Mail!Seed, Mail!At
  <2> QED
    BY <2>3, <2>4 DEF CursorTypes
<1>4. CASE Mail!Fetch
  BY <1>4, FetchIs DEF Mail!Fetch, MailShape, Placed, MailTypes, CursorTypes, Mail!At, Mail!feedVars
<1>5. CASE Mail!StoreUid
  BY <1>5 DEF Mail!StoreUid, MailShape, CursorTypes, Mail!At, Mail!storeVars, Storing
<1>6. CASE Mail!StoreValidity
  <2>1. position' = Mail!Nowhere
    BY <1>6 DEF Mail!StoreValidity
  <2>2. position' \in [uid : Int, validity : Int]
    BY <2>1 DEF Mail!Nowhere, Mail!None
  <2>3. at' \in {"idle", "polling"}
    BY <1>6 DEF Mail!StoreValidity, Mail!At
  <2> QED
    BY <2>2, <2>3 DEF CursorTypes, Storing
<1>7. CASE Mail!Insert
  BY <1>7 DEF Mail!Insert, MailShape, CursorTypes, Mail!feedVars, Storing
<1>8. CASE Mail!Inserted
  BY <1>8 DEF Mail!Inserted, MailShape, CursorTypes, Mail!At, Mail!feedVars, Mail!storeVars, Storing
<1>9. CASE Mail!PollGoogle
  BY <1>9 DEF Mail!PollGoogle, MailShape, CursorTypes, Mail!storeVars, Storing
<1>10. CASE Mail!ClearStatus
  BY <1>10 DEF Mail!ClearStatus, MailShape, CursorTypes, Mail!At, Mail!storeVars, Storing
<1>11. CASE Mail!ClearToken
  BY <1>11 DEF Mail!ClearToken, MailShape, CursorTypes, Mail!At, Mail!storeVars, Storing
<1>12. CASE Mail!Refused
  BY <1>12 DEF Mail!Refused, MailShape, CursorTypes, Mail!At, Mail!storeVars, Storing
<1>13. CASE Mail!PauseToken
  BY <1>13 DEF Mail!PauseToken, MailShape, CursorTypes, Mail!At, Mail!storeVars, Storing
<1>14. CASE Mail!SeedFeed
  BY <1>14 DEF Mail!SeedFeed, Mail!AfterFeed, MailShape, CursorTypes, Mail!At, Mail!storeVars, Storing
<1>15. CASE Mail!ResetFeed
  BY <1>15 DEF Mail!ResetFeed, Mail!AfterFeed, MailShape, CursorTypes, Mail!At, Mail!storeVars, Storing
<1>16. CASE Mail!ListFeed
  BY <1>16 DEF Mail!ListFeed, MailShape, Placed, CursorTypes, FeedTypes, Mail!At, Mail!feedVars, Storing
<1>17. CASE Mail!SummaryFails
  BY <1>17 DEF Mail!SummaryFails, MailShape, CursorTypes, Mail!feedVars, Storing
<1>18. CASE Mail!StoreCursor
  <2>1. position' = Mail!Nowhere
    BY <1>18 DEF Mail!StoreCursor
  <2>2. position' \in [uid : Int, validity : Int]
    BY <2>1 DEF Mail!Nowhere, Mail!None
  <2>3. at' \in {"idle", "polling"}
    BY <1>18 DEF Mail!StoreCursor, Mail!At, Mail!AfterFeed
  <2> QED
    BY <2>2, <2>3 DEF CursorTypes, Storing
<1>19. CASE Mail!PollFails
  <2>1. position' = Mail!Nowhere
    BY <1>19 DEF Mail!PollFails
  <2>2. position' \in [uid : Int, validity : Int]
    BY <2>1 DEF Mail!Nowhere, Mail!None
  <2>3. at' \in {"idle", "polling"}
    BY <1>19 DEF Mail!PollFails, Mail!At
  <2> QED
    BY <2>2, <2>3 DEF CursorTypes, Storing
<1>20. CASE Mail!Arrives
  BY <1>20 DEF Mail!Arrives, MailShape, CursorTypes, Mail!feedVars, Mail!storeVars, Storing
<1>21. CASE Mail!Replaced
  BY <1>21 DEF Mail!Replaced, MailShape, CursorTypes, Mail!feedVars, Mail!storeVars, Storing
<1>22. CASE Mail!Revoked
  BY <1>22 DEF Mail!Revoked, MailShape, CursorTypes, Mail!feedVars, Mail!storeVars, Storing
<1>23. CASE Mail!Reconnected
  BY <1>23 DEF Mail!Reconnected, MailShape, CursorTypes, Mail!feedVars, Mail!storeVars, Storing
<1>24. CASE Mail!AccessExpires
  BY <1>24 DEF Mail!AccessExpires, MailShape, CursorTypes, Mail!feedVars, Mail!storeVars, Storing
<1>25. ASSUME NEW f \in Feeds, Mail!FeedGrows(f) PROVE CursorTypes'
  <2>1. items' = [items EXCEPT ![f] = items[f] + 1] /\ UNCHANGED <<at, feed, position, feedCursor>>
          /\ items[f] < MaxItems[f]
    BY <1>25 DEF Mail!FeedGrows, Mail!feedVars, Mail!storeVars
  <2>2. items \in [Feeds -> Nat] /\ feedCursor \in [Feeds -> Int]
    BY DEF MailShape, FeedTypes
  <2>3. items' \in [Feeds -> Nat] /\ items'[f] = items[f] + 1 /\ \A g \in Feeds : g # f => items'[g] = items[g]
    BY <2>1, <2>2
  <2>4. \A g \in Feeds : items[g] <= items'[g] /\ items'[g] \in Nat /\ items[g] \in Nat
    BY <2>2, <2>3
  <2>5. /\ position.uid \in Int /\ (feed # "imap" => feed \in Feeds)
        /\ at \in {"inserting", "storing_cursor"} /\ feed # "imap" => 0 <= position.uid
             /\ position.uid <= items[feed]
    BY DEF MailShape, CursorTypes, Placed
  <2>6. at \in {"inserting", "storing_cursor"} /\ feed # "imap" => 0 <= position.uid
          /\ position.uid <= items'[feed]
    BY <2>4, <2>5
  <2> QED
    BY <2>1, <2>6 DEF MailShape, CursorTypes, Storing
<1>26. CASE UNCHANGED Mail!vars
  BY <1>26 DEF Mail!vars, MailShape, CursorTypes, Mail!feedVars, Mail!storeVars, Storing
<1> QED
  BY <1>1, <1>2, <1>3, <1>4, <1>5, <1>6, <1>7, <1>8, <1>9, <1>10, <1>11, <1>12, <1>13, <1>14, <1>15, <1>16,
     <1>17, <1>18, <1>19, <1>20, <1>21, <1>22, <1>23, <1>24, <1>25, <1>26 DEF Mail!Next, Mail!Poll, Mail!World

LEMMA SeedTypesStep ==
  ASSUME Mail!PollingAssumption, MailShape, Told, [Mail!Next]_(Mail!vars)
  PROVE  SeedTypes'
<1>1. CASE Mail!Status
  BY <1>1 DEF Mail!Status, MailShape, SeedTypes, Mail!seedVars
<1>2. CASE Mail!Plan
  BY <1>2 DEF Mail!Plan, MailShape, SeedTypes, Mail!seedVars
<1>3. CASE Mail!Seed
  <2>1. /\ seeded' = [seeded EXCEPT !["imap"] = mailbox.last] /\ seedings' = seedings + 1
        /\ mailbox.last \in Nat /\ "imap" \in Mail!Sources
    BY <1>3 DEF Mail!Seed, MailShape, MailTypes, Mail!Sources
  <2>2. seeded \in [Mail!Sources -> Int] /\ \A s \in Mail!Sources : seeded[s] >= Mail!None
    BY DEF MailShape, SeedTypes
  <2>3. \A s \in Mail!Sources : seeded'[s] = IF s = "imap" THEN mailbox.last ELSE seeded[s]
    BY <2>1, <2>2
  <2>4. seeded' \in [Mail!Sources -> Int] /\ \A s \in Mail!Sources : seeded'[s] >= Mail!None
    BY <2>1, <2>2, <2>3 DEF Mail!None
  <2> QED
    BY <2>1, <2>4 DEF SeedTypes, MailShape
<1>4. CASE Mail!Fetch
  BY <1>4, FetchIs DEF Mail!Fetch, MailShape, SeedTypes
<1>5. CASE Mail!StoreUid
  BY <1>5 DEF Mail!StoreUid, MailShape, SeedTypes, Mail!seedVars
<1>6. CASE Mail!StoreValidity
  BY <1>6 DEF Mail!StoreValidity, MailShape, SeedTypes, Mail!seedVars
<1>7. CASE Mail!Insert
  BY <1>7 DEF Mail!Insert, MailShape, SeedTypes, Mail!seedVars
<1>8. CASE Mail!Inserted
  BY <1>8 DEF Mail!Inserted, MailShape, SeedTypes, Mail!seedVars
<1>9. CASE Mail!PollGoogle
  BY <1>9 DEF Mail!PollGoogle, MailShape, SeedTypes, Mail!seedVars
<1>10. CASE Mail!ClearStatus
  BY <1>10 DEF Mail!ClearStatus, MailShape, SeedTypes, Mail!seedVars
<1>11. CASE Mail!ClearToken
  BY <1>11 DEF Mail!ClearToken, MailShape, SeedTypes, Mail!seedVars
<1>12. CASE Mail!Refused
  BY <1>12 DEF Mail!Refused, MailShape, SeedTypes, Mail!seedVars
<1>13. CASE Mail!PauseToken
  BY <1>13 DEF Mail!PauseToken, MailShape, SeedTypes, Mail!seedVars
<1>14. CASE Mail!SeedFeed
  BY <1>14 DEF Mail!SeedFeed, MailShape, Placed, SeedTypes, FeedTypes, Mail!Sources
<1>15. CASE Mail!ResetFeed
  BY <1>15 DEF Mail!ResetFeed, MailShape, SeedTypes
<1>16. CASE Mail!ListFeed
  BY <1>16 DEF Mail!ListFeed, MailShape, SeedTypes, Mail!seedVars
<1>17. CASE Mail!SummaryFails
  BY <1>17 DEF Mail!SummaryFails, MailShape, SeedTypes
<1>18. CASE Mail!StoreCursor
  BY <1>18 DEF Mail!StoreCursor, MailShape, SeedTypes, Mail!seedVars
<1>19. CASE Mail!PollFails
  BY <1>19 DEF Mail!PollFails, MailShape, SeedTypes, Mail!seedVars
<1>20. CASE Mail!Arrives
  BY <1>20 DEF Mail!Arrives, MailShape, SeedTypes, Mail!seedVars
<1>21. CASE Mail!Replaced
  BY <1>21 DEF Mail!Replaced, MailShape, SeedTypes, Mail!seedVars
<1>22. CASE Mail!Revoked
  BY <1>22 DEF Mail!Revoked, MailShape, SeedTypes, Mail!seedVars
<1>23. CASE Mail!Reconnected
  BY <1>23 DEF Mail!Reconnected, MailShape, SeedTypes, Mail!seedVars
<1>24. CASE Mail!AccessExpires
  BY <1>24 DEF Mail!AccessExpires, MailShape, SeedTypes, Mail!seedVars
<1>25. ASSUME NEW f \in Feeds, Mail!FeedGrows(f) PROVE SeedTypes'
  BY <1>25 DEF Mail!FeedGrows, MailShape, SeedTypes, Mail!seedVars
<1>26. CASE UNCHANGED Mail!vars
  BY <1>26 DEF Mail!vars, MailShape, SeedTypes, Mail!seedVars
<1> QED
  BY <1>1, <1>2, <1>3, <1>4, <1>5, <1>6, <1>7, <1>8, <1>9, <1>10, <1>11, <1>12, <1>13, <1>14, <1>15, <1>16,
     <1>17, <1>18, <1>19, <1>20, <1>21, <1>22, <1>23, <1>24, <1>25, <1>26 DEF Mail!Next, Mail!Poll, Mail!World

LEMMA FeedTypesStep ==
  ASSUME Mail!PollingAssumption, MailShape, Told, [Mail!Next]_(Mail!vars)
  PROVE  FeedTypes'
<1>1. CASE Mail!Status
  BY <1>1 DEF Mail!Status, MailShape, FeedTypes
<1>2. CASE Mail!Plan
  BY <1>2 DEF Mail!Plan, MailShape, FeedTypes, Mail!feedVars
<1>3. CASE Mail!Seed
  BY <1>3 DEF Mail!Seed, MailShape, FeedTypes, Mail!feedVars
<1>4. CASE Mail!Fetch
  BY <1>4, FetchIs DEF Mail!Fetch, MailShape, FeedTypes, Mail!feedVars
<1>5. CASE Mail!StoreUid
  BY <1>5 DEF Mail!StoreUid, MailShape, FeedTypes, Mail!feedVars
<1>6. CASE Mail!StoreValidity
  BY <1>6 DEF Mail!StoreValidity, MailShape, FeedTypes, Mail!feedVars
<1>7. CASE Mail!Insert
  BY <1>7 DEF Mail!Insert, MailShape, FeedTypes, Mail!feedVars
<1>8. CASE Mail!Inserted
  BY <1>8 DEF Mail!Inserted, MailShape, FeedTypes, Mail!feedVars
<1>9. CASE Mail!PollGoogle
  BY <1>9 DEF Mail!PollGoogle, MailShape, FeedTypes
<1>10. CASE Mail!ClearStatus
  BY <1>10 DEF Mail!ClearStatus, MailShape, FeedTypes, Mail!feedVars
<1>11. CASE Mail!ClearToken
  BY <1>11 DEF Mail!ClearToken, MailShape, FeedTypes
<1>12. CASE Mail!Refused
  BY <1>12 DEF Mail!Refused, MailShape, FeedTypes, Mail!feedVars
<1>13. CASE Mail!PauseToken
  BY <1>13 DEF Mail!PauseToken, MailShape, FeedTypes, Mail!feedVars
<1>14. CASE Mail!SeedFeed
  BY <1>14 DEF Mail!SeedFeed, MailShape, Placed, FeedTypes
<1>15. CASE Mail!ResetFeed
  BY <1>15 DEF Mail!ResetFeed, MailShape, Placed, FeedTypes, Mail!None
<1>16. CASE Mail!ListFeed
  BY <1>16 DEF Mail!ListFeed, MailShape, FeedTypes, Mail!feedVars
<1>17. CASE Mail!SummaryFails
  BY <1>17 DEF Mail!SummaryFails, MailShape, FeedTypes, Mail!feedVars
<1>18. CASE Mail!StoreCursor
  <2>1. feed \in Feeds /\ position.uid \in Int /\ 0 <= position.uid /\ position.uid <= items[feed]
    BY <1>18 DEF Mail!StoreCursor, Mail!At, MailShape, Placed, CursorTypes
  <2>2. feedCursor' = [feedCursor EXCEPT ![feed] = position.uid] /\ items' = items
    BY <1>18 DEF Mail!StoreCursor
  <2>3. Mail!None <= position.uid
    BY <2>1 DEF Mail!None
  <2>4. items \in [Feeds -> Nat] /\ feedCursor \in [Feeds -> Int]
          /\ \A g \in Feeds : items[g] <= MaxItems[g] /\ Mail!None <= feedCursor[g] /\ feedCursor[g] <= items[g]
    BY DEF MailShape, FeedTypes
  <2>5. \A g \in Feeds : feedCursor'[g] = IF g = feed THEN position.uid ELSE feedCursor[g]
    BY <2>2, <2>4
  <2>6. feedCursor' \in [Feeds -> Int]
    BY <2>1, <2>2, <2>4
  <2> QED
    BY <2>1, <2>2, <2>3, <2>4, <2>5, <2>6 DEF FeedTypes
<1>19. CASE Mail!PollFails
  BY <1>19 DEF Mail!PollFails, MailShape, FeedTypes
<1>20. CASE Mail!Arrives
  BY <1>20 DEF Mail!Arrives, MailShape, FeedTypes, Mail!feedVars
<1>21. CASE Mail!Replaced
  BY <1>21 DEF Mail!Replaced, MailShape, FeedTypes, Mail!feedVars
<1>22. CASE Mail!Revoked
  BY <1>22 DEF Mail!Revoked, MailShape, FeedTypes, Mail!feedVars
<1>23. CASE Mail!Reconnected
  BY <1>23 DEF Mail!Reconnected, MailShape, FeedTypes, Mail!feedVars
<1>24. CASE Mail!AccessExpires
  BY <1>24 DEF Mail!AccessExpires, MailShape, FeedTypes, Mail!feedVars
<1>25. ASSUME NEW f \in Feeds, Mail!FeedGrows(f) PROVE FeedTypes'
  <2>1. items' = [items EXCEPT ![f] = items[f] + 1] /\ UNCHANGED <<at, feed, position, feedCursor>>
          /\ items[f] < MaxItems[f]
    BY <1>25 DEF Mail!FeedGrows, Mail!feedVars, Mail!storeVars
  <2>2. items \in [Feeds -> Nat] /\ feedCursor \in [Feeds -> Int]
    BY DEF MailShape, FeedTypes
  <2>3. items' \in [Feeds -> Nat] /\ items'[f] = items[f] + 1 /\ \A g \in Feeds : g # f => items'[g] = items[g]
    BY <2>1, <2>2
  <2>4. \A g \in Feeds : items[g] <= MaxItems[g] /\ Mail!None <= feedCursor[g] /\ feedCursor[g] <= items[g]
    BY DEF MailShape, FeedTypes
  <2>5. ASSUME NEW g \in Feeds PROVE items'[g] <= MaxItems[g] /\ feedCursor[g] <= items'[g]
    <3>1. MaxItems[g] \in Nat /\ items[g] \in Nat /\ feedCursor[g] \in Int
      BY <2>2, MailBounds
    <3> QED
      BY <3>1, <2>1, <2>3, <2>4
  <2> QED
    BY <2>1, <2>2, <2>3, <2>4, <2>5 DEF FeedTypes
<1>26. CASE UNCHANGED Mail!vars
  BY <1>26 DEF Mail!vars, MailShape, FeedTypes, Mail!feedVars
<1> QED
  BY <1>1, <1>2, <1>3, <1>4, <1>5, <1>6, <1>7, <1>8, <1>9, <1>10, <1>11, <1>12, <1>13, <1>14, <1>15, <1>16,
     <1>17, <1>18, <1>19, <1>20, <1>21, <1>22, <1>23, <1>24, <1>25, <1>26 DEF Mail!Next, Mail!Poll, Mail!World

LEMMA AccountTypesStep ==
  ASSUME Mail!PollingAssumption, MailShape, Told, [Mail!Next]_(Mail!vars)
  PROVE  AccountTypes'
<1>1. CASE Mail!Status
  BY <1>1 DEF Mail!Status, MailShape, AccountTypes, Mail!accountVars
<1>2. CASE Mail!Plan
  BY <1>2 DEF Mail!Plan, MailShape, AccountTypes, Mail!accountVars
<1>3. CASE Mail!Seed
  BY <1>3 DEF Mail!Seed, MailShape, AccountTypes, Mail!accountVars
<1>4. CASE Mail!Fetch
  BY <1>4, FetchIs DEF Mail!Fetch, MailShape, AccountTypes, Mail!accountVars
<1>5. CASE Mail!StoreUid
  BY <1>5 DEF Mail!StoreUid, MailShape, AccountTypes, Mail!accountVars
<1>6. CASE Mail!StoreValidity
  BY <1>6 DEF Mail!StoreValidity, MailShape, AccountTypes, Mail!accountVars
<1>7. CASE Mail!Insert
  BY <1>7 DEF Mail!Insert, MailShape, AccountTypes, Mail!accountVars
<1>8. CASE Mail!Inserted
  BY <1>8 DEF Mail!Inserted, MailShape, AccountTypes, Mail!accountVars
<1>9. CASE Mail!PollGoogle
  BY <1>9 DEF Mail!PollGoogle, MailShape, AccountTypes
<1>10. CASE Mail!ClearStatus
  BY <1>10 DEF Mail!ClearStatus, MailShape, AccountTypes
<1>11. CASE Mail!ClearToken
  <2>1. account' = account /\ pausedFor' \in 0 .. MaxTokens /\ cached' \in BOOLEAN
    BY <1>11, MailBounds DEF Mail!ClearToken, Mail!At, MailShape, AccountTypes, Mail!accountVars
  <2>2. current' \in 1 .. MaxTokens /\ snapshot' \in 1 .. MaxTokens /\ revoked' \in Nat /\ revoked' <= current'
    BY <1>11, MailBounds DEF Mail!ClearToken, Mail!At, MailShape, AccountTypes, Mail!accountVars
  <2>3. faults' \in 0 .. MaxFaults /\ resets' \in 0 .. MaxResets
    BY <1>11, MailBounds DEF Mail!ClearToken, Mail!At, MailShape, AccountTypes, Mail!accountVars
  <2> QED
    BY <2>1, <2>2, <2>3 DEF AccountTypes, MailShape
<1>12. CASE Mail!Refused
  BY <1>12 DEF Mail!Refused, MailShape, AccountTypes
<1>13. CASE Mail!PauseToken
  <2>1. account' = account /\ pausedFor' = snapshot /\ cached' = FALSE
          /\ UNCHANGED <<current, snapshot, revoked, faults, resets>>
    BY <1>13 DEF Mail!PauseToken
  <2>2. snapshot \in 1 .. MaxTokens /\ MaxTokens \in Nat
    BY MailBounds DEF MailShape, AccountTypes
  <2>3. snapshot \in 0 .. MaxTokens
    BY <2>2
  <2> QED
    BY <2>1, <2>3 DEF AccountTypes, MailShape
<1>14. CASE Mail!SeedFeed
  BY <1>14 DEF Mail!SeedFeed, MailShape, AccountTypes
<1>15. CASE Mail!ResetFeed
  BY <1>15 DEF Mail!ResetFeed, MailShape, AccountTypes, Mail!PollingAssumption
<1>16. CASE Mail!ListFeed
  BY <1>16 DEF Mail!ListFeed, MailShape, AccountTypes
<1>17. CASE Mail!SummaryFails
  BY <1>17 DEF Mail!SummaryFails, MailShape, AccountTypes, Mail!PollingAssumption, Mail!accountVars
<1>18. CASE Mail!StoreCursor
  BY <1>18 DEF Mail!StoreCursor, MailShape, AccountTypes, Mail!accountVars
<1>19. CASE Mail!PollFails
  <2>1. account' = account /\ pausedFor' \in 0 .. MaxTokens /\ cached' \in BOOLEAN
    BY <1>19, MailBounds DEF Mail!PollFails, Mail!At, MailShape, AccountTypes, Mail!accountVars
  <2>2. current' \in 1 .. MaxTokens /\ snapshot' \in 1 .. MaxTokens /\ revoked' \in Nat /\ revoked' <= current'
    BY <1>19, MailBounds DEF Mail!PollFails, Mail!At, MailShape, AccountTypes, Mail!accountVars
  <2>3. faults' \in 0 .. MaxFaults /\ resets' \in 0 .. MaxResets
    BY <1>19, MailBounds DEF Mail!PollFails, Mail!At, MailShape, AccountTypes, Mail!accountVars
  <2> QED
    BY <2>1, <2>2, <2>3 DEF AccountTypes, MailShape
<1>20. CASE Mail!Arrives
  BY <1>20 DEF Mail!Arrives, MailShape, AccountTypes, Mail!accountVars
<1>21. CASE Mail!Replaced
  BY <1>21 DEF Mail!Replaced, MailShape, AccountTypes, Mail!accountVars
<1>22. CASE Mail!Revoked
  <2>1. account' = account /\ pausedFor' \in 0 .. MaxTokens /\ cached' \in BOOLEAN
    BY <1>22, MailBounds DEF Mail!Revoked, Mail!At, MailShape, AccountTypes, Mail!accountVars
  <2>2. current' \in 1 .. MaxTokens /\ snapshot' \in 1 .. MaxTokens /\ revoked' \in Nat /\ revoked' <= current'
    BY <1>22, MailBounds DEF Mail!Revoked, Mail!At, MailShape, AccountTypes, Mail!accountVars
  <2>3. faults' \in 0 .. MaxFaults /\ resets' \in 0 .. MaxResets
    BY <1>22, MailBounds DEF Mail!Revoked, Mail!At, MailShape, AccountTypes, Mail!accountVars
  <2> QED
    BY <2>1, <2>2, <2>3 DEF AccountTypes, MailShape
<1>23. CASE Mail!Reconnected
  <2>1. account' = account /\ pausedFor' \in 0 .. MaxTokens /\ cached' \in BOOLEAN
    BY <1>23, MailBounds DEF Mail!Reconnected, Mail!At, MailShape, AccountTypes, Mail!accountVars
  <2>2. current' \in 1 .. MaxTokens /\ snapshot' \in 1 .. MaxTokens /\ revoked' \in Nat /\ revoked' <= current'
    BY <1>23, MailBounds DEF Mail!Reconnected, Mail!At, MailShape, AccountTypes, Mail!accountVars
  <2>3. faults' \in 0 .. MaxFaults /\ resets' \in 0 .. MaxResets
    BY <1>23, MailBounds DEF Mail!Reconnected, Mail!At, MailShape, AccountTypes, Mail!accountVars
  <2> QED
    BY <2>1, <2>2, <2>3 DEF AccountTypes, MailShape
<1>24. CASE Mail!AccessExpires
  BY <1>24 DEF Mail!AccessExpires, MailShape, AccountTypes
<1>25. ASSUME NEW f \in Feeds, Mail!FeedGrows(f) PROVE AccountTypes'
  BY <1>25 DEF Mail!FeedGrows, MailShape, AccountTypes, Mail!accountVars
<1>26. CASE UNCHANGED Mail!vars
  BY <1>26 DEF Mail!vars, MailShape, AccountTypes, Mail!accountVars
<1> QED
  BY <1>1, <1>2, <1>3, <1>4, <1>5, <1>6, <1>7, <1>8, <1>9, <1>10, <1>11, <1>12, <1>13, <1>14, <1>15, <1>16,
     <1>17, <1>18, <1>19, <1>20, <1>21, <1>22, <1>23, <1>24, <1>25, <1>26 DEF Mail!Next, Mail!Poll, Mail!World

LEMMA ToldStep ==
  ASSUME Mail!PollingAssumption, MailShape, Told, [Mail!Next]_(Mail!vars)
  PROVE  Told'
<1>1. CASE Mail!Status
  BY <1>1 DEF Mail!Status, MailShape, MailTypes, Told, Mail!At, Storing
<1>2. CASE Mail!Plan
  BY <1>2 DEF Mail!Plan, Mail!PlannedPoll, MailShape, MailTypes, Told, Stale, Mail!At, Mail!mailVars, Storing
<1>3. CASE Mail!Seed
  BY <1>3 DEF Mail!Seed, MailShape, MailTypes, Told, Mail!At, Mail!mailVars
<1>4. CASE Mail!Fetch
  BY <1>4, FetchIs DEF Mail!Fetch, MailShape, MailTypes, Told, Mail!At, Mail!mailVars
<1>5. CASE Mail!StoreUid
  BY <1>5 DEF Mail!StoreUid, Told, Mail!At, Mail!storeVars, Storing
<1>6. CASE Mail!StoreValidity
  BY <1>6 DEF Mail!StoreValidity, Told, Mail!At, Storing
<1>7. CASE Mail!Insert
  BY <1>7 DEF Mail!Insert, Told, Mail!mailVars, Mail!feedVars, Storing
<1>8. CASE Mail!Inserted
  BY <1>8 DEF Mail!Inserted, Told, Mail!At, Mail!mailVars, Mail!storeVars, Storing
<1>9. CASE Mail!PollGoogle
  BY <1>9 DEF Mail!PollGoogle, Told, Mail!mailVars, Storing
<1>10. CASE Mail!ClearStatus
  BY <1>10 DEF Mail!ClearStatus, Told, Mail!At, Mail!mailVars, Storing
<1>11. CASE Mail!ClearToken
  BY <1>11 DEF Mail!ClearToken, Told, Mail!At, Mail!mailVars, Storing
<1>12. CASE Mail!Refused
  BY <1>12 DEF Mail!Refused, Told, Mail!At, Mail!mailVars, Storing
<1>13. CASE Mail!PauseToken
  BY <1>13 DEF Mail!PauseToken, Told, Mail!At, Mail!mailVars, Storing
<1>14. CASE Mail!SeedFeed
  BY <1>14 DEF Mail!SeedFeed, Mail!AfterFeed, Told, Mail!At, Mail!mailVars, Storing
<1>15. CASE Mail!ResetFeed
  BY <1>15 DEF Mail!ResetFeed, Mail!AfterFeed, Told, Mail!At, Mail!mailVars, Storing
<1>16. CASE Mail!ListFeed
  BY <1>16 DEF Mail!ListFeed, Told, Mail!At, Mail!mailVars, Mail!feedVars, Storing
<1>17. CASE Mail!SummaryFails
  BY <1>17 DEF Mail!SummaryFails, Told, Mail!mailVars, Mail!feedVars, Storing
<1>18. CASE Mail!StoreCursor
  BY <1>18 DEF Mail!StoreCursor, Mail!AfterFeed, Told, Mail!At, Mail!mailVars, Storing
<1>19. CASE Mail!PollFails
  BY <1>19 DEF Mail!PollFails, Told, Mail!mailVars, Storing
<1>20. CASE Mail!Arrives
  BY <1>20 DEF Mail!Arrives, MailShape, MailTypes, Told, Stale, Mail!feedVars, Mail!storeVars, Storing
<1>21. CASE Mail!Replaced
  <2>1. /\ mailbox' = [validity |-> mailbox.validity + 1, last |-> 0]
        /\ UNCHANGED <<at, known, cursor, feed, position, batch, events, seeded, dropped>>
        /\ torn' = (torn \/ at # "idle" \/ (cursor.uid # Mail!None /\ cursor.validity = Mail!None))
    BY <1>21 DEF Mail!Replaced, Mail!feedVars, Mail!storeVars, Mail!seedVars
  <2>2. mailbox'.validity = mailbox.validity + 1
    BY <2>1
  <2>3. mailbox.validity \in 1 .. MaxMailboxes /\ cursor.validity \in {Mail!None} \union 1 .. MaxMailboxes
    BY DEF MailShape, MailTypes
  <2>4. known.validity \in 1 .. MaxMailboxes /\ position.validity \in Int /\ MaxMailboxes \in Nat
    BY MailBounds DEF MailShape, MailTypes, CursorTypes
  <2>5. Storing' = Storing /\ (Storing => at # "idle")
    BY <2>1 DEF Storing
  <2>6. cursor.validity <= mailbox.validity /\ cursor.validity < mailbox.validity + 1
    BY <2>3, <2>4 DEF Told, Mail!None
  <2>7. Stale => Stale'
    BY <2>1, <2>2, <2>6 DEF Stale
  <2>8. at \in {"planning", "seeding", "fetching"} =>
          cursor.validity <= known.validity /\ known.validity <= mailbox.validity + 1
    BY <2>3, <2>4 DEF Told
  <2>9. Storing => position.validity <= mailbox.validity + 1
    BY <2>3, <2>4 DEF Told
  <2>10. cursor.validity <= mailbox.validity + 1
    BY <2>3, <2>4, <2>6 DEF Mail!None
  <2> QED
    BY <2>1, <2>2, <2>5, <2>7, <2>8, <2>9, <2>10 DEF Told
<1>22. CASE Mail!Revoked
  BY <1>22 DEF Mail!Revoked, Told, Stale, Mail!mailVars, Mail!feedVars, Mail!storeVars, Storing
<1>23. CASE Mail!Reconnected
  BY <1>23 DEF Mail!Reconnected, Told, Stale, Mail!mailVars, Mail!feedVars, Mail!storeVars, Storing
<1>24. CASE Mail!AccessExpires
  BY <1>24 DEF Mail!AccessExpires, Told, Stale, Mail!mailVars, Mail!feedVars, Mail!storeVars, Storing
<1>25. ASSUME NEW f \in Feeds, Mail!FeedGrows(f) PROVE Told'
  BY <1>25 DEF Mail!FeedGrows, Told, Stale, Mail!mailVars, Mail!storeVars, Storing
<1>26. CASE UNCHANGED Mail!vars
  BY <1>26 DEF Mail!vars, Told, Stale, Mail!mailVars, Mail!feedVars, Mail!storeVars, Storing
<1> QED
  BY <1>1, <1>2, <1>3, <1>4, <1>5, <1>6, <1>7, <1>8, <1>9, <1>10, <1>11, <1>12, <1>13, <1>14, <1>15, <1>16,
     <1>17, <1>18, <1>19, <1>20, <1>21, <1>22, <1>23, <1>24, <1>25, <1>26 DEF Mail!Next, Mail!Poll, Mail!World

LEMMA CoveredStep ==
  ASSUME Mail!PollingAssumption, MailShape, Told, MailCovered, [Mail!Next]_(Mail!vars)
  PROVE  MailCovered'
<1>1. CASE Mail!Status
  BY <1>1 DEF Mail!Status, Mail!At, Mail!storeVars, Mail!seedVars, MailCovered, Covered, Storing
<1>2. CASE Mail!Plan
  BY <1>2 DEF Mail!Plan, Mail!PlannedPoll, Mail!At, Mail!mailVars, Mail!storeVars, Mail!seedVars, MailCovered,
              Covered, Storing
<1>3. CASE Mail!Seed
  BY <1>3 DEF Mail!Seed, MailShape, MailTypes, SeedTypes, Told, Stale, Mail!Sources, Mail!At, Mail!mailVars,
              MailCovered, Covered
<1>4. CASE Mail!Fetch
  <2>1. /\ at = "fetching" /\ at' = "inserting" /\ feed' = feed /\ feed = "imap"
        /\ UNCHANGED <<mailbox, cursor, torn, events, seeded>>
    BY <1>4 DEF Mail!Fetch, Mail!At, Mail!mailVars, Mail!feedVars, Mail!seedVars, MailShape, Placed
  <2>2. /\ dropped \subseteq dropped' /\ position'.uid \in Int
        /\ ~torn => \A u \in cursor.uid + 1 .. position'.uid : <<"imap", mailbox.validity, u>> \in batch' \union dropped'
    BY <1>4, FetchIs
  <2>3. ~torn => cursor.uid # Mail!None /\ cursor.validity \in {Mail!None, mailbox.validity}
    BY <2>1 DEF Told
  <2>4. ~torn => Covered("imap", mailbox.validity, seeded["imap"], cursor.uid, {})
    BY <2>1, <2>3 DEF MailCovered
  <2>5. cursor.uid \in Int /\ seeded["imap"] \in Int
    BY MailBounds DEF MailShape, MailTypes, SeedTypes, Mail!Sources, Mail!None
  <2>6. ASSUME ~torn, NEW u \in seeded["imap"] + 1 .. position'.uid
        PROVE  <<"imap", mailbox.validity, u>> \in events \union dropped' \union batch'
    <3>1. CASE u <= cursor.uid
      BY <3>1, <2>2, <2>4, <2>5, <2>6 DEF Covered
    <3>2. CASE ~(u <= cursor.uid)
      <4>1. u \in cursor.uid + 1 .. position'.uid
        BY <3>2, <2>2, <2>5
      <4> QED
        BY <4>1, <2>2, <2>6
    <3> QED
      BY <3>1, <3>2
  <2>7. ~torn => Covered("imap", mailbox.validity, seeded["imap"], cursor.uid, {})'
    BY <2>1, <2>2, <2>4 DEF Covered
  <2> QED
    BY <2>1, <2>6, <2>7 DEF MailCovered, Covered, Storing
<1>5. CASE Mail!StoreUid
  BY <1>5 DEF Mail!StoreUid, Mail!At, Mail!storeVars, Mail!seedVars, MailCovered, Covered, Storing
<1>6. CASE Mail!StoreValidity
  BY <1>6 DEF Mail!StoreValidity, Mail!At, Mail!seedVars, MailCovered, Covered, Storing
<1>7. CASE Mail!Insert
  BY <1>7 DEF Mail!Insert, Mail!mailVars, Mail!feedVars, Mail!seedVars, MailCovered, Covered, Storing
<1>8. CASE Mail!Inserted
  BY <1>8 DEF Mail!Inserted, Mail!At, Mail!mailVars, Mail!storeVars, Mail!seedVars, MailCovered, Covered,
              Storing
<1>9. CASE Mail!PollGoogle
  BY <1>9 DEF Mail!PollGoogle, Mail!mailVars, Mail!storeVars, Mail!seedVars, MailCovered, Covered, Storing
<1>10. CASE Mail!ClearStatus
  BY <1>10 DEF Mail!ClearStatus, Mail!At, Mail!mailVars, Mail!storeVars, Mail!seedVars, MailCovered, Covered,
               Storing
<1>11. CASE Mail!ClearToken
  BY <1>11 DEF Mail!ClearToken, Mail!At, Mail!mailVars, Mail!storeVars, Mail!seedVars, MailCovered, Covered,
               Storing
<1>12. CASE Mail!Refused
  BY <1>12 DEF Mail!Refused, Mail!At, Mail!mailVars, Mail!storeVars, Mail!seedVars, MailCovered, Covered,
               Storing
<1>13. CASE Mail!PauseToken
  BY <1>13 DEF Mail!PauseToken, Mail!At, Mail!mailVars, Mail!storeVars, Mail!seedVars, MailCovered, Covered,
               Storing
<1>14. CASE Mail!SeedFeed
  BY <1>14 DEF Mail!SeedFeed, Mail!AfterFeed, Mail!At, Mail!mailVars, Mail!storeVars, MailCovered, Covered,
               Storing
<1>15. CASE Mail!ResetFeed
  BY <1>15 DEF Mail!ResetFeed, Mail!AfterFeed, Mail!At, Mail!mailVars, Mail!storeVars, MailCovered, Covered,
               Storing
<1>16. CASE Mail!ListFeed
  BY <1>16 DEF Mail!ListFeed, Mail!At, Mail!mailVars, Mail!feedVars, Mail!seedVars, MailCovered, Covered,
               Storing
<1>17. CASE Mail!SummaryFails
  BY <1>17 DEF Mail!SummaryFails, Mail!mailVars, Mail!feedVars, MailCovered, Covered, Storing
<1>18. CASE Mail!StoreCursor
  BY <1>18 DEF Mail!StoreCursor, Mail!AfterFeed, Mail!At, Mail!mailVars, Mail!seedVars, MailCovered, Covered,
               Storing
<1>19. CASE Mail!PollFails
  BY <1>19 DEF Mail!PollFails, Mail!mailVars, Mail!seedVars, MailCovered, Covered, Storing
<1>20. CASE Mail!Arrives
  BY <1>20 DEF Mail!Arrives, Mail!feedVars, Mail!storeVars, Mail!seedVars, MailCovered, Covered, Storing
<1>21. CASE Mail!Replaced
  <2>1. /\ mailbox' = [validity |-> mailbox.validity + 1, last |-> 0]
        /\ UNCHANGED <<at, known, cursor, feed, position, batch, events, seeded, dropped>>
        /\ torn' = (torn \/ at # "idle" \/ (cursor.uid # Mail!None /\ cursor.validity = Mail!None))
    BY <1>21 DEF Mail!Replaced, Mail!feedVars, Mail!storeVars, Mail!seedVars
  <2>2. mailbox'.validity = mailbox.validity + 1
    BY <2>1
  <2>3. mailbox.validity \in 1 .. MaxMailboxes /\ cursor.validity \in {Mail!None} \union 1 .. MaxMailboxes
    BY DEF MailShape, MailTypes
  <2>4. cursor.validity <= mailbox.validity /\ MaxMailboxes \in Nat
    BY MailBounds DEF Told
  <2>5. cursor.validity # mailbox.validity + 1
    BY <2>3, <2>4 DEF Mail!None
  <2>6. Storing' = Storing /\ (Storing => at # "idle")
    BY <2>1 DEF Storing
  <2> QED
    BY <2>1, <2>2, <2>5, <2>6 DEF MailCovered
<1>22. CASE Mail!Revoked
  BY <1>22 DEF Mail!Revoked, Mail!mailVars, Mail!feedVars, Mail!storeVars, Mail!seedVars, MailCovered,
               Covered, Storing
<1>23. CASE Mail!Reconnected
  BY <1>23 DEF Mail!Reconnected, Mail!mailVars, Mail!feedVars, Mail!storeVars, Mail!seedVars, MailCovered,
               Covered, Storing
<1>24. CASE Mail!AccessExpires
  BY <1>24 DEF Mail!AccessExpires, Mail!mailVars, Mail!feedVars, Mail!storeVars, Mail!seedVars, MailCovered,
               Covered, Storing
<1>25. ASSUME NEW f \in Feeds, Mail!FeedGrows(f) PROVE MailCovered'
  BY <1>25 DEF Mail!FeedGrows, Mail!mailVars, Mail!storeVars, Mail!seedVars, MailCovered, Covered, Storing
<1>26. CASE UNCHANGED Mail!vars
  BY <1>26 DEF Mail!vars, Mail!mailVars, Mail!feedVars, Mail!storeVars, Mail!seedVars, MailCovered, Covered,
               Storing
<1> QED
  BY <1>1, <1>2, <1>3, <1>4, <1>5, <1>6, <1>7, <1>8, <1>9, <1>10, <1>11, <1>12, <1>13, <1>14, <1>15, <1>16,
     <1>17, <1>18, <1>19, <1>20, <1>21, <1>22, <1>23, <1>24, <1>25, <1>26 DEF Mail!Next, Mail!Poll, Mail!World

LEMMA SeedingsStep ==
  ASSUME Mail!PollingAssumption, MailShape, Told, MailCovered, SeedingsCounted, [Mail!Next]_(Mail!vars)
  PROVE  SeedingsCounted'
<1>1. CASE Mail!Status
  BY <1>1 DEF Mail!Status, Stale, Mail!At, Mail!seedVars, SeedingsCounted, Storing
<1>2. CASE Mail!Plan
  BY <1>2 DEF Mail!Plan, Mail!PlannedPoll, Stale, Mail!At, Mail!mailVars, Mail!seedVars, SeedingsCounted,
              Storing
<1>3. CASE Mail!Seed
  BY <1>3 DEF Mail!Seed, MailShape, MailTypes, SeedTypes, AccountTypes, Told, Mail!At, Mail!mailVars,
              SeedingsCounted
<1>4. CASE Mail!Fetch
  BY <1>4, FetchIs DEF Mail!Fetch, MailShape, MailTypes, Stale, Mail!At, Mail!mailVars, SeedingsCounted
<1>5. CASE Mail!StoreUid
  BY <1>5 DEF Mail!StoreUid, Mail!At, Mail!storeVars, Mail!seedVars, SeedingsCounted, Storing
<1>6. CASE Mail!StoreValidity
  <2>1. /\ at = "storing_validity" /\ at' = "idle" /\ cursor' = [cursor EXCEPT !.validity = position.validity]
        /\ UNCHANGED <<mailbox, seedings, faults>>
    BY <1>6 DEF Mail!StoreValidity, Mail!At, Mail!seedVars
  <2>2. cursor'.uid = cursor.uid /\ cursor'.validity = position.validity
    BY <2>1 DEF MailShape, MailTypes
  <2>3. cursor.uid = position.uid /\ position.uid \in 0 .. MaxMail /\ Storing
    BY <2>1 DEF MailCovered, MailShape, CursorTypes, Storing
  <2>4. cursor'.uid # Mail!None
    BY <2>2, <2>3 DEF Mail!None
  <2>5. Stale' => position.validity < mailbox.validity
    BY <2>1, <2>2, <2>4 DEF Stale
  <2>6. ~Storing'
    BY <2>1 DEF Storing
  <2> QED
    BY <2>1, <2>3, <2>5, <2>6 DEF SeedingsCounted
<1>7. CASE Mail!Insert
  BY <1>7 DEF Mail!Insert, Stale, Mail!mailVars, Mail!feedVars, Mail!seedVars, SeedingsCounted, Storing
<1>8. CASE Mail!Inserted
  BY <1>8 DEF Mail!Inserted, Stale, Mail!At, Mail!mailVars, Mail!storeVars, Mail!seedVars, SeedingsCounted,
              Storing
<1>9. CASE Mail!PollGoogle
  BY <1>9 DEF Mail!PollGoogle, Stale, Mail!mailVars, Mail!seedVars, SeedingsCounted, Storing
<1>10. CASE Mail!ClearStatus
  BY <1>10 DEF Mail!ClearStatus, Stale, Mail!At, Mail!mailVars, Mail!seedVars, SeedingsCounted, Storing
<1>11. CASE Mail!ClearToken
  BY <1>11 DEF Mail!ClearToken, Stale, Mail!At, Mail!mailVars, Mail!seedVars, SeedingsCounted, Storing
<1>12. CASE Mail!Refused
  BY <1>12 DEF Mail!Refused, Stale, Mail!At, Mail!mailVars, Mail!seedVars, SeedingsCounted, Storing
<1>13. CASE Mail!PauseToken
  BY <1>13 DEF Mail!PauseToken, Stale, Mail!At, Mail!mailVars, Mail!seedVars, SeedingsCounted, Storing
<1>14. CASE Mail!SeedFeed
  BY <1>14 DEF Mail!SeedFeed, Mail!AfterFeed, Stale, Mail!At, Mail!mailVars, SeedingsCounted, Storing
<1>15. CASE Mail!ResetFeed
  BY <1>15 DEF Mail!ResetFeed, Mail!AfterFeed, Stale, Mail!At, Mail!mailVars, SeedingsCounted, Storing
<1>16. CASE Mail!ListFeed
  BY <1>16 DEF Mail!ListFeed, Stale, Mail!At, Mail!mailVars, Mail!feedVars, Mail!seedVars, SeedingsCounted,
               Storing
<1>17. CASE Mail!SummaryFails
  BY <1>17 DEF Mail!SummaryFails, MailShape, MailTypes, SeedTypes, AccountTypes, Mail!mailVars,
               SeedingsCounted
<1>18. CASE Mail!StoreCursor
  BY <1>18 DEF Mail!StoreCursor, Mail!AfterFeed, Stale, Mail!At, Mail!mailVars, Mail!seedVars,
               SeedingsCounted, Storing
<1>19. CASE Mail!PollFails
  BY <1>19 DEF Mail!PollFails, MailShape, MailTypes, SeedTypes, AccountTypes, Mail!mailVars, Mail!seedVars,
               SeedingsCounted
<1>20. CASE Mail!Arrives
  BY <1>20 DEF Mail!Arrives, Stale, Mail!feedVars, Mail!storeVars, Mail!seedVars, SeedingsCounted, Storing
<1>21. CASE Mail!Replaced
  BY <1>21 DEF Mail!Replaced, MailShape, MailTypes, SeedTypes, AccountTypes, Mail!seedVars, SeedingsCounted
<1>22. CASE Mail!Revoked
  BY <1>22 DEF Mail!Revoked, Stale, Mail!mailVars, Mail!feedVars, Mail!storeVars, Mail!seedVars,
               SeedingsCounted, Storing
<1>23. CASE Mail!Reconnected
  BY <1>23 DEF Mail!Reconnected, Stale, Mail!mailVars, Mail!feedVars, Mail!storeVars, Mail!seedVars,
               SeedingsCounted, Storing
<1>24. CASE Mail!AccessExpires
  BY <1>24 DEF Mail!AccessExpires, Stale, Mail!mailVars, Mail!feedVars, Mail!storeVars, Mail!seedVars,
               SeedingsCounted, Storing
<1>25. ASSUME NEW f \in Feeds, Mail!FeedGrows(f) PROVE SeedingsCounted'
  BY <1>25 DEF Mail!FeedGrows, Stale, Mail!mailVars, Mail!storeVars, Mail!seedVars, SeedingsCounted, Storing
<1>26. CASE UNCHANGED Mail!vars
  BY <1>26 DEF Mail!vars, Stale, Mail!mailVars, Mail!feedVars, Mail!storeVars, Mail!seedVars, SeedingsCounted,
               Storing
<1> QED
  BY <1>1, <1>2, <1>3, <1>4, <1>5, <1>6, <1>7, <1>8, <1>9, <1>10, <1>11, <1>12, <1>13, <1>14, <1>15, <1>16,
     <1>17, <1>18, <1>19, <1>20, <1>21, <1>22, <1>23, <1>24, <1>25, <1>26 DEF Mail!Next, Mail!Poll, Mail!World

LEMMA FeedsStep ==
  ASSUME Mail!PollingAssumption, MailShape, Told, FeedsCovered, [Mail!Next]_(Mail!vars)
  PROVE  FeedsCovered'
<1>1. CASE Mail!Status
  BY <1>1 DEF Mail!Status, Mail!storeVars, Mail!seedVars, FeedsCovered, Covered
<1>2. CASE Mail!Plan
  BY <1>2 DEF Mail!Plan, Mail!PlannedPoll, Mail!At, Mail!feedVars, Mail!storeVars, Mail!seedVars,
              FeedsCovered, Covered
<1>3. CASE Mail!Seed
  BY <1>3 DEF Mail!Seed, Mail!At, Mail!PollingAssumption, Mail!feedVars, FeedsCovered, Covered
<1>4. CASE Mail!Fetch
  BY <1>4, FetchIs DEF Mail!Fetch, MailShape, Placed, Mail!At, Mail!feedVars, FeedsCovered, Covered
<1>5. CASE Mail!StoreUid
  BY <1>5 DEF Mail!StoreUid, Mail!At, Mail!feedVars, Mail!storeVars, Mail!seedVars, FeedsCovered, Covered
<1>6. CASE Mail!StoreValidity
  BY <1>6 DEF Mail!StoreValidity, Mail!At, Mail!feedVars, Mail!seedVars, FeedsCovered, Covered
<1>7. CASE Mail!Insert
  BY <1>7 DEF Mail!Insert, Mail!feedVars, Mail!seedVars, FeedsCovered, Covered
<1>8. CASE Mail!Inserted
  BY <1>8 DEF Mail!Inserted, Mail!At, Mail!feedVars, Mail!storeVars, Mail!seedVars, FeedsCovered, Covered
<1>9. CASE Mail!PollGoogle
  BY <1>9 DEF Mail!PollGoogle, Mail!storeVars, Mail!seedVars, FeedsCovered, Covered
<1>10. CASE Mail!ClearStatus
  BY <1>10 DEF Mail!ClearStatus, Mail!At, Mail!feedVars, Mail!storeVars, Mail!seedVars, FeedsCovered, Covered
<1>11. CASE Mail!ClearToken
  BY <1>11 DEF Mail!ClearToken, Mail!At, Mail!storeVars, Mail!seedVars, FeedsCovered, Covered
<1>12. CASE Mail!Refused
  BY <1>12 DEF Mail!Refused, Mail!At, Mail!feedVars, Mail!storeVars, Mail!seedVars, FeedsCovered, Covered
<1>13. CASE Mail!PauseToken
  BY <1>13 DEF Mail!PauseToken, Mail!At, Mail!feedVars, Mail!storeVars, Mail!seedVars, FeedsCovered, Covered
<1>14. CASE Mail!SeedFeed
  BY <1>14 DEF Mail!SeedFeed, Mail!AfterFeed, MailShape, SeedTypes, FeedTypes, Mail!Sources, Mail!At,
               Mail!storeVars, FeedsCovered, Covered
<1>15. CASE Mail!ResetFeed
  BY <1>15 DEF Mail!ResetFeed, Mail!AfterFeed, MailShape, FeedTypes, Mail!At, Mail!storeVars, FeedsCovered,
               Covered
<1>16. CASE Mail!ListFeed
  BY <1>16 DEF Mail!ListFeed, Mail!At, Mail!feedVars, Mail!seedVars, FeedsCovered, Covered
<1>17. CASE Mail!SummaryFails
  BY <1>17 DEF Mail!SummaryFails, Mail!feedVars, FeedsCovered, Covered
<1>18. CASE Mail!StoreCursor
  BY <1>18 DEF Mail!StoreCursor, Mail!AfterFeed, MailShape, Placed, FeedTypes, Mail!At, Mail!seedVars,
               FeedsCovered, Covered
<1>19. CASE Mail!PollFails
  BY <1>19 DEF Mail!PollFails, Mail!seedVars, FeedsCovered, Covered
<1>20. CASE Mail!Arrives
  BY <1>20 DEF Mail!Arrives, Mail!feedVars, Mail!storeVars, Mail!seedVars, FeedsCovered, Covered
<1>21. CASE Mail!Replaced
  BY <1>21 DEF Mail!Replaced, Mail!feedVars, Mail!storeVars, Mail!seedVars, FeedsCovered, Covered
<1>22. CASE Mail!Revoked
  BY <1>22 DEF Mail!Revoked, Mail!feedVars, Mail!storeVars, Mail!seedVars, FeedsCovered, Covered
<1>23. CASE Mail!Reconnected
  BY <1>23 DEF Mail!Reconnected, Mail!feedVars, Mail!storeVars, Mail!seedVars, FeedsCovered, Covered
<1>24. CASE Mail!AccessExpires
  BY <1>24 DEF Mail!AccessExpires, Mail!feedVars, Mail!storeVars, Mail!seedVars, FeedsCovered, Covered
<1>25. ASSUME NEW f \in Feeds, Mail!FeedGrows(f) PROVE FeedsCovered'
  BY <1>25 DEF Mail!FeedGrows, Mail!storeVars, Mail!seedVars, FeedsCovered, Covered
<1>26. CASE UNCHANGED Mail!vars
  BY <1>26 DEF Mail!vars, Mail!feedVars, Mail!storeVars, Mail!seedVars, FeedsCovered, Covered
<1> QED
  BY <1>1, <1>2, <1>3, <1>4, <1>5, <1>6, <1>7, <1>8, <1>9, <1>10, <1>11, <1>12, <1>13, <1>14, <1>15, <1>16,
     <1>17, <1>18, <1>19, <1>20, <1>21, <1>22, <1>23, <1>24, <1>25, <1>26 DEF Mail!Next, Mail!Poll, Mail!World


LEMMA MailInit ==
  ASSUME Mail!PollingAssumption, Mail!Init
  PROVE  MailInv
<1> USE MailBounds DEF Mail!Init
<1>1. mailbox.validity = 1 /\ mailbox.last = 0 /\ known = mailbox /\ cursor.uid = Mail!None
        /\ cursor.validity = Mail!None
      /\ position.uid = Mail!None /\ position.validity = Mail!None
  BY DEF Mail!Nowhere
<1>2. Placed
  BY DEF Placed, MailAt
<1>3. MailTypes
  <2>1. 1 \in 1 .. MaxMailboxes /\ 0 \in 0 .. MaxMail /\ Mail!None \in Mail!None .. MaxMail
    BY DEF Mail!None
  <2>2. mailbox \in [validity : 1 .. MaxMailboxes, last : 0 .. MaxMail]
    BY <2>1
  <2> QED
    BY <2>1, <2>2 DEF MailTypes, Mail!Nowhere
<1>4. CursorTypes
  BY DEF CursorTypes, Mail!Nowhere, Mail!None, Storing
<1>5. SeedTypes
  BY DEF SeedTypes, Mail!None
<1>6. FeedTypes
  BY DEF FeedTypes, Mail!None
<1>7. AccountTypes
  <2>1. 1 \in 1 .. MaxTokens /\ 0 \in 0 .. MaxTokens /\ 0 \in 0 .. MaxFaults /\ 0 \in 0 .. MaxResets
    OBVIOUS
  <2>2. cached \in BOOLEAN
    OBVIOUS
  <2>3. /\ current = 1 /\ revoked = 0 /\ snapshot = 1
        /\ account = "active" /\ pausedFor = 0 /\ resets = 0 /\ faults = 0
    OBVIOUS
  <2> HIDE DEF Mail!Init
  <2> QED
    BY <2>1, <2>2, <2>3 DEF AccountTypes
<1>8. Told
  BY <1>1 DEF Told, Storing, Mail!None
<1>9. MailCovered
  BY <1>1 DEF MailCovered, Storing
<1>10. SeedingsCounted
  BY <1>1 DEF SeedingsCounted, Storing
<1>11. FeedsCovered
  BY DEF FeedsCovered
<1> QED
  BY <1>2, <1>3, <1>4, <1>5, <1>6, <1>7, <1>8, <1>9, <1>10, <1>11 DEF MailInv, MailShape

LEMMA MailStep ==
  ASSUME Mail!PollingAssumption, MailInv, [Mail!Next]_(Mail!vars)
  PROVE  MailInv'
  BY PlacedStep, MailTypesStep, CursorTypesStep, SeedTypesStep, FeedTypesStep, AccountTypesStep,
     ToldStep, CoveredStep, SeedingsStep, FeedsStep DEF MailInv, MailShape

LEMMA MailIsKept ==
  Mail!PollingAssumption /\ Mail!Spec => []MailInv
<1> SUFFICES ASSUME Mail!PollingAssumption PROVE Mail!Spec => []MailInv
  OBVIOUS
<1>1. Mail!Init => MailInv
  BY MailInit
<1>2. MailInv /\ [Mail!Next]_(Mail!vars) => MailInv'
  BY MailStep
<1> QED
  BY <1>1, <1>2, PTL DEF Mail!Spec

\* The variables of the pollers have their types.
THEOREM MailTyped ==
  Mail!PollingAssumption /\ Mail!Spec => []Mail!TypeOK
<1> SUFFICES ASSUME Mail!PollingAssumption PROVE Mail!Spec => []Mail!TypeOK
  OBVIOUS
<1>1. ASSUME MailInv PROVE Mail!TypeOK
  <2>1. at \in MailAt /\ feed \in {"imap", "gmail", "calendar"}
    BY <1>1, MailBounds DEF MailInv, MailShape, Placed
  <2>2. /\ mailbox \in [validity : 1 .. MaxMailboxes, last : 0 .. MaxMail]
        /\ known \in [validity : 1 .. MaxMailboxes, last : 0 .. MaxMail]
        /\ cursor.uid \in Mail!None .. MaxMail /\ cursor.validity \in {Mail!None} \union 1 .. MaxMailboxes
    BY <1>1 DEF MailInv, MailShape, MailTypes
  <2>3. \A f \in Feeds : feedCursor[f] \in Mail!None .. items[f] /\ items[f] \in 0 .. MaxItems[f]
    BY <1>1, MailBounds DEF MailInv, MailShape, FeedTypes, Mail!None
  <2>4. /\ account \in {"active", "paused"} /\ pausedFor \in 0 .. MaxTokens
        /\ revoked <= current /\ current <= MaxTokens
        /\ faults \in 0 .. MaxFaults /\ resets \in 0 .. MaxResets
    BY <1>1, MailBounds DEF MailInv, MailShape, AccountTypes
  <2> QED
    BY <2>1, <2>2, <2>3, <2>4 DEF Mail!TypeOK, MailAt
<1>2. MailInv => Mail!TypeOK
  BY <1>1
<1>3. Mail!Spec => []MailInv
  BY MailIsKept
<1> QED
  BY <1>2, <1>3, PTL

\* No cursor of the mailbox or of a feed passes a message that was not stored as an event, whatever
\* arrives, is replaced or fails between two steps of a poll; and the cursor begins anew only for a
\* mailbox that was replaced, or after a failure.
THEOREM NoMailIsPassed ==
  Mail!PollingAssumption /\ Mail!Spec => []MailKept
<1> SUFFICES ASSUME Mail!PollingAssumption PROVE Mail!Spec => []MailKept
  OBVIOUS
<1>1. ASSUME MailInv PROVE MailKept
  <2>1. ASSUME ~torn, cursor.validity = mailbox.validity, NEW u \in seeded["imap"] + 1 .. cursor.uid
        PROVE  <<"imap", mailbox.validity, u>> \in events \union dropped
    <3>1. cursor.uid \in Mail!None .. MaxMail /\ seeded["imap"] \in Int /\ seeded["imap"] >= Mail!None
      BY <1>1 DEF MailInv, MailShape, MailTypes, SeedTypes, Mail!Sources
    <3>2. cursor.uid # Mail!None
      BY <3>1, <2>1, MailBounds, <1>1 DEF Mail!None
    <3>3. Covered("imap", mailbox.validity, seeded["imap"], cursor.uid, {})
      <4>1. CASE at = "storing_validity"
        BY <1>1, <2>1, <4>1 DEF MailInv, MailCovered, Storing
      <4>2. CASE at # "storing_validity"
        BY <1>1, <2>1, <3>2, <4>2 DEF MailInv, MailCovered
      <4> QED
        BY <4>1, <4>2
    <3> QED
      BY <2>1, <3>3 DEF Covered
  <2>2. seedings <= mailbox.validity + faults
    BY <1>1 DEF MailInv, SeedingsCounted
  <2>3. \A f \in Feeds : feedCursor[f] # Mail!None =>
          \A i \in (seeded[f] + 1) .. feedCursor[f] : <<f, 0, i>> \in events \union dropped
    BY <1>1 DEF MailInv, FeedsCovered, Covered
  <2> QED
    BY <2>1, <2>2, <2>3 DEF MailKept, Mail!NoMailPassed
<1>2. MailInv => MailKept
  BY <1>1
<1>3. Mail!Spec => []MailInv
  BY MailIsKept
<1> QED
  BY <1>2, <1>3, PTL

-------------------------------------------------------------------------------
(* Sums over a finite set *)

OneOf(s) == CHOOSE x \in s : TRUE
\* What the sum over a set is, when sums has that of the smaller ones.
SumFrom(f, sums, s) == IF s = {} THEN 0 ELSE f[OneOf(s)] + sums[s \ {OneOf(s)}]

LEMMA SumIsFold ==
  ASSUME NEW S, NEW f
  PROVE  Out!SumFunctionOnSet(f, S) = (CHOOSE sums : sums = [s \in SUBSET S |-> SumFrom(f, sums, s)])[S]
  BY DEF Out!SumFunctionOnSet, Out!FoldFunctionOnSet, Out!MapThenFoldSet, SumFrom, OneOf

LEMMA SumIs ==
  ASSUME NEW S, IsFiniteSet(S), NEW f, \A n \in S : f[n] \in Nat
  PROVE  \E sums : /\ \A s \in SUBSET S : sums[s] = SumFrom(f, sums, s)
                   /\ Out!SumFunctionOnSet(f, S) = sums[S]
<1> DEFINE pick == [s \in SUBSET S |-> OneOf(s)]
           go == [n \in S |-> [v \in Nat |-> f[n] + v]]
<1>1. Picks(pick, S)
  BY DEF Picks, OneOf
<1>2. go \in [S -> [Nat -> Nat]]
  OBVIOUS
<1>3. PICK some \in [SUBSET S -> Nat] : \A s \in SUBSET S : Fold(some, S, pick, 0, go, s)
  <2> HIDE DEF pick, go
  <2> QED
    BY <1>1, <1>2, FoldExists
<1>4. some = [s \in SUBSET S |-> SumFrom(f, some, s)]
  <2>1. ASSUME NEW s \in SUBSET S PROVE some[s] = SumFrom(f, some, s)
    <3>1. CASE s = {}
      BY <1>3, <3>1 DEF Fold, SumFrom
    <3>2. CASE s # {}
      <4>1. pick[s] = OneOf(s) /\ OneOf(s) \in s /\ OneOf(s) \in S
        BY <1>1, <3>2 DEF Picks
      <4>2. some[s \ {OneOf(s)}] \in Nat
        BY <1>3
      <4>3. some[s] = go[OneOf(s)][some[s \ {OneOf(s)}]]
        <5> HIDE DEF pick, go
        <5> QED
          BY <1>3, <3>2, <4>1 DEF Fold
      <4> QED
        BY <3>2, <4>1, <4>2, <4>3 DEF SumFrom
    <3> QED
      BY <3>1, <3>2
  <2> QED
    BY <2>1
<1> DEFINE sums == CHOOSE sums : sums = [s \in SUBSET S |-> SumFrom(f, sums, s)]
<1>5. sums = [s \in SUBSET S |-> SumFrom(f, sums, s)]
  BY <1>4
<1>6. Out!SumFunctionOnSet(f, S) = sums[S]
  BY SumIsFold
<1> HIDE DEF sums
<1>7. \A s \in SUBSET S : sums[s] = SumFrom(f, sums, s)
  BY <1>5
<1> QED
  BY <1>6, <1>7

\* Taking elements out one by one.
LEMMA PickedOut ==
  ASSUME NEW S, IsFiniteSet(S), NEW B \in SUBSET SUBSET S,
         \A s \in B : s # {} /\ s \ {OneOf(s)} \in B
  PROVE  B = {}
<1>1. \A s \in B : \E x \in s : s \ {x} \in B
  <2> SUFFICES ASSUME NEW s \in B PROVE OneOf(s) \in s /\ s \ {OneOf(s)} \in B
    OBVIOUS
  <2> QED
    BY DEF OneOf
<1> QED
  BY <1>1, NoSmallest

\* A change at one place changes the sum by as much.
LEMMA SumChanges ==
  ASSUME NEW S, IsFiniteSet(S), NEW f \in [S -> Nat], NEW g \in [S -> Nat], NEW m, NEW d \in Nat,
         \A n \in S : g[n] <= f[n] + IF n = m THEN d ELSE 0
  PROVE  Out!SumFunctionOnSet(f, S) \in Nat /\ Out!SumFunctionOnSet(g, S) \in Nat /\ Out!SumFunctionOnSet(g, S) <= Out!SumFunctionOnSet(f, S) + d
<1>1. PICK F : (\A s \in SUBSET S : F[s] = SumFrom(f, F, s)) /\ Out!SumFunctionOnSet(f, S) = F[S]
  BY SumIs
<1>2. PICK G : (\A s \in SUBSET S : G[s] = SumFrom(g, G, s)) /\ Out!SumFunctionOnSet(g, S) = G[S]
  BY SumIs
<1> DEFINE Good(s) == F[s] \in Nat /\ G[s] \in Nat /\ G[s] <= F[s] + IF m \in s THEN d ELSE 0
           B == {s \in SUBSET S : ~Good(s)}
<1>3. ASSUME NEW s \in SUBSET S, s = {} \/ Good(s \ {OneOf(s)}) PROVE Good(s)
  <2>1. CASE s = {}
    <3>1. F[s] = 0 /\ G[s] = 0
      BY <1>1, <1>2, <2>1 DEF SumFrom
    <3>2. m \notin s
      BY <2>1
    <3> QED
      BY <3>1, <3>2
  <2>2. CASE s # {}
    <3> DEFINE x == OneOf(s)
               t == s \ {x}
    <3>1. x \in s /\ x \in S
      BY <2>2 DEF OneOf
    <3>2. F[s] = f[x] + F[t] /\ G[s] = g[x] + G[t]
      BY <1>1, <1>2, <2>2 DEF SumFrom
    <3>3. F[t] \in Nat /\ G[t] \in Nat /\ G[t] <= F[t] + IF m \in t THEN d ELSE 0
      BY <1>3, <2>2
    <3>4. f[x] \in Nat /\ g[x] \in Nat /\ g[x] <= f[x] + IF x = m THEN d ELSE 0
      BY <3>1
    <3>5. (m \in s) <=> (m \in t \/ x = m)
      BY <3>1
    <3>6. x = m => m \notin t
      OBVIOUS
    <3> HIDE DEF x, t
    <3> QED
      BY <3>2, <3>3, <3>4, <3>5, <3>6
  <2> QED
    BY <2>1, <2>2
<1> HIDE DEF Good
<1>4. \A s \in B : s # {} /\ s \ {OneOf(s)} \in B
  BY <1>3
<1>5. B = {}
  BY <1>4, PickedOut
<1>6. Good(S)
  BY <1>5
<1>7. (IF m \in S THEN d ELSE 0) \in Nat /\ (IF m \in S THEN d ELSE 0) <= d
  OBVIOUS
<1> QED
  BY <1>1, <1>2, <1>6, <1>7 DEF Good

LEMMA SumOfNothing ==
  ASSUME NEW S, IsFiniteSet(S), NEW f, \A n \in S : f[n] = 0
  PROVE  Out!SumFunctionOnSet(f, S) = 0
<1>1. PICK F : (\A s \in SUBSET S : F[s] = SumFrom(f, F, s)) /\ Out!SumFunctionOnSet(f, S) = F[S]
  BY SumIs
<1> DEFINE B == {s \in SUBSET S : F[s] # 0}
<1>2. ASSUME NEW s \in B PROVE s # {} /\ s \ {OneOf(s)} \in B
  <2>1. s \in SUBSET S /\ F[s] = SumFrom(f, F, s) /\ F[s] # 0
    BY <1>1
  <2>2. s # {}
    BY <2>1 DEF SumFrom
  <2>3. OneOf(s) \in s /\ f[OneOf(s)] = 0
    BY <2>1, <2>2 DEF OneOf
  <2>4. F[s \ {OneOf(s)}] # 0
    <3> SUFFICES ASSUME F[s \ {OneOf(s)}] = 0 PROVE FALSE
      OBVIOUS
    <3> QED
      BY <2>1, <2>2, <2>3 DEF SumFrom
  <2> QED
    BY <2>1, <2>2, <2>4
<1>3. B = {}
  BY <1>2, PickedOut
<1> QED
  BY <1>1, <1>3

-------------------------------------------------------------------------------
(* The outbox and the heartbeat *)

OutShape == Out!TypeOK /\ beats \in Nat /\ faults \in Nat /\ crashes \in Nat

\* The list and the note at work
AtWork ==
  /\ statement \in {"none", "next"} <=> inHand = "none"
  /\ statement # "none" => stage = "outbox"
  /\ \A n \in notes : n # inHand /\ note[n] = "pending"
  /\ statement \in {"starting", "telling", "posting", "marking", "failing"} => note[inHand] = "pending"
  /\ statement = "closing" => note[inHand] \in {"sent", "failed"}
  /\ (statement \in {"posting", "marking"} /\ inHand \in Linked) => told[inHand] > 0
  /\ (statement = "marking" /\ inHand \notin Recorded) => shown[inHand] > 0

NoteTold(n) ==
  /\ note[n] = "sent" => (n \in Linked => told[n] > 0) /\ (n \notin Recorded => shown[n] > 0)
  /\ note[n] = "absent" => told[n] = 0 /\ shown[n] = 0
  /\ deliveryRun[n] = "completed" => note[n] = "sent"
  /\ deliveryRun[n] = "failed" => note[n] = "failed"

\* How often a note was told, and stored, without the delivery that counts: the one that was
\* marked, or that is under way.
Beyond(times, counts) == IF counts /\ times > 0 THEN times - 1 ELSE times
ToldAgain ==
  [n \in Notes |-> Beyond(told[n], note[n] = "sent" \/ (inHand = n /\ statement \in {"posting", "marking"}))]
ShownAgain == [n \in Notes |-> Beyond(shown[n], note[n] = "sent" \/ (inHand = n /\ statement = "marking"))]
Repeats == Out!SumFunctionOnSet(ToldAgain, Notes) <= faults + crashes /\ Out!SumFunctionOnSet(ShownAgain, Notes) <= faults + crashes

\* A slot that was taken and not used yet counts.
Paced == evaluated + (IF beat = "taken" THEN 1 ELSE 0) <= beats + (IF taken THEN 1 ELSE 0)

OutInv == OutShape /\ AtWork /\ (\A n \in Notes : NoteTold(n)) /\ Repeats /\ Paced

-------------------------------------------------------------------------------

LEMMA NotesFinite == ASSUME Out!OutboxAssumption PROVE IsFiniteSet(Notes) /\ "none" \notin Notes
  BY DEF Out!OutboxAssumption, Out!IsFiniteSet, IsFiniteSet

LEMMA OutInit == ASSUME Out!OutboxAssumption, Out!Init PROVE OutInv
<1>1. OutShape
  <2>1. /\ stage = "poll" /\ notes = {} /\ inHand = "none" /\ statement = "none"
        /\ taken = FALSE /\ beat = "none" /\ beatRun = "none" /\ evaluated = 0
        /\ beats = 0 /\ faults = 0 /\ crashes = 0
    BY DEF Out!Init
  <2>2. /\ note \in [Notes -> {"absent", "pending", "sent", "failed"}]
        /\ told \in [Notes -> Nat] /\ shown \in [Notes -> Nat]
        /\ deliveryRun \in [Notes -> {"none", "queued", "running", "completed", "failed", "interrupted"}]
    BY DEF Out!Init
  <2> QED
    BY <2>1, <2>2 DEF OutShape, Out!TypeOK
<1>2. AtWork
  BY DEF Out!Init, AtWork
<1>3. (\A n \in Notes : NoteTold(n)) /\ Paced
  BY DEF Out!Init, NoteTold, Paced
<1>4. \A n \in Notes : ToldAgain[n] = 0 /\ ShownAgain[n] = 0
  BY DEF Out!Init, ToldAgain, ShownAgain, Beyond
<1>5. Out!SumFunctionOnSet(ToldAgain, Notes) = 0 /\ Out!SumFunctionOnSet(ShownAgain, Notes) = 0
  BY <1>4, SumOfNothing, NotesFinite
<1>6. Repeats
  BY <1>5 DEF Repeats, Out!Init
<1> QED
  BY <1>1, <1>2, <1>3, <1>6 DEF OutInv

LEMMA OutTypes ==
  ASSUME Out!OutboxAssumption, OutShape, AtWork, Out!Next PROVE OutShape'
<1>1. CASE Out!OtherPart
  BY <1>1 DEF Out!OtherPart, Out!outboxVars, Out!beatVars, Out!NoFault, OutShape, Out!TypeOK, AtWork, Out!OutboxAssumption
<1>2. CASE Out!ListNotes
  BY <1>2 DEF Out!ListNotes, Out!Step, Out!beatVars, Out!NoFault, OutShape, Out!TypeOK, AtWork, Out!OutboxAssumption
<1>3. CASE Out!EndOfList
  BY <1>3 DEF Out!EndOfList, Out!Step, Out!beatVars, Out!NoFault, OutShape, Out!TypeOK, AtWork, Out!OutboxAssumption
<1>4. CASE Out!StartRun
  BY <1>4 DEF Out!StartRun, Out!Step, Out!beatVars, Out!NoFault, OutShape, Out!TypeOK, AtWork, Out!OutboxAssumption
<1>5. CASE Out!Tell
  BY <1>5 DEF Out!Tell, Out!Step, Out!beatVars, Out!NoFault, OutShape, Out!TypeOK, AtWork, Out!OutboxAssumption
<1>6. CASE Out!TellFails
  BY <1>6 DEF Out!TellFails, Out!Step, Out!beatVars, Out!NoFault, OutShape, Out!TypeOK, AtWork, Out!OutboxAssumption
<1>7. CASE Out!Post
  BY <1>7 DEF Out!Post, Out!Step, Out!beatVars, Out!NoFault, OutShape, Out!TypeOK, AtWork, Out!OutboxAssumption
<1>8. CASE Out!Mark
  BY <1>8 DEF Out!Mark, Out!Step, Out!beatVars, Out!NoFault, OutShape, Out!TypeOK, AtWork, Out!OutboxAssumption
<1>9. CASE Out!CloseRun
  BY <1>9 DEF Out!CloseRun, Out!Step, Out!beatVars, Out!NoFault, OutShape, Out!TypeOK, AtWork, Out!OutboxAssumption
<1>10. CASE Out!OutboxFails
  BY <1>10 DEF Out!OutboxFails, Out!beatVars, OutShape, Out!TypeOK, AtWork, Out!OutboxAssumption
<1>11. CASE Out!NotDue
  BY <1>11 DEF Out!NotDue, Out!Beat, Out!outboxVars, Out!NoFault, OutShape, Out!TypeOK, AtWork, Out!OutboxAssumption
<1>12. CASE Out!TakeSlot
  BY <1>12 DEF Out!TakeSlot, Out!Beat, Out!outboxVars, Out!NoFault, OutShape, Out!TypeOK, AtWork, Out!OutboxAssumption
<1>13. CASE Out!SkipBeat
  BY <1>13 DEF Out!SkipBeat, Out!Beat, Out!outboxVars, Out!NoFault, OutShape, Out!TypeOK, AtWork, Out!OutboxAssumption
<1>14. CASE Out!Evaluate
  BY <1>14 DEF Out!Evaluate, Out!Beat, Out!outboxVars, Out!NoFault, OutShape, Out!TypeOK, AtWork, Out!OutboxAssumption
<1>15. CASE Out!EndEvaluation
  BY <1>15 DEF Out!EndEvaluation, Out!Beat, Out!outboxVars, Out!NoFault, OutShape, Out!TypeOK, AtWork, Out!OutboxAssumption
<1>16. CASE Out!Speak
  BY <1>16 DEF Out!Speak, Out!Beat, Out!outboxVars, Out!NoFault, OutShape, Out!TypeOK, AtWork, Out!OutboxAssumption
<1>17. CASE Out!EndDelivery
  BY <1>17 DEF Out!EndDelivery, Out!Beat, Out!outboxVars, Out!NoFault, OutShape, Out!TypeOK, AtWork, Out!OutboxAssumption
<1>18. CASE Out!BeatFails
  BY <1>18 DEF Out!BeatFails, Out!outboxVars, OutShape, Out!TypeOK, AtWork, Out!OutboxAssumption
<1>19. CASE Out!IntervalPasses
  <2>1. taken' = FALSE /\ beats' \in Nat
    BY <1>19 DEF Out!IntervalPasses, OutShape
  <2>2. taken' \in BOOLEAN
    BY <2>1
  <2>3. UNCHANGED <<stage, notes, inHand, statement, note, told, shown, deliveryRun, beat, beatRun, evaluated, faults, crashes>>
    BY <1>19 DEF Out!IntervalPasses, Out!outboxVars, Out!NoFault
  <2> QED
    BY <2>1, <2>2, <2>3 DEF OutShape, Out!TypeOK
<1>20. CASE Out!Crash
  BY <1>20 DEF Out!Crash, OutShape, Out!TypeOK, AtWork, Out!OutboxAssumption
<1>21. CASE Out!Restart
  BY <1>21 DEF Out!Restart, Out!Interrupted, Out!NoFault, OutShape, Out!TypeOK, AtWork, Out!OutboxAssumption
<1>22. ASSUME NEW n \in Notes, Out!OpenRun(n) PROVE OutShape'
  BY <1>22 DEF Out!OpenRun, Out!Step, Out!beatVars, Out!NoFault, OutShape, Out!TypeOK, AtWork, Out!OutboxAssumption
<1>23. ASSUME NEW n \in Notes, Out!Queue(n) PROVE OutShape'
  BY <1>23 DEF Out!Queue, Out!beatVars, Out!NoFault, OutShape, Out!TypeOK, AtWork, Out!OutboxAssumption
<1> QED
  BY <1>1, <1>2, <1>3, <1>4, <1>5, <1>6, <1>7, <1>8, <1>9, <1>10, <1>11, <1>12, <1>13, <1>14, <1>15, <1>16, <1>17, <1>18, <1>19, <1>20, <1>21, <1>22, <1>23 DEF Out!Next, Out!Loop

LEMMA OutAtWork ==
  ASSUME Out!OutboxAssumption, OutShape, AtWork, Out!Next PROVE AtWork'
<1>1. CASE Out!OtherPart
  BY <1>1 DEF Out!OtherPart, Out!outboxVars, Out!beatVars, Out!NoFault, OutShape, Out!TypeOK, AtWork, Out!OutboxAssumption
<1>2. CASE Out!ListNotes
  BY <1>2 DEF Out!ListNotes, Out!Step, Out!beatVars, Out!NoFault, OutShape, Out!TypeOK, AtWork, Out!OutboxAssumption
<1>3. CASE Out!EndOfList
  BY <1>3 DEF Out!EndOfList, Out!Step, Out!beatVars, Out!NoFault, OutShape, Out!TypeOK, AtWork, Out!OutboxAssumption
<1>4. CASE Out!StartRun
  BY <1>4 DEF Out!StartRun, Out!Step, Out!beatVars, Out!NoFault, OutShape, Out!TypeOK, AtWork, Out!OutboxAssumption
<1>5. CASE Out!Tell
  BY <1>5 DEF Out!Tell, Out!Step, Out!beatVars, Out!NoFault, OutShape, Out!TypeOK, AtWork, Out!OutboxAssumption
<1>6. CASE Out!TellFails
  BY <1>6 DEF Out!TellFails, Out!Step, Out!beatVars, Out!NoFault, OutShape, Out!TypeOK, AtWork, Out!OutboxAssumption
<1>7. CASE Out!Post
  BY <1>7 DEF Out!Post, Out!Step, Out!beatVars, Out!NoFault, OutShape, Out!TypeOK, AtWork, Out!OutboxAssumption
<1>8. CASE Out!Mark
  BY <1>8 DEF Out!Mark, Out!Step, Out!beatVars, Out!NoFault, OutShape, Out!TypeOK, AtWork, Out!OutboxAssumption
<1>9. CASE Out!CloseRun
  BY <1>9 DEF Out!CloseRun, Out!Step, Out!beatVars, Out!NoFault, OutShape, Out!TypeOK, AtWork, Out!OutboxAssumption
<1>10. CASE Out!OutboxFails
  BY <1>10 DEF Out!OutboxFails, Out!beatVars, OutShape, Out!TypeOK, AtWork, Out!OutboxAssumption
<1>11. CASE Out!NotDue
  BY <1>11 DEF Out!NotDue, Out!Beat, Out!outboxVars, Out!NoFault, OutShape, Out!TypeOK, AtWork, Out!OutboxAssumption
<1>12. CASE Out!TakeSlot
  BY <1>12 DEF Out!TakeSlot, Out!Beat, Out!outboxVars, Out!NoFault, OutShape, Out!TypeOK, AtWork, Out!OutboxAssumption
<1>13. CASE Out!SkipBeat
  BY <1>13 DEF Out!SkipBeat, Out!Beat, Out!outboxVars, Out!NoFault, OutShape, Out!TypeOK, AtWork, Out!OutboxAssumption
<1>14. CASE Out!Evaluate
  BY <1>14 DEF Out!Evaluate, Out!Beat, Out!outboxVars, Out!NoFault, OutShape, Out!TypeOK, AtWork, Out!OutboxAssumption
<1>15. CASE Out!EndEvaluation
  BY <1>15 DEF Out!EndEvaluation, Out!Beat, Out!outboxVars, Out!NoFault, OutShape, Out!TypeOK, AtWork, Out!OutboxAssumption
<1>16. CASE Out!Speak
  BY <1>16 DEF Out!Speak, Out!Beat, Out!outboxVars, Out!NoFault, OutShape, Out!TypeOK, AtWork, Out!OutboxAssumption
<1>17. CASE Out!EndDelivery
  BY <1>17 DEF Out!EndDelivery, Out!Beat, Out!outboxVars, Out!NoFault, OutShape, Out!TypeOK, AtWork, Out!OutboxAssumption
<1>18. CASE Out!BeatFails
  BY <1>18 DEF Out!BeatFails, Out!outboxVars, OutShape, Out!TypeOK, AtWork, Out!OutboxAssumption
<1>19. CASE Out!IntervalPasses
  BY <1>19 DEF Out!IntervalPasses, Out!outboxVars, Out!NoFault, OutShape, Out!TypeOK, AtWork, Out!OutboxAssumption
<1>20. CASE Out!Crash
  BY <1>20 DEF Out!Crash, OutShape, Out!TypeOK, AtWork, Out!OutboxAssumption
<1>21. CASE Out!Restart
  BY <1>21 DEF Out!Restart, Out!Interrupted, Out!NoFault, OutShape, Out!TypeOK, AtWork, Out!OutboxAssumption
<1>22. ASSUME NEW n \in Notes, Out!OpenRun(n) PROVE AtWork'
  BY <1>22 DEF Out!OpenRun, Out!Step, Out!beatVars, Out!NoFault, OutShape, Out!TypeOK, AtWork, Out!OutboxAssumption
<1>23. ASSUME NEW n \in Notes, Out!Queue(n) PROVE AtWork'
  BY <1>23 DEF Out!Queue, Out!beatVars, Out!NoFault, OutShape, Out!TypeOK, AtWork, Out!OutboxAssumption
<1> QED
  BY <1>1, <1>2, <1>3, <1>4, <1>5, <1>6, <1>7, <1>8, <1>9, <1>10, <1>11, <1>12, <1>13, <1>14, <1>15, <1>16, <1>17, <1>18, <1>19, <1>20, <1>21, <1>22, <1>23 DEF Out!Next, Out!Loop

LEMMA OutPaced ==
  ASSUME Out!OutboxAssumption, OutShape, Paced, Out!Next PROVE Paced'
<1>1. CASE Out!OtherPart
  BY <1>1 DEF Out!OtherPart, Out!outboxVars, Out!beatVars, Out!NoFault, OutShape, Out!TypeOK, Paced
<1>2. CASE Out!ListNotes
  BY <1>2 DEF Out!ListNotes, Out!Step, Out!beatVars, Out!NoFault, OutShape, Out!TypeOK, Paced
<1>3. CASE Out!EndOfList
  BY <1>3 DEF Out!EndOfList, Out!Step, Out!beatVars, Out!NoFault, OutShape, Out!TypeOK, Paced
<1>4. CASE Out!StartRun
  BY <1>4 DEF Out!StartRun, Out!Step, Out!beatVars, Out!NoFault, OutShape, Out!TypeOK, Paced
<1>5. CASE Out!Tell
  BY <1>5 DEF Out!Tell, Out!Step, Out!beatVars, Out!NoFault, OutShape, Out!TypeOK, Paced
<1>6. CASE Out!TellFails
  BY <1>6 DEF Out!TellFails, Out!Step, Out!beatVars, Out!NoFault, OutShape, Out!TypeOK, Paced
<1>7. CASE Out!Post
  BY <1>7 DEF Out!Post, Out!Step, Out!beatVars, Out!NoFault, OutShape, Out!TypeOK, Paced
<1>8. CASE Out!Mark
  BY <1>8 DEF Out!Mark, Out!Step, Out!beatVars, Out!NoFault, OutShape, Out!TypeOK, Paced
<1>9. CASE Out!CloseRun
  BY <1>9 DEF Out!CloseRun, Out!Step, Out!beatVars, Out!NoFault, OutShape, Out!TypeOK, Paced
<1>10. CASE Out!OutboxFails
  BY <1>10 DEF Out!OutboxFails, Out!beatVars, OutShape, Out!TypeOK, Paced
<1>11. CASE Out!NotDue
  BY <1>11 DEF Out!NotDue, Out!Beat, Out!outboxVars, Out!NoFault, OutShape, Out!TypeOK, Paced
<1>12. CASE Out!TakeSlot
  BY <1>12 DEF Out!TakeSlot, Out!Beat, Out!outboxVars, Out!NoFault, OutShape, Out!TypeOK, Paced
<1>13. CASE Out!SkipBeat
  BY <1>13 DEF Out!SkipBeat, Out!Beat, Out!outboxVars, Out!NoFault, OutShape, Out!TypeOK, Paced
<1>14. CASE Out!Evaluate
  BY <1>14 DEF Out!Evaluate, Out!Beat, Out!outboxVars, Out!NoFault, OutShape, Out!TypeOK, Paced
<1>15. CASE Out!EndEvaluation
  BY <1>15 DEF Out!EndEvaluation, Out!Beat, Out!outboxVars, Out!NoFault, OutShape, Out!TypeOK, Paced
<1>16. CASE Out!Speak
  BY <1>16 DEF Out!Speak, Out!Beat, Out!outboxVars, Out!NoFault, OutShape, Out!TypeOK, Paced
<1>17. CASE Out!EndDelivery
  BY <1>17 DEF Out!EndDelivery, Out!Beat, Out!outboxVars, Out!NoFault, OutShape, Out!TypeOK, Paced
<1>18. CASE Out!BeatFails
  BY <1>18 DEF Out!BeatFails, Out!outboxVars, OutShape, Out!TypeOK, Paced
<1>19. CASE Out!IntervalPasses
  BY <1>19 DEF Out!IntervalPasses, Out!outboxVars, Out!NoFault, OutShape, Out!TypeOK, Paced
<1>20. CASE Out!Crash
  BY <1>20 DEF Out!Crash, OutShape, Out!TypeOK, Paced
<1>21. CASE Out!Restart
  BY <1>21 DEF Out!Restart, Out!Interrupted, Out!NoFault, OutShape, Out!TypeOK, Paced
<1>22. ASSUME NEW n \in Notes, Out!OpenRun(n) PROVE Paced'
  BY <1>22 DEF Out!OpenRun, Out!Step, Out!beatVars, Out!NoFault, OutShape, Out!TypeOK, Paced
<1>23. ASSUME NEW n \in Notes, Out!Queue(n) PROVE Paced'
  BY <1>23 DEF Out!Queue, Out!beatVars, Out!NoFault, OutShape, Out!TypeOK, Paced
<1> QED
  BY <1>1, <1>2, <1>3, <1>4, <1>5, <1>6, <1>7, <1>8, <1>9, <1>10, <1>11, <1>12, <1>13, <1>14, <1>15, <1>16, <1>17, <1>18, <1>19, <1>20, <1>21, <1>22, <1>23 DEF Out!Next, Out!Loop


LEMMA OutNotes ==
  ASSUME Out!OutboxAssumption, OutShape, AtWork, \A n \in Notes : NoteTold(n), Out!Next, NEW n \in Notes
  PROVE  NoteTold(n)'
<1>1. CASE Out!OtherPart
  BY <1>1 DEF Out!OtherPart, Out!outboxVars, Out!beatVars, Out!NoFault, OutShape, Out!TypeOK, AtWork, NoteTold
<1>2. CASE Out!ListNotes
  BY <1>2 DEF Out!ListNotes, Out!Step, Out!beatVars, Out!NoFault, OutShape, Out!TypeOK, AtWork, NoteTold
<1>3. CASE Out!EndOfList
  BY <1>3 DEF Out!EndOfList, Out!Step, Out!beatVars, Out!NoFault, OutShape, Out!TypeOK, AtWork, NoteTold
<1>4. CASE Out!StartRun
  BY <1>4 DEF Out!StartRun, Out!Step, Out!beatVars, Out!NoFault, OutShape, Out!TypeOK, AtWork, NoteTold
<1>5. CASE Out!Tell
  BY <1>5 DEF Out!Tell, Out!Step, Out!beatVars, Out!NoFault, OutShape, Out!TypeOK, AtWork, NoteTold
<1>6. CASE Out!TellFails
  BY <1>6 DEF Out!TellFails, Out!Step, Out!beatVars, Out!NoFault, OutShape, Out!TypeOK, AtWork, NoteTold
<1>7. CASE Out!Post
  BY <1>7 DEF Out!Post, Out!Step, Out!beatVars, Out!NoFault, OutShape, Out!TypeOK, AtWork, NoteTold
<1>8. CASE Out!Mark
  BY <1>8 DEF Out!Mark, Out!Step, Out!beatVars, Out!NoFault, OutShape, Out!TypeOK, AtWork, NoteTold
<1>9. CASE Out!CloseRun
  BY <1>9 DEF Out!CloseRun, Out!Step, Out!beatVars, Out!NoFault, OutShape, Out!TypeOK, AtWork, NoteTold
<1>10. CASE Out!OutboxFails
  BY <1>10 DEF Out!OutboxFails, Out!beatVars, OutShape, Out!TypeOK, AtWork, NoteTold
<1>11. CASE Out!NotDue
  BY <1>11 DEF Out!NotDue, Out!Beat, Out!outboxVars, Out!NoFault, OutShape, Out!TypeOK, AtWork, NoteTold
<1>12. CASE Out!TakeSlot
  BY <1>12 DEF Out!TakeSlot, Out!Beat, Out!outboxVars, Out!NoFault, OutShape, Out!TypeOK, AtWork, NoteTold
<1>13. CASE Out!SkipBeat
  BY <1>13 DEF Out!SkipBeat, Out!Beat, Out!outboxVars, Out!NoFault, OutShape, Out!TypeOK, AtWork, NoteTold
<1>14. CASE Out!Evaluate
  BY <1>14 DEF Out!Evaluate, Out!Beat, Out!outboxVars, Out!NoFault, OutShape, Out!TypeOK, AtWork, NoteTold
<1>15. CASE Out!EndEvaluation
  BY <1>15 DEF Out!EndEvaluation, Out!Beat, Out!outboxVars, Out!NoFault, OutShape, Out!TypeOK, AtWork, NoteTold
<1>16. CASE Out!Speak
  BY <1>16 DEF Out!Speak, Out!Beat, Out!outboxVars, Out!NoFault, OutShape, Out!TypeOK, AtWork, NoteTold
<1>17. CASE Out!EndDelivery
  BY <1>17 DEF Out!EndDelivery, Out!Beat, Out!outboxVars, Out!NoFault, OutShape, Out!TypeOK, AtWork, NoteTold
<1>18. CASE Out!BeatFails
  BY <1>18 DEF Out!BeatFails, Out!outboxVars, OutShape, Out!TypeOK, AtWork, NoteTold
<1>19. CASE Out!IntervalPasses
  BY <1>19 DEF Out!IntervalPasses, Out!outboxVars, Out!NoFault, OutShape, Out!TypeOK, AtWork, NoteTold
<1>20. CASE Out!Crash
  BY <1>20 DEF Out!Crash, OutShape, Out!TypeOK, AtWork, NoteTold
<1>21. CASE Out!Restart
  BY <1>21 DEF Out!Restart, Out!Interrupted, Out!NoFault, OutShape, Out!TypeOK, AtWork, NoteTold
<1>22. ASSUME NEW m \in Notes, Out!OpenRun(m) PROVE NoteTold(n)'
  BY <1>22 DEF Out!OpenRun, Out!Step, Out!beatVars, Out!NoFault, OutShape, Out!TypeOK, AtWork, NoteTold
<1>23. ASSUME NEW m \in Notes, Out!Queue(m) PROVE NoteTold(n)'
  BY <1>23 DEF Out!Queue, Out!beatVars, Out!NoFault, OutShape, Out!TypeOK, AtWork, NoteTold
<1> QED
  BY <1>1, <1>2, <1>3, <1>4, <1>5, <1>6, <1>7, <1>8, <1>9, <1>10, <1>11, <1>12, <1>13, <1>14, <1>15, <1>16, <1>17, <1>18, <1>19, <1>20, <1>21, <1>22, <1>23 DEF Out!Next, Out!Loop

LEMMA RepeatsGrow ==
  ASSUME Out!OutboxAssumption, OutShape, OutShape', Repeats, NEW m, NEW d \in {0, 1}, faults' + crashes' = faults + crashes + d,
         \A n \in Notes : /\ ToldAgain'[n] <= ToldAgain[n] + IF n = m THEN d ELSE 0
                          /\ ShownAgain'[n] <= ShownAgain[n] + IF n = m THEN d ELSE 0
  PROVE  Repeats'
<1>1. /\ ToldAgain \in [Notes -> Nat] /\ ToldAgain' \in [Notes -> Nat]
      /\ ShownAgain \in [Notes -> Nat] /\ ShownAgain' \in [Notes -> Nat]
  BY DEF ToldAgain, ShownAgain, Beyond, OutShape, Out!TypeOK
<1>2. faults + crashes \in Nat /\ d \in Nat
  BY DEF OutShape
<1> HIDE DEF ToldAgain, ShownAgain
<1>3. /\ Out!SumFunctionOnSet(ToldAgain, Notes) \in Nat /\ Out!SumFunctionOnSet(ToldAgain', Notes) \in Nat
      /\ Out!SumFunctionOnSet(ToldAgain', Notes) <= Out!SumFunctionOnSet(ToldAgain, Notes) + d
  BY <1>1, <1>2, SumChanges, NotesFinite
<1>4. /\ Out!SumFunctionOnSet(ShownAgain, Notes) \in Nat /\ Out!SumFunctionOnSet(ShownAgain', Notes) \in Nat
      /\ Out!SumFunctionOnSet(ShownAgain', Notes) <= Out!SumFunctionOnSet(ShownAgain, Notes) + d
  BY <1>1, <1>2, SumChanges, NotesFinite
<1>5. Out!SumFunctionOnSet(ToldAgain, Notes)' = Out!SumFunctionOnSet(ToldAgain', Notes) /\ Out!SumFunctionOnSet(ShownAgain, Notes)' = Out!SumFunctionOnSet(ShownAgain', Notes)
  OBVIOUS
<1> QED
  BY <1>2, <1>3, <1>4, <1>5 DEF Repeats

\* What a step adds to the repeats: nothing, unless it is a failing statement or a crash.
Adds == (faults' - faults) + (crashes' - crashes)
AddsOnly ==
  /\ Adds \in {0, 1} /\ faults' + crashes' = faults + crashes + Adds
  /\ \A n \in Notes : /\ ToldAgain'[n] <= ToldAgain[n] + IF n = inHand THEN Adds ELSE 0
                      /\ ShownAgain'[n] <= ShownAgain[n] + IF n = inHand THEN Adds ELSE 0

LEMMA OutRepeats ==
  ASSUME Out!OutboxAssumption, OutShape, AtWork, OutShape', Repeats, Out!Next PROVE Repeats'
<1> SUFFICES AddsOnly
  BY RepeatsGrow DEF AddsOnly
<1> USE DEF OutShape, Out!TypeOK, AddsOnly, Adds, ToldAgain, ShownAgain, Beyond
<1>1. CASE Out!OtherPart
  BY <1>1 DEF Out!OtherPart, Out!outboxVars, Out!beatVars, Out!NoFault, AtWork
<1>2. CASE Out!ListNotes
  BY <1>2 DEF Out!ListNotes, Out!Step, Out!beatVars, Out!NoFault, AtWork
<1>3. CASE Out!EndOfList
  BY <1>3 DEF Out!EndOfList, Out!Step, Out!beatVars, Out!NoFault, AtWork
<1>4. CASE Out!StartRun
  BY <1>4 DEF Out!StartRun, Out!Step, Out!beatVars, Out!NoFault, AtWork
<1>5. CASE Out!Tell
  BY <1>5 DEF Out!Tell, Out!Step, Out!beatVars, Out!NoFault, AtWork
<1>6. CASE Out!TellFails
  BY <1>6 DEF Out!TellFails, Out!Step, Out!beatVars, Out!NoFault, AtWork
<1>7. CASE Out!Post
  BY <1>7 DEF Out!Post, Out!Step, Out!beatVars, Out!NoFault, AtWork
<1>8. CASE Out!Mark
  BY <1>8 DEF Out!Mark, Out!Step, Out!beatVars, Out!NoFault, AtWork
<1>9. CASE Out!CloseRun
  BY <1>9 DEF Out!CloseRun, Out!Step, Out!beatVars, Out!NoFault, AtWork
<1>10. CASE Out!OutboxFails
  BY <1>10 DEF Out!OutboxFails, Out!beatVars, AtWork
<1>11. CASE Out!NotDue
  BY <1>11 DEF Out!NotDue, Out!Beat, Out!outboxVars, Out!NoFault, AtWork
<1>12. CASE Out!TakeSlot
  BY <1>12 DEF Out!TakeSlot, Out!Beat, Out!outboxVars, Out!NoFault, AtWork
<1>13. CASE Out!SkipBeat
  BY <1>13 DEF Out!SkipBeat, Out!Beat, Out!outboxVars, Out!NoFault, AtWork
<1>14. CASE Out!Evaluate
  BY <1>14 DEF Out!Evaluate, Out!Beat, Out!outboxVars, Out!NoFault, AtWork
<1>15. CASE Out!EndEvaluation
  BY <1>15 DEF Out!EndEvaluation, Out!Beat, Out!outboxVars, Out!NoFault, AtWork
<1>16. CASE Out!Speak
  BY <1>16 DEF Out!Speak, Out!Beat, Out!outboxVars, Out!NoFault, AtWork
<1>17. CASE Out!EndDelivery
  BY <1>17 DEF Out!EndDelivery, Out!Beat, Out!outboxVars, Out!NoFault, AtWork
<1>18. CASE Out!BeatFails
  BY <1>18 DEF Out!BeatFails, Out!outboxVars, AtWork
<1>19. CASE Out!IntervalPasses
  BY <1>19 DEF Out!IntervalPasses, Out!outboxVars, Out!NoFault, AtWork
<1>20. CASE Out!Crash
  BY <1>20 DEF Out!Crash, AtWork
<1>21. CASE Out!Restart
  BY <1>21 DEF Out!Restart, Out!Interrupted, Out!NoFault, AtWork
<1>22. ASSUME NEW m \in Notes, Out!OpenRun(m) PROVE AddsOnly
  BY <1>22 DEF Out!OpenRun, Out!Step, Out!beatVars, Out!NoFault, AtWork
<1>23. ASSUME NEW m \in Notes, Out!Queue(m) PROVE AddsOnly
  BY <1>23 DEF Out!Queue, Out!beatVars, Out!NoFault, AtWork
<1> QED
  BY <1>1, <1>2, <1>3, <1>4, <1>5, <1>6, <1>7, <1>8, <1>9, <1>10, <1>11, <1>12, <1>13, <1>14, <1>15, <1>16, <1>17, <1>18, <1>19, <1>20, <1>21, <1>22, <1>23 DEF Out!Next, Out!Loop


LEMMA OutStep == ASSUME Out!OutboxAssumption, OutInv, [Out!Next]_(Out!vars) PROVE OutInv'
<1>1. OutShape /\ AtWork /\ (\A n \in Notes : NoteTold(n)) /\ Repeats /\ Paced
  BY DEF OutInv
<1>2. CASE Out!Next
  <2>1. OutShape'
    BY <1>1, <1>2, OutTypes
  <2>2. \A n \in Notes : NoteTold(n)'
    BY <1>1, <1>2, OutNotes
  <2> QED
    BY <1>1, <1>2, <2>1, <2>2, OutAtWork, OutRepeats, OutPaced DEF OutInv
<1>3. CASE UNCHANGED Out!vars
  <2>1. OutShape' /\ AtWork' /\ (\A n \in Notes : NoteTold(n)') /\ Paced'
    BY <1>1, <1>3 DEF Out!vars, Out!outboxVars, Out!beatVars, OutShape, Out!TypeOK, AtWork, NoteTold, Paced
  <2>2. \A n \in Notes : ToldAgain'[n] = ToldAgain[n] /\ ShownAgain'[n] = ShownAgain[n]
    BY <1>3 DEF Out!vars, Out!outboxVars, ToldAgain, ShownAgain, Beyond
  <2>3. \A n \in Notes : ToldAgain[n] \in Nat /\ ShownAgain[n] \in Nat
    BY <1>1 DEF ToldAgain, ShownAgain, Beyond, OutShape, Out!TypeOK
  <2>4. faults' + crashes' = faults + crashes + 0
    BY <1>1, <1>3 DEF Out!vars, OutShape
  <2>5. Repeats'
    BY <1>1, <2>1, <2>2, <2>3, <2>4, RepeatsGrow
  <2> QED
    BY <2>1, <2>5 DEF OutInv
<1> QED
  BY <1>2, <1>3

LEMMA OutGood == ASSUME Out!OutboxAssumption, OutInv PROVE Out!TypeOK /\ Out!NotesToldOnce /\ Out!HeartbeatPaced
<1>1. OutShape /\ AtWork /\ (\A n \in Notes : NoteTold(n)) /\ Repeats /\ Paced
  BY DEF OutInv
<1>2. /\ ToldAgain \in [Notes -> Nat] /\ Out!Again(told) \in [Notes -> Nat]
      /\ ShownAgain \in [Notes -> Nat] /\ Out!Again(shown) \in [Notes -> Nat]
  BY <1>1 DEF ToldAgain, ShownAgain, Out!Again, Beyond, OutShape, Out!TypeOK
<1>3. \A n \in Notes : /\ Out!Again(told)[n] <= ToldAgain[n] + IF n = "none" THEN 0 ELSE 0
                       /\ Out!Again(shown)[n] <= ShownAgain[n] + IF n = "none" THEN 0 ELSE 0
  BY <1>1 DEF ToldAgain, ShownAgain, Out!Again, Beyond, OutShape, Out!TypeOK
<1> DEFINE toldAgain == Out!Again(told)
           shownAgain == Out!Again(shown)
<1> HIDE DEF toldAgain, shownAgain, ToldAgain, ShownAgain
<1>4. /\ Out!SumFunctionOnSet(ToldAgain, Notes) \in Nat /\ Out!SumFunctionOnSet(toldAgain, Notes) \in Nat
      /\ Out!SumFunctionOnSet(toldAgain, Notes) <= Out!SumFunctionOnSet(ToldAgain, Notes) + 0
  BY <1>2, <1>3, SumChanges, NotesFinite DEF toldAgain
<1>5. /\ Out!SumFunctionOnSet(ShownAgain, Notes) \in Nat /\ Out!SumFunctionOnSet(shownAgain, Notes) \in Nat
      /\ Out!SumFunctionOnSet(shownAgain, Notes) <= Out!SumFunctionOnSet(ShownAgain, Notes) + 0
  BY <1>2, <1>3, SumChanges, NotesFinite DEF shownAgain
<1>6. faults + crashes \in Nat
  BY <1>1 DEF OutShape
<1>7. /\ Out!SumFunctionOnSet(toldAgain, Notes) <= faults + crashes
      /\ Out!SumFunctionOnSet(shownAgain, Notes) <= faults + crashes
  BY <1>1, <1>4, <1>5, <1>6 DEF Repeats
<1>8. Out!NotesToldOnce
  BY <1>1, <1>7 DEF Out!NotesToldOnce, NoteTold, toldAgain, shownAgain
<1>9. Out!HeartbeatPaced
  BY <1>1 DEF Out!HeartbeatPaced, Paced, OutShape, Out!TypeOK
<1> QED
  BY <1>1, <1>8, <1>9 DEF OutShape

\* However many notes there are, whatever statements fail and however often the server stops: what
\* counts as sent was told and stored, every repeat was paid for by one failure or crash, and the
\* heartbeat asks at most once per interval (event_loop/worker.rs, scheduler.rs, heartbeat.rs).
THEOREM NotesAreTold == Out!OutboxAssumption /\ Out!Spec => [](Out!TypeOK /\ OutboxKept)
<1> SUFFICES ASSUME Out!OutboxAssumption PROVE Out!Spec => [](Out!TypeOK /\ OutboxKept)
    OBVIOUS
<1>1. Out!Init => OutInv
  BY OutInit
<1>2. OutInv /\ [Out!Next]_(Out!vars) => OutInv'
  BY OutStep
<1>3. OutInv => Out!TypeOK /\ OutboxKept
  BY OutGood DEF OutboxKept
<1> QED
  BY <1>1, <1>2, <1>3, PTL DEF Out!Spec

-------------------------------------------------------------------------------
(* The parts of the background together *)

\* The schedule, the outbox, the files with their imports and the pollers have their types, each
\* for any values of its constants (Background.tla).
THEOREM PartsAreTyped == BackgroundAssumption /\ BackgroundSpec => []TypesOK
<1>1. BackgroundAssumption /\ BackgroundSpec => []TypeOK
  BY TypeCorrect DEF BackgroundSpec
<1>2. BackgroundAssumption /\ BackgroundSpec => [](Out!TypeOK /\ OutboxKept)
  BY NotesAreTold DEF BackgroundAssumption, BackgroundSpec
<1>3. BackgroundAssumption /\ BackgroundSpec => []Uploads!TypeOK
  BY UploadsTyped DEF BackgroundAssumption, BackgroundSpec
<1>4. BackgroundAssumption /\ BackgroundSpec => []Mail!TypeOK
  BY MailTyped DEF BackgroundAssumption, BackgroundSpec
<1>5. TypeOK /\ Out!TypeOK /\ OutboxKept /\ Uploads!TypeOK /\ Mail!TypeOK => TypesOK
  BY DEF TypesOK
<1> QED
  BY <1>1, <1>2, <1>3, <1>4, <1>5, PTL
===============================================================================
