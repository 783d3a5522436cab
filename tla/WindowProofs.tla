----------------------------- MODULE WindowProofs ------------------------------
(***************************************************************************)
(* What ContextWindow.tla says of the functions that choose what the model *)
(* is shown, proved of every conversation.  They are built from three      *)
(* things: choosing positions (Selected), adding up sizes (Chars) and      *)
(* cutting one message after the other (CutInOrder).  The first is proved  *)
(* once from the number of positions that come before one (OrderOf), the   *)
(* others by induction over the sequence, as the least number for which    *)
(* something does not hold cannot exist (Least, Induction).  Whole says    *)
(* what Paired says without the operators that look for a position.        *)
(***************************************************************************)
EXTENDS ContextWindow, FiniteSetTheorems, SequenceTheorems, TLAPS

-------------------------------------------------------------------------------
(* Numbers, sequences and orders *)

\* A set of numbers that is not empty has a least element.
LEMMA Least ==
  ASSUME NEW T \in SUBSET Nat, T # {}
  PROVE  \E m \in T : \A k \in T : m <= k
<1> DEFINE R == {p \in Nat \X Nat : p[1] < p[2]}
<1>1. IsWellFoundedOn(R, Nat)
  BY NatLessThanWellFounded DEF OpToRel
<1>2. \A x, y \in T : <<y, x>> \in R <=> y < x
  OBVIOUS
<1> HIDE DEF R
<1>3. \E x \in T : \A y \in T : ~ (<<y, x>> \in R)
  BY <1>1, WFMin
<1>4. PICK x \in T : \A y \in T : ~ (<<y, x>> \in R)
  BY <1>3
<1>5. ASSUME NEW k \in T PROVE x <= k
  <2>1. ~ (<<k, x>> \in R) /\ (<<k, x>> \in R <=> k < x)
    BY <1>2, <1>4
  <2>2. ~ (k < x) /\ k \in Nat /\ x \in Nat
    BY <2>1
  <2> QED
    BY <2>2
<1> QED
  BY <1>5

\* Induction up to N, for the set of the numbers of which something holds.
LEMMA Induction ==
  ASSUME NEW N \in Nat, NEW P, 0 \in P, \A n \in 0 .. N : (n # 0 /\ n - 1 \in P) => n \in P
  PROVE  \A n \in 0 .. N : n \in P
<1> SUFFICES ASSUME NEW n \in 0 .. N, n \notin P PROVE FALSE
  OBVIOUS
<1> DEFINE T == {m \in 0 .. N : m \notin P}
<1>1. T \in SUBSET Nat /\ n \in T
  OBVIOUS
<1>2. PICK m \in T : \A k \in T : m <= k
  BY <1>1, Least
<1>3. m # 0 /\ m - 1 \in 0 .. N /\ m - 1 \notin T
  BY <1>2
<1> QED
  BY <1>2, <1>3

\* A history of N steps of f from a.
History(c, S, a, f, N) == c \in [0 .. N -> S] /\ c[0] = a /\ \A n \in 1 .. N : c[n] = f[<<c[n - 1], n>>]

\* A function that goes from one element of S to the next has a history of any length.
LEMMA Recursion ==
  ASSUME NEW S, NEW a \in S, NEW f \in [S \X Nat -> S], NEW N \in Nat
  PROVE  \E c : History(c, S, a, f, N)
<1> DEFINE Good(n) == \E c \in [0 .. n -> S] : c[0] = a /\ \A k \in 1 .. n : c[k] = f[<<c[k - 1], k>>]
           P == {n \in 0 .. N : Good(n)}
<1>1. 0 \in P
  <2> DEFINE d == [k \in 0 .. 0 |-> a]
  <2>1. d \in [0 .. 0 -> S] /\ d[0] = a
    OBVIOUS
  <2> HIDE DEF d
  <2>2. Good(0)
    BY <2>1
  <2> QED
    BY <2>2
<1>2. ASSUME NEW n \in 0 .. N, n # 0, n - 1 \in P PROVE n \in P
  <2>1. PICK c \in [0 .. n - 1 -> S] : c[0] = a /\ \A k \in 1 .. n - 1 : c[k] = f[<<c[k - 1], k>>]
    BY <1>2
  <2> DEFINE d == [k \in 0 .. n |-> IF k = n THEN f[<<c[n - 1], n>>] ELSE c[k]]
  <2>2. c[n - 1] \in S /\ f[<<c[n - 1], n>>] \in S
    <3>1. c[n - 1] \in S
      BY <1>2
    <3>2. <<c[n - 1], n>> \in S \X Nat
      BY <3>1
    <3> QED
      BY <3>1, <3>2
  <2>3. \A k \in 0 .. n - 1 : c[k] \in S
    OBVIOUS
  <2>4. d \in [0 .. n -> S]
    BY <2>2, <2>3
  <2>5. d[0] = a
    BY <2>1, <1>2
  <2>6. ASSUME NEW k \in 1 .. n PROVE d[k] = f[<<d[k - 1], k>>]
    <3>1. CASE k = n
      <4>1. d[n] = f[<<c[n - 1], n>>] /\ d[n - 1] = c[n - 1]
        BY <1>2
      <4> HIDE DEF d
      <4> QED
        BY <3>1, <4>1
    <3>2. CASE k # n
      BY <3>2, <2>1
    <3> QED
      BY <3>1, <3>2
  <2> HIDE DEF d
  <2>7. Good(n)
    BY <2>4, <2>5, <2>6
  <2> QED
    BY <2>7
<1> HIDE DEF P
<1>3. N \in P
  BY <1>1, <1>2, Induction
<1> QED
  BY <1>3 DEF P, History

LEMMA AtMost ==
  ASSUME NEW a \in Int, NEW b \in Int, NEW c \in Int, a <= b, b <= c
  PROVE  a <= c
OBVIOUS

\* A set of numbers up to N has a greatest element.
LEMMA MaxOf ==
  ASSUME NEW N \in Nat, NEW T \in SUBSET (0 .. N), T # {}
  PROVE  Max(T) \in T /\ \A k \in T : k <= Max(T)
<1> DEFINE D == {N - t : t \in T}
<1>1. D \in SUBSET Nat /\ D # {}
  <2>1. \A t \in T : t \in 0 .. N /\ N - t \in Nat
    OBVIOUS
  <2> QED
    BY <2>1
<1>2. PICK m \in D : \A k \in D : m <= k
  BY <1>1, Least
<1>3. PICK t \in T : m = N - t
  BY <1>2
<1>4. \A k \in T : k <= t
  <2> SUFFICES ASSUME NEW k \in T PROVE k <= t
    OBVIOUS
  <2>1. N - k \in D
    OBVIOUS
  <2>2. N - t <= N - k
    BY <2>1, <1>2, <1>3
  <2>3. k \in Nat /\ t \in Nat
    OBVIOUS
  <2> QED
    BY <2>2, <2>3
<1>5. \E x \in T : \A y \in T : x >= y
  BY <1>4
<1>6. Max(T) \in T /\ \A y \in T : Max(T) >= y
  BY <1>5 DEF Max
<1> QED
  BY <1>6

\* The least element of a set of numbers.
LEMMA MinOf ==
  ASSUME NEW T \in SUBSET Nat, T # {}
  PROVE  Min(T) \in T /\ \A k \in T : Min(T) <= k
<1>1. \E x \in T : \A y \in T : x =< y
  BY Least
<1>2. Min(T) \in T /\ \A y \in T : Min(T) =< y
  BY <1>1 DEF Min
<1> QED
  BY <1>2

\* A function on 1 .. n is a sequence of length n.
LEMMA FunctionIsSeq ==
  ASSUME NEW n \in Nat, NEW S, NEW s \in [1 .. n -> S]
  PROVE  s \in Seq(S) /\ Len(s) = n
<1>1. s \in Seq(S)
  BY SeqDef
<1>2. DOMAIN s = 1 .. n /\ DOMAIN s = 1 .. Len(s) /\ Len(s) \in Nat
  BY <1>1, LenProperties
<1> QED
  BY <1>1, <1>2

\* R is a strict total order of I; e looks for the element with n - 1 before it; e goes through
\* I in that order.
Orders(R, I) ==
  /\ \A i, j \in I : i # j => (<<i, j>> \in R \/ <<j, i>> \in R)
  /\ \A i \in I : <<i, i>> \notin R
  /\ \A i, j, k \in I : <<i, j>> \in R /\ <<j, k>> \in R => <<i, k>> \in R
Counts(e, R, I) ==
  /\ e = [n \in 1 .. Cardinality(I) |-> e[n]]
  /\ \A n \in 1 .. Cardinality(I) :
       (\E i \in I : Cardinality({j \in I : <<j, i>> \in R}) = n - 1) =>
         e[n] \in I /\ Cardinality({j \in I : <<j, e[n]>> \in R}) = n - 1
GoesThrough(e, R, I) ==
  /\ e \in [1 .. Cardinality(I) -> I]
  /\ \A i \in I : \E n \in 1 .. Cardinality(I) : e[n] = i
  /\ \A m, n \in 1 .. Cardinality(I) : m < n => <<e[m], e[n]>> \in R

\* The elements of a finite set in a strict total order R.
LEMMA OrderOf ==
  ASSUME NEW I, IsFiniteSet(I), NEW R, Orders(R, I), NEW e, Counts(e, R, I)
  PROVE  Cardinality(I) \in Nat /\ GoesThrough(e, R, I)
<1> DEFINE N == Cardinality(I)
           Below(i) == {j \in I : <<j, i>> \in R}
           rank == [i \in I |-> Cardinality(Below(i))]
<1>1. N \in Nat
  BY FS_CardinalityType
<1>2. ASSUME NEW i \in I PROVE IsFiniteSet(Below(i)) /\ rank[i] \in 0 .. N - 1
  <2>1. IsFiniteSet(Below(i)) /\ Cardinality(Below(i)) <= N /\ (N = Cardinality(Below(i)) => I = Below(i))
    BY FS_Subset
  <2>2. I # Below(i)
    BY DEF Orders
  <2>3. Cardinality(Below(i)) \in Nat
    BY <2>1, FS_CardinalityType
  <2> HIDE DEF Below, N
  <2> QED
    BY <2>1, <2>2, <2>3, <1>1
<1>3. ASSUME NEW i \in I, NEW k \in I, <<i, k>> \in R PROVE rank[i] < rank[k]
  <2>1. Below(i) \subseteq Below(k) /\ Below(i) # Below(k)
    <3>1. i \in Below(k) /\ i \notin Below(i)
      BY <1>3 DEF Orders
    <3>2. \A j \in Below(i) : j \in Below(k)
      BY <1>3 DEF Orders
    <3> QED
      BY <3>1, <3>2
  <2>2. IsFiniteSet(Below(k)) /\ IsFiniteSet(Below(i))
    BY <1>2
  <2>3. Cardinality(Below(i)) <= Cardinality(Below(k)) /\ Cardinality(Below(i)) # Cardinality(Below(k))
    BY <2>1, <2>2, FS_Subset
  <2>4. Cardinality(Below(i)) \in Nat /\ Cardinality(Below(k)) \in Nat
    BY <2>2, FS_CardinalityType
  <2> HIDE DEF Below
  <2> QED
    BY <2>3, <2>4
<1>4. rank \in [I -> 0 .. N - 1]
  BY <1>2
<1>5. \A i, k \in I : rank[i] = rank[k] => i = k
  <2> SUFFICES ASSUME NEW i \in I, NEW k \in I, i # k PROVE rank[i] # rank[k]
    OBVIOUS
  <2>1. rank[i] < rank[k] \/ rank[k] < rank[i]
    BY <1>3 DEF Orders
  <2>2. rank[i] \in 0 .. N - 1 /\ rank[k] \in 0 .. N - 1
    BY <1>2
  <2> HIDE DEF rank, N
  <2> QED
    BY <2>1, <2>2, <1>1
<1>6. rank \in Injection(I, 0 .. N - 1)
  BY <1>4, <1>5 DEF Injection, IsInjective
<1>7. IsFiniteSet(0 .. N - 1) /\ Cardinality(0 .. N - 1) = N
  <2> HIDE DEF N
  <2>1. 0 \in Int /\ N - 1 \in Int
    BY <1>1
  <2>2. IsFiniteSet(0 .. N - 1) /\ Cardinality(0 .. N - 1) = IF 0 > N - 1 THEN 0 ELSE (N - 1) - 0 + 1
    BY <2>1, FS_Interval
  <2> QED
    BY <1>1, <2>2
<1>8. rank \in Surjection(I, 0 .. N - 1)
  BY <1>6, <1>7, FS_Injection
<1>9. ASSUME NEW n \in 1 .. N PROVE e[n] \in I /\ rank[e[n]] = n - 1
  <2>1. n - 1 \in 0 .. N - 1
    BY <1>1
  <2>2. \E i \in I : rank[i] = n - 1
    BY <2>1, <1>8 DEF Surjection
  <2>3. \E i \in I : Cardinality(Below(i)) = n - 1
    BY <2>2
  <2>4. e[n] \in I /\ Cardinality(Below(e[n])) = n - 1
    BY <2>3 DEF Counts
  <2> QED
    BY <2>4
<1>10. ASSUME NEW i \in I PROVE \E n \in 1 .. N : e[n] = i
  <2>0. rank[i] \in 0 .. N - 1
    BY <1>2
  <2>1. rank[i] + 1 \in 1 .. N
    <3> HIDE DEF rank, N
    <3> QED
      BY <2>0, <1>1
  <2>2. rank[e[rank[i] + 1]] = rank[i] /\ e[rank[i] + 1] \in I
    <3> HIDE DEF rank, N
    <3>1. rank[i] \in Int
      BY <2>0, <1>1
    <3>2. rank[e[rank[i] + 1]] = (rank[i] + 1) - 1 /\ e[rank[i] + 1] \in I
      BY <2>1, <1>9
    <3> QED
      BY <3>1, <3>2
  <2> HIDE DEF rank, N
  <2> QED
    BY <2>1, <2>2, <1>5
<1>11. ASSUME NEW m \in 1 .. N, NEW n \in 1 .. N, m < n PROVE <<e[m], e[n]>> \in R
  <2>1. rank[e[m]] = m - 1 /\ rank[e[n]] = n - 1 /\ e[m] \in I /\ e[n] \in I
    BY <1>9
  <2> HIDE DEF rank, N
  <2>2. e[m] # e[n] /\ ~ rank[e[n]] < rank[e[m]]
    BY <2>1, <1>11, <1>1
  <2> QED
    BY <2>1, <2>2, <1>3 DEF Orders
<1>12. e \in [1 .. N -> I]
  <2>1. e = [n \in 1 .. N |-> e[n]]
    BY DEF Counts
  <2> HIDE DEF N
  <2> QED
    BY <1>9, <2>1
<1> QED
  BY <1>1, <1>10, <1>11, <1>12 DEF GoesThrough

\* The positions in I, in order.
LEMMA PositionsOf ==
  ASSUME NEW N \in Nat, NEW I \in SUBSET (1 .. N)
  PROVE  /\ IsFiniteSet(I) /\ Cardinality(I) \in Nat
         /\ Positions(I) \in [1 .. Cardinality(I) -> I]
         /\ \A i \in I : \E n \in 1 .. Cardinality(I) : Positions(I)[n] = i
         /\ \A m, n \in 1 .. Cardinality(I) : m < n => Positions(I)[m] < Positions(I)[n]
<1> DEFINE R == {p \in I \X I : p[1] < p[2]}
           e == Positions(I)
<1>1. IsFiniteSet(I)
  <2>1. IsFiniteSet(1 .. N)
    BY FS_Interval
  <2> QED
    BY <2>1, FS_Subset
<1>2. \A i, j \in I : <<i, j>> \in R <=> i < j
  OBVIOUS
<1>3. \A i, j \in I : i # j => (<<i, j>> \in R \/ <<j, i>> \in R)
  BY <1>2
<1>4. \A i \in I : <<i, i>> \notin R
  BY <1>2
<1>5. \A i, j, k \in I : <<i, j>> \in R /\ <<j, k>> \in R => <<i, k>> \in R
  BY <1>2
<1>6. e = [n \in 1 .. Cardinality(I) |-> e[n]]
  <2> DEFINE F(n) == CHOOSE i \in I : Cardinality({j \in I : j < i}) = n - 1
  <2>1. e = [n \in 1 .. Cardinality(I) |-> F(n)]
    BY DEF Positions, Ordered
  <2> HIDE DEF e, F
  <2> QED
    BY <2>1
<1>7. ASSUME NEW n \in 1 .. Cardinality(I), \E i \in I : Cardinality({j \in I : <<j, i>> \in R}) = n - 1
      PROVE  e[n] \in I /\ Cardinality({j \in I : <<j, e[n]>> \in R}) = n - 1
  <2>1. ASSUME NEW i \in I PROVE {j \in I : <<j, i>> \in R} = {j \in I : j < i}
    BY <1>2
  <2>2. e[n] = CHOOSE i \in I : Cardinality({j \in I : j < i}) = n - 1
    BY DEF Positions, Ordered
  <2>3. \E i \in I : Cardinality({j \in I : j < i}) = n - 1
    BY <1>7, <2>1
  <2> HIDE DEF e, R
  <2>4. e[n] \in I /\ Cardinality({j \in I : j < e[n]}) = n - 1
    BY <2>2, <2>3
  <2> QED
    BY <2>1, <2>4
<1> HIDE DEF R, e
<1>8. /\ Cardinality(I) \in Nat
      /\ e \in [1 .. Cardinality(I) -> I]
      /\ \A i \in I : \E n \in 1 .. Cardinality(I) : e[n] = i
      /\ \A m, n \in 1 .. Cardinality(I) : m < n => <<e[m], e[n]>> \in R
  <2>1. Orders(R, I)
    BY <1>3, <1>4, <1>5 DEF Orders
  <2>2. Counts(e, R, I)
    BY <1>6, <1>7 DEF Counts
  <2> QED
    BY <1>1, <2>1, <2>2, OrderOf DEF GoesThrough
<1>9. \A m, n \in 1 .. Cardinality(I) : m < n => e[m] < e[n]
  BY <1>2, <1>8
<1> QED
  BY <1>1, <1>8, <1>9 DEF e

\* The n-th message selected is the one at e[n].
Picks(s, I, e) ==
  /\ e \in [1 .. Cardinality(I) -> I]
  /\ \A n \in 1 .. Cardinality(I) : Selected(s, I)[n] = s[e[n]]
  /\ \A i \in I : \E n \in 1 .. Cardinality(I) : e[n] = i
  /\ \A m, n \in 1 .. Cardinality(I) : m < n => e[m] < e[n]

\* The messages selected, each from its own position and in the same order.
LEMMA SelectedOf ==
  ASSUME NEW S, NEW s \in Seq(S), NEW I \in SUBSET (1 .. Len(s))
  PROVE  /\ Selected(s, I) \in Seq(S) /\ Len(Selected(s, I)) = Cardinality(I)
         /\ Cardinality(I) \in Nat
         /\ \E e : Picks(s, I, e)
<1> DEFINE e == Positions(I)
           N == Cardinality(I)
<1>1. /\ N \in Nat /\ e \in [1 .. N -> I]
      /\ \A i \in I : \E n \in 1 .. N : e[n] = i
      /\ \A m, n \in 1 .. N : m < n => e[m] < e[n]
  <2>1. Len(s) \in Nat
    BY LenProperties
  <2> QED
    BY <2>1, PositionsOf
<1>2. Selected(s, I) = [n \in 1 .. N |-> s[e[n]]]
  BY DEF Selected
<1> HIDE DEF e, N
<1>3. ASSUME NEW n \in 1 .. N PROVE s[e[n]] \in S
  <2>1. e[n] \in 1 .. Len(s)
    BY <1>1
  <2> QED
    BY <2>1, ElementOfSeq
<1>4. Selected(s, I) \in [1 .. N -> S]
  BY <1>2, <1>3
<1>5. Selected(s, I) \in Seq(S) /\ Len(Selected(s, I)) = N
  BY <1>1, <1>4, FunctionIsSeq
<1>6. \A n \in 1 .. N : Selected(s, I)[n] = s[e[n]]
  BY <1>2
<1>7. Picks(s, I, e)
  BY <1>1, <1>6 DEF Picks, N
<1> QED
  BY <1>1, <1>5, <1>7 DEF N

-------------------------------------------------------------------------------
(* Calls and answers *)

\* STRING, with the names AgentTurn.tla uses written out: the provers do not know that a literal
\* is a string.
Name ==
  STRING \union {"message", "text", "result", "prompt", "scheduled_execution_mode", "run_checkpoint", "goal_tracker",
                 "feedback", "active_goal_continuation", "loop_guard", "warning"}
Message ==
  [role : {"user", "assistant", "system", "tool"}, calls : SUBSET Nat, of : Nat, size : Nat, name : Name]

\* Message k directly follows message h, with only tool messages in between.
Follows(s, h, k) == h < k /\ \A j \in h + 1 .. k : s[j].role = "tool"

\* Paired, of the messages themselves.
Heard(s, i) == \A c \in s[i].calls : \E k \in 1 .. Len(s) : Follows(s, i, k) /\ s[k].of = c
Owned(s, i) == \E h \in 1 .. Len(s) : Calls(s[h]) /\ Follows(s, h, i)
Whole(s) == \A i \in 1 .. Len(s) : (Calls(s[i]) => Heard(s, i)) /\ (s[i].role = "tool" => Owned(s, i))

LEMMA SeqFacts ==
  ASSUME NEW S, NEW s \in Seq(S)
  PROVE  Len(s) \in Nat /\ DOMAIN s = 1 .. Len(s) /\ \A i \in 1 .. Len(s) : s[i] \in S
BY LenProperties, ElementOfSeq

\* The answers after a message are those of the tool messages that follow it.
LEMMA BlockOf ==
  ASSUME NEW s \in Seq(Message), NEW i \in 1 .. Len(s)
  PROVE  /\ BlockEnd(s, i) \in i .. Len(s)
         /\ \A k \in 1 .. Len(s) : Follows(s, i, k) <=> k \in i + 1 .. BlockEnd(s, i)
<1> DEFINE T == {i} \union {j \in i + 1 .. Len(s) : \A k \in i + 1 .. j : s[k].role = "tool"}
<1>1. Len(s) \in Nat
  BY SeqFacts
<1>2. T \in SUBSET (0 .. Len(s)) /\ T # {}
  BY <1>1
<1>3. BlockEnd(s, i) = Max(T)
  BY DEF BlockEnd
<1>4. BlockEnd(s, i) \in T /\ \A k \in T : k <= BlockEnd(s, i)
  <2> HIDE DEF T
  <2> QED
    BY <1>1, <1>2, <1>3, MaxOf
<1>5. ASSUME NEW k \in 1 .. Len(s), Follows(s, i, k) PROVE k \in i + 1 .. BlockEnd(s, i)
  <2>1. k \in T
    BY <1>5, <1>1 DEF Follows
  <2>2. k <= BlockEnd(s, i)
    BY <2>1, <1>4
  <2>3. BlockEnd(s, i) \in Int
    BY <1>4, <1>1
  <2> QED
    BY <2>2, <2>3, <1>5, <1>1 DEF Follows
<1>6. ASSUME NEW k \in 1 .. Len(s), k \in i + 1 .. BlockEnd(s, i) PROVE Follows(s, i, k)
  <2> DEFINE e == BlockEnd(s, i)
  <2>1. e # i
    BY <1>6, <1>1
  <2>2. e \in i + 1 .. Len(s) /\ \A j \in i + 1 .. e : s[j].role = "tool"
    BY <2>1, <1>4
  <2> HIDE DEF e
  <2>3. k \in i + 1 .. e
    BY <1>6 DEF e
  <2> QED
    BY <2>2, <2>3, <1>1 DEF Follows
<1>7. BlockEnd(s, i) \in i .. Len(s)
  BY <1>4, <1>1
<1> QED
  BY <1>5, <1>6, <1>7

LEMMA AnswersOf ==
  ASSUME NEW s \in Seq(Message), NEW i \in 1 .. Len(s)
  PROVE  s[i].calls \subseteq AnswersIn(s, i) <=> Heard(s, i)
<1>1. Len(s) \in Nat
  BY SeqFacts
<1>2. BlockEnd(s, i) \in i .. Len(s) /\ \A k \in 1 .. Len(s) : Follows(s, i, k) <=> k \in i + 1 .. BlockEnd(s, i)
  BY BlockOf
<1>3. \A k \in i + 1 .. BlockEnd(s, i) : k \in 1 .. Len(s)
  BY <1>1, <1>2
<1> QED
  BY <1>2, <1>3 DEF AnswersIn, Heard

\* The owner of a tool message.
LEMMA OwnerOf ==
  ASSUME NEW s \in Seq(Message), NEW i \in 1 .. Len(s), s[i].role = "tool"
  PROVE  /\ Owner(s, i) \in 0 .. i - 1
         /\ Owner(s, i) # 0 => s[Owner(s, i)].role # "tool" /\ Follows(s, Owner(s, i), i)
         /\ \A h \in 1 .. Len(s) : s[h].role # "tool" /\ Follows(s, h, i) => Owner(s, i) = h
<1> DEFINE T == {0} \union {j \in 1 .. i - 1 : s[j].role # "tool"}
           h == Max(T)
<1>1. Len(s) \in Nat
  BY SeqFacts
<1>2. T \in SUBSET (0 .. i - 1) /\ T # {} /\ i - 1 \in Nat
  BY <1>1
<1>3. Owner(s, i) = h
  BY DEF Owner
<1>4. h \in T /\ \A k \in T : k <= h
  <2> HIDE DEF T
  <2> QED
    BY <1>2, MaxOf
<1>5. h \in 0 .. i - 1 /\ (h # 0 => s[h].role # "tool")
  <2> HIDE DEF h
  <2> QED
    BY <1>1, <1>4
<1>6. ASSUME NEW j \in h + 1 .. i PROVE s[j].role = "tool"
  <2>1. j # i => j \in 1 .. i - 1 /\ j \notin T
    <3> HIDE DEF h
    <3>1. j # i => j \in 1 .. i - 1 /\ ~ (j <= h)
      BY <1>5, <1>1
    <3> HIDE DEF T
    <3> QED
      BY <3>1, <1>4
  <2> QED
    BY <2>1
<1>7. Follows(s, h, i)
  <2> HIDE DEF h
  <2> QED
    BY <1>5, <1>6, <1>1 DEF Follows
<1>8. ASSUME NEW g \in 1 .. Len(s), s[g].role # "tool", Follows(s, g, i) PROVE h = g
  <2>1. g \in 1 .. i - 1
    BY <1>8, <1>1 DEF Follows
  <2>2. g <= h
    <3>1. g \in T
      BY <2>1, <1>8
    <3> HIDE DEF T, h
    <3> QED
      BY <3>1, <1>4
  <2>3. ~ (g < h)
    <3> HIDE DEF h
    <3>1. SUFFICES ASSUME g < h PROVE FALSE
      OBVIOUS
    <3>2. h \in g + 1 .. i /\ h # 0
      BY <3>1, <1>5, <2>1, <1>1
    <3> QED
      BY <3>2, <1>5, <1>8 DEF Follows
  <2> HIDE DEF h
  <2> QED
    BY <2>2, <2>3, <1>5, <1>1
<1> HIDE DEF h
<1> QED
  BY <1>3, <1>5, <1>7, <1>8

LEMMA CallsNoTool ==
  ASSUME NEW m, Calls(m)
  PROVE  m.role = "assistant" /\ m.role # "tool"
BY DEF Calls

LEMMA OwnedOf ==
  ASSUME NEW s \in Seq(Message), NEW i \in 1 .. Len(s), s[i].role = "tool"
  PROVE  (Owner(s, i) # 0 /\ Calls(s[Owner(s, i)])) <=> Owned(s, i)
<1>1. Len(s) \in Nat
  BY SeqFacts
<1>2. ASSUME Owner(s, i) # 0, Calls(s[Owner(s, i)]) PROVE Owned(s, i)
  <2>1. Owner(s, i) \in 0 .. i - 1 /\ Follows(s, Owner(s, i), i)
    BY <1>2, OwnerOf
  <2>2. Owner(s, i) \in 1 .. Len(s)
    BY <2>1, <1>1, <1>2
  <2> QED
    BY <1>2, <2>1, <2>2 DEF Owned
<1>3. ASSUME Owned(s, i) PROVE Owner(s, i) # 0 /\ Calls(s[Owner(s, i)])
  <2>1. PICK h \in 1 .. Len(s) : Calls(s[h]) /\ Follows(s, h, i)
    BY <1>3 DEF Owned
  <2>2. s[h].role # "tool"
    BY <2>1, CallsNoTool
  <2>3. Owner(s, i) = h
    BY <2>1, <2>2, OwnerOf
  <2> QED
    BY <2>1, <2>3, <1>1
<1> QED
  BY <1>2, <1>3

LEMMA PairedIsWhole ==
  ASSUME NEW s \in Seq(Message)
  PROVE  Paired(s) <=> Whole(s)
<1>1. DOMAIN s = 1 .. Len(s)
  BY SeqFacts
<1>2. Paired(s) <=> \A i \in 1 .. Len(s) :
        /\ Calls(s[i]) => s[i].calls \subseteq AnswersIn(s, i)
        /\ s[i].role = "tool" => (Owner(s, i) # 0 /\ Calls(s[Owner(s, i)]))
  BY <1>1 DEF Paired
<1>3. ASSUME NEW i \in 1 .. Len(s) PROVE s[i].calls \subseteq AnswersIn(s, i) <=> Heard(s, i)
  BY AnswersOf
<1>4. ASSUME NEW i \in 1 .. Len(s), s[i].role = "tool"
      PROVE  (Owner(s, i) # 0 /\ Calls(s[Owner(s, i)])) <=> Owned(s, i)
  BY <1>4, OwnedOf
<1> QED
  BY <1>2, <1>3, <1>4 DEF Whole

\* What is selected is whole, if every call selected is answered, with its answers, and every
\* answer with its call.
LEMMA SelectedWhole ==
  ASSUME NEW s \in Seq(Message), NEW I \in SUBSET (1 .. Len(s)),
         \A h \in I : Calls(s[h]) => Heard(s, h),
         \A h \in I, k \in 1 .. Len(s) : Calls(s[h]) /\ Follows(s, h, k) => k \in I,
         \A k \in I : s[k].role = "tool" => \E h \in I : Calls(s[h]) /\ Follows(s, h, k)
  PROVE  Whole(Selected(s, I))
<1> DEFINE q == Selected(s, I)
           N == Cardinality(I)
<1>1. q \in Seq(Message) /\ Len(q) = N /\ N \in Nat
  BY SelectedOf
<1>0. PICK e : Picks(s, I, e)
  BY SelectedOf
<1>2. /\ e \in [1 .. N -> I]
      /\ \A n \in 1 .. N : q[n] = s[e[n]]
      /\ \A i \in I : \E n \in 1 .. N : e[n] = i
      /\ \A m, n \in 1 .. N : m < n => e[m] < e[n]
  BY <1>0 DEF Picks
<1> HIDE DEF q, N
<1>3. Len(s) \in Nat
  BY SeqFacts
<1>4. \A n \in 1 .. N : e[n] \in I /\ e[n] \in 1 .. Len(s)
  BY <1>2
<1>5. ASSUME NEW m \in 1 .. N, NEW n \in 1 .. N, Follows(s, e[m], e[n]) PROVE Follows(q, m, n)
  <2>1. e[m] < e[n] /\ \A j \in e[m] + 1 .. e[n] : s[j].role = "tool"
    BY <1>5 DEF Follows
  <2>2. e[m] \in Int /\ e[n] \in Int
    BY <1>4, <1>3
  <2>3. m < n
    <3>1. m # n /\ ~ (n < m)
      BY <2>1, <2>2, <1>2
    <3> QED
      BY <3>1, <1>1
  <2>4. ASSUME NEW j \in m + 1 .. n PROVE q[j].role = "tool"
    <3>1. j \in 1 .. N /\ m < j /\ (j = n \/ j < n)
      BY <1>1
    <3>2. e[m] < e[j] /\ (j = n \/ e[j] < e[n]) /\ e[j] \in Int
      BY <3>1, <1>2, <1>3, <1>4
    <3>3. e[j] \in e[m] + 1 .. e[n]
      BY <3>2, <2>2
    <3> QED
      BY <3>1, <3>3, <2>1, <1>2
  <2> QED
    BY <2>3, <2>4 DEF Follows
<1>6. ASSUME NEW m \in 1 .. N, Calls(q[m]) PROVE Heard(q, m)
  <2>1. q[m] = s[e[m]] /\ e[m] \in I /\ Calls(s[e[m]])
    BY <1>2, <1>4, <1>6
  <2> SUFFICES ASSUME NEW c \in q[m].calls PROVE \E k \in 1 .. Len(q) : Follows(q, m, k) /\ q[k].of = c
    BY DEF Heard
  <2>2. PICK k \in 1 .. Len(s) : Follows(s, e[m], k) /\ s[k].of = c
    BY <2>1 DEF Heard
  <2>3. k \in I
    BY <2>1, <2>2
  <2>4. PICK n \in 1 .. N : e[n] = k
    BY <1>2, <2>3
  <2>5. Follows(q, m, n) /\ q[n].of = c
    BY <1>2, <1>5, <2>2, <2>4
  <2> QED
    BY <2>5, <1>1
<1>7. ASSUME NEW n \in 1 .. N, q[n].role = "tool" PROVE Owned(q, n)
  <2>1. q[n] = s[e[n]] /\ e[n] \in I
    BY <1>2, <1>4
  <2>2. PICK h \in I : Calls(s[h]) /\ Follows(s, h, e[n])
    BY <2>1, <1>7
  <2>3. PICK m \in 1 .. N : e[m] = h
    BY <1>2
  <2>4. Follows(q, m, n) /\ Calls(q[m])
    BY <1>2, <1>5, <2>2, <2>3
  <2> QED
    BY <2>4, <1>1 DEF Owned
<1>8. Whole(q)
  BY <1>1, <1>6, <1>7 DEF Whole
<1> QED
  BY <1>8 DEF q

LEMMA OwnerSelf ==
  ASSUME NEW s \in Seq(Message), NEW i \in 1 .. Len(s)
  PROVE  /\ s[i].role # "tool" => Owner(s, i) = i
         /\ Calls(s[i]) => Owner(s, i) = i
BY CallsNoTool DEF Owner

\* A message that follows a call is a tool message, and the call owns it.
LEMMA FollowsCall ==
  ASSUME NEW s \in Seq(Message), NEW h \in 1 .. Len(s), NEW k \in 1 .. Len(s), Calls(s[h]), Follows(s, h, k)
  PROVE  s[k].role = "tool" /\ Owner(s, k) = h
<1>1. Len(s) \in Nat
  BY SeqFacts
<1>2. k \in h + 1 .. k
  BY <1>1 DEF Follows
<1>3. s[k].role = "tool"
  BY <1>2 DEF Follows
<1>4. s[h].role # "tool"
  BY CallsNoTool
<1> QED
  BY <1>3, <1>4, OwnerOf

LEMMA SanitizedWhole ==
  ASSUME NEW s \in Seq(Message)
  PROVE  Sanitized(s) \in Seq(Message) /\ Whole(Sanitized(s))
<1> DEFINE Kept(i) == /\ Owner(s, i) # 0
                      /\ Owner(s, i) # i => Calls(s[Owner(s, i)])
                      /\ Calls(s[Owner(s, i)]) => s[Owner(s, i)].calls \subseteq AnswersIn(s, Owner(s, i))
           I == {i \in 1 .. Len(s) : Kept(i)}
<1>1. Len(s) \in Nat /\ DOMAIN s = 1 .. Len(s)
  BY SeqFacts
<1>2. Sanitized(s) = Selected(s, I)
  BY <1>1 DEF Sanitized
<1>3. ASSUME NEW h \in I, Calls(s[h]) PROVE Heard(s, h)
  <2>1. Owner(s, h) = h
    BY <1>3, OwnerSelf
  <2> QED
    BY <1>3, <2>1, AnswersOf
<1>4. ASSUME NEW h \in I, NEW k \in 1 .. Len(s), Calls(s[h]), Follows(s, h, k) PROVE k \in I
  <2>1. Owner(s, h) = h /\ Owner(s, k) = h
    BY <1>4, OwnerSelf, FollowsCall
  <2> QED
    BY <1>4, <2>1
<1>5. ASSUME NEW k \in I, s[k].role = "tool" PROVE \E h \in I : Calls(s[h]) /\ Follows(s, h, k)
  <2> DEFINE h == Owner(s, k)
  <2>1. h \in 0 .. k - 1 /\ h # 0 /\ Follows(s, h, k)
    BY <1>5, OwnerOf
  <2>2. h \in 1 .. Len(s) /\ h # k
    BY <2>1, <1>1
  <2>3. Calls(s[h]) /\ s[h].calls \subseteq AnswersIn(s, h)
    BY <2>2
  <2>4. Owner(s, h) = h
    BY <2>2, <2>3, OwnerSelf
  <2>5. h \in I
    BY <2>1, <2>2, <2>3, <2>4
  <2> QED
    BY <2>1, <2>3, <2>5
<1> HIDE DEF I
<1>6. I \in SUBSET (1 .. Len(s))
  BY DEF I
<1>7. Selected(s, I) \in Seq(Message) /\ Whole(Selected(s, I))
  BY <1>3, <1>4, <1>5, <1>6, SelectedWhole, SelectedOf
<1> QED
  BY <1>2, <1>7

LEMMA SelectedAll ==
  ASSUME NEW S, NEW s \in Seq(S)
  PROVE  Selected(s, 1 .. Len(s)) = s
<1> DEFINE I == 1 .. Len(s)
           N == Cardinality(I)
           q == Selected(s, I)
<1>1. Len(s) \in Nat
  BY SeqFacts
<1>2. N = Len(s)
  <2>1. N = IF 1 > Len(s) THEN 0 ELSE Len(s) - 1 + 1
    BY <1>1, FS_Interval
  <2> QED
    BY <1>1, <2>1
<1>3. q \in Seq(S) /\ Len(q) = N
  BY SelectedOf
<1>4. PICK e : Picks(s, I, e)
  BY SelectedOf
<1>5. /\ e \in [1 .. N -> I]
      /\ \A n \in 1 .. N : q[n] = s[e[n]]
      /\ \A i \in I : \E n \in 1 .. N : e[n] = i
      /\ \A m, n \in 1 .. N : m < n => e[m] < e[n]
  BY <1>4 DEF Picks
<1> HIDE DEF q
<1>6. ASSUME NEW n \in 1 .. N, e[n] # n PROVE FALSE
  <2> DEFINE T == {k \in 1 .. N : e[k] # k}
  <2>1. T \in SUBSET Nat /\ T # {}
    BY <1>6
  <2>2. PICK m \in T : \A k \in T : m <= k
    BY <2>1, Least
  <2>3. m \in 1 .. N /\ e[m] # m /\ e[m] \in I
    BY <1>5
  <2>4. \A k \in 1 .. N : k < m => e[k] = k
    BY <2>2, <1>2, <1>1
  <2>5. PICK k \in 1 .. N : e[k] = m
    BY <2>3, <1>2, <1>5
  <2>6. k > m
    BY <2>3, <2>4, <2>5, <1>1, <1>2
  <2>7. e[m] < m
    BY <2>3, <2>5, <2>6, <1>5
  <2>8. e[m] \in 1 .. N /\ e[e[m]] = e[m]
    BY <2>3, <2>4, <2>7, <1>1, <1>2
  <2>9. e[e[m]] < e[m]
    BY <2>3, <2>7, <2>8, <1>5
  <2> QED
    BY <2>3, <2>8, <2>9, <1>1
<1>7. \A n \in 1 .. Len(s) : q[n] = s[n]
  BY <1>2, <1>5, <1>6
<1>8. q = s
  BY <1>2, <1>3, <1>7, SeqEqual
<1> QED
  BY <1>8 DEF q

LEMMA SanitizedSame ==
  ASSUME NEW s \in Seq(Message), Whole(s)
  PROVE  Sanitized(s) = s
<1> DEFINE Kept(i) == /\ Owner(s, i) # 0
                      /\ Owner(s, i) # i => Calls(s[Owner(s, i)])
                      /\ Calls(s[Owner(s, i)]) => s[Owner(s, i)].calls \subseteq AnswersIn(s, Owner(s, i))
           I == {i \in 1 .. Len(s) : Kept(i)}
<1>1. Len(s) \in Nat /\ DOMAIN s = 1 .. Len(s)
  BY SeqFacts
<1>2. Sanitized(s) = Selected(s, I)
  BY <1>1 DEF Sanitized
<1>3. ASSUME NEW i \in 1 .. Len(s) PROVE Kept(i)
  <2>1. CASE s[i].role = "tool"
    <3>1. Owner(s, i) # 0 /\ Calls(s[Owner(s, i)]) /\ Owner(s, i) \in 0 .. i - 1
      BY <2>1, OwnedOf, OwnerOf DEF Whole
    <3>2. Owner(s, i) \in 1 .. Len(s)
      BY <3>1, <1>1
    <3>3. Heard(s, Owner(s, i))
      BY <3>1, <3>2 DEF Whole
    <3> QED
      BY <3>1, <3>2, <3>3, AnswersOf
  <2>2. CASE s[i].role # "tool"
    <3>1. Owner(s, i) = i
      BY <2>2, OwnerSelf
    <3>2. Calls(s[i]) => s[i].calls \subseteq AnswersIn(s, i)
      BY AnswersOf DEF Whole
    <3> QED
      BY <3>1, <3>2
  <2> QED
    BY <2>1, <2>2
<1>4. I = 1 .. Len(s)
  BY <1>3
<1> QED
  BY <1>2, <1>4, SelectedAll

\* What of finished turns is forgotten.
Forgotten(s) ==
  {i \in DOMAIN s : LET h == Owner(s, i) IN h # 0 /\ Calls(s[h]) /\ BlockEnd(s, h) < Max(Finals(s))}

LEMMA WithoutFinishedIs ==
  ASSUME NEW s \in Seq(Message)
  PROVE  /\ WithoutFinished(s) = s \/ (Finals(s) # {} /\ WithoutFinished(s) = Selected(s, DOMAIN s \ Forgotten(s)))
         /\ DOMAIN s \ Forgotten(s) \in SUBSET (1 .. Len(s))
         /\ WithoutFinished(s) \in Seq(Message)
<1>1. WithoutFinished(s) = s \/ (Finals(s) # {} /\ WithoutFinished(s) = Selected(s, DOMAIN s \ Forgotten(s)))
  BY DEF WithoutFinished, Forgotten
<1>2. DOMAIN s \ Forgotten(s) \in SUBSET (1 .. Len(s))
  BY SeqFacts
<1>3. Selected(s, DOMAIN s \ Forgotten(s)) \in Seq(Message)
  BY <1>2, SelectedOf
<1> QED
  BY <1>1, <1>2, <1>3

LEMMA WithoutFinishedWhole ==
  ASSUME NEW s \in Seq(Message), Whole(s)
  PROVE  Whole(WithoutFinished(s))
<1> DEFINE last == Max(Finals(s))
           I == DOMAIN s \ Forgotten(s)
<1>1. Len(s) \in Nat /\ DOMAIN s = 1 .. Len(s)
  BY SeqFacts
<1>2. I \in SUBSET (1 .. Len(s))
  BY <1>1
<1>3. \A h \in I : Calls(s[h]) => Heard(s, h)
  BY <1>2 DEF Whole
<1>4. ASSUME NEW h \in I, NEW k \in 1 .. Len(s), Calls(s[h]), Follows(s, h, k) PROVE k \in I
  <2>1. Owner(s, h) = h /\ Owner(s, k) = h /\ h \in 1 .. Len(s)
    BY <1>1, <1>4, OwnerSelf, FollowsCall
  <2> QED
    BY <1>1, <1>4, <2>1 DEF Forgotten
<1>5. ASSUME NEW k \in I, s[k].role = "tool" PROVE \E h \in I : Calls(s[h]) /\ Follows(s, h, k)
  <2>1. PICK h \in 1 .. Len(s) : Calls(s[h]) /\ Follows(s, h, k)
    BY <1>1, <1>5 DEF Whole, Owned
  <2>2. Owner(s, h) = h /\ Owner(s, k) = h /\ k \in 1 .. Len(s)
    BY <1>1, <2>1, OwnerSelf, FollowsCall
  <2>3. h \in I
    BY <1>1, <2>1, <2>2 DEF Forgotten
  <2> QED
    BY <2>1, <2>3
<1>6. Whole(Selected(s, I))
  <2> HIDE DEF I
  <2> QED
    BY <1>2, <1>3, <1>4, <1>5, SelectedWhole
<1> QED
  BY <1>6, WithoutFinishedIs

\* Only whole turns are forgotten, of any conversation.
LEMMA OpenTurnIsKept ==
  ASSUME NEW s \in Seq(Message)
  PROVE  OpenTurnKept(s)
<1> DEFINE last == Max(Finals(s) \union {0})
           I == DOMAIN s \ Forgotten(s)
           w == WithoutFinished(s)
<1>1. Len(s) \in Nat /\ DOMAIN s = 1 .. Len(s)
  BY SeqFacts
<1> SUFFICES ASSUME NEW i \in 1 .. Len(s), i > last, Calls(s[i]) PROVE \E j \in DOMAIN w : w[j] = s[i]
  BY <1>1 DEF OpenTurnKept
<1>2. CASE w = s
  BY <1>1, <1>2
<1>3. CASE Finals(s) # {} /\ w = Selected(s, I)
  <2>1. Finals(s) \in SUBSET (0 .. Len(s)) /\ Finals(s) \union {0} \in SUBSET (0 .. Len(s))
    BY <1>1 DEF Finals
  <2>2. Max(Finals(s)) \in Finals(s) /\ \A k \in Finals(s) \union {0} : k <= last
    BY <1>1, <1>3, <2>1, MaxOf
  <2>3. Max(Finals(s)) <= last
    BY <2>2
  <2>4. Owner(s, i) = i /\ BlockEnd(s, i) \in i .. Len(s)
    BY OwnerSelf, BlockOf
  <2>5. last \in 0 .. Len(s) /\ Max(Finals(s)) \in 0 .. Len(s)
    BY <1>1, <2>1, <2>2, MaxOf
  <2>6. ~ (BlockEnd(s, i) < Max(Finals(s)))
    <3> HIDE DEF last
    <3> QED
      BY <1>1, <2>3, <2>4, <2>5
  <2>7. i \in I
    BY <1>1, <2>4, <2>6 DEF Forgotten
  <2>8. PICK e : Picks(s, I, e)
    BY <1>1, SelectedOf
  <2>9. PICK n \in 1 .. Cardinality(I) : e[n] = i
    BY <2>7, <2>8 DEF Picks
  <2>10. Selected(s, I)[n] = s[i]
    BY <2>8, <2>9 DEF Picks
  <2>11. DOMAIN Selected(s, I) = 1 .. Cardinality(I)
    BY <1>1, SelectedOf, SeqFacts
  <2> QED
    BY <1>3, <2>9, <2>10, <2>11
<1> QED
  BY <1>2, <1>3, WithoutFinishedIs

\* What is shown to the model is well formed, of any conversation.
LEMMA CleaningPairs ==
  ASSUME NEW s \in Seq(Message)
  PROVE  CleanedIsPaired(s)
<1>1. Paired(Sanitized(s))
  BY SanitizedWhole, PairedIsWhole
<1>2. Paired(s) => Sanitized(s) = s
  BY SanitizedSame, PairedIsWhole
<1>3. Paired(s) => Paired(WithoutFinished(s))
  BY WithoutFinishedWhole, WithoutFinishedIs, PairedIsWhole
<1> QED
  BY <1>1, <1>2, <1>3 DEF CleanedIsPaired

-------------------------------------------------------------------------------
(* The limit *)

LEMMA MessageFacts ==
  ASSUME NEW s \in Seq(Message)
  PROVE  \A i \in 1 .. Len(s) : s[i] \in Message /\ s[i].size \in Nat
<1>1. \A m \in Message : m.size \in Nat
  BY DEF Message
<1> QED
  BY <1>1, SeqFacts

SumsTo(s, c) == c \in [0 .. Len(s) -> Nat] /\ c[0] = 0 /\ \A n \in 1 .. Len(s) : c[n] = c[n - 1] + s[n].size

LEMMA CharsOf ==
  ASSUME NEW s \in Seq(Message)
  PROVE  Chars(s) \in Nat /\ \E c : SumsTo(s, c) /\ Chars(s) = c[Len(s)]
<1> DEFINE N == Len(s)
           Equation(g) == g = [n \in 0 .. N |-> IF n = 0 THEN 0 ELSE g[n - 1] + s[n].size]
           sum == CHOOSE g : Equation(g)
           f == [p \in Nat \X Nat |-> IF p[2] \in 1 .. N THEN p[1] + s[p[2]].size ELSE 0]
<1>1. N \in Nat /\ \A i \in 1 .. N : s[i] \in Message /\ s[i].size \in Nat
  BY SeqFacts, MessageFacts
<1>2. f \in [Nat \X Nat -> Nat]
  <2>1. ASSUME NEW p \in Nat \X Nat PROVE (IF p[2] \in 1 .. N THEN p[1] + s[p[2]].size ELSE 0) \in Nat
    <3>1. p[1] \in Nat /\ p[2] \in Nat
      OBVIOUS
    <3>2. p[2] \in 1 .. N => s[p[2]].size \in Nat
      BY <1>1
    <3> QED
      BY <3>1, <3>2
  <2> QED
    BY <2>1
<1>3. \A x, n \in Nat : n \in 1 .. N => f[<<x, n>>] = x + s[n].size
  OBVIOUS
<1> HIDE DEF f
<1>4a. PICK c : History(c, Nat, 0, f, N)
  BY <1>1, <1>2, Recursion
<1>4. c \in [0 .. N -> Nat] /\ c[0] = 0 /\ \A n \in 1 .. N : c[n] = f[<<c[n - 1], n>>]
  BY <1>4a DEF History
<1>5. ASSUME NEW n \in 1 .. N PROVE c[n] = c[n - 1] + s[n].size
  <2>1. c[n - 1] \in Nat /\ n \in Nat
    BY <1>1, <1>4
  <2> QED
    BY <2>1, <1>3, <1>4
<1>6. Equation(c)
  <2>1. ASSUME NEW n \in 0 .. N PROVE c[n] = IF n = 0 THEN 0 ELSE c[n - 1] + s[n].size
    BY <1>4, <1>5, <1>1
  <2> QED
    BY <2>1, <1>4
<1>7. Equation(sum)
  BY <1>6
<1>8. Chars(s) = sum[N]
  BY DEF Chars
<1> HIDE DEF sum
<1>9. sum[0] = 0 /\ \A n \in 1 .. N : sum[n] = sum[n - 1] + s[n].size
  BY <1>1, <1>7
<1>10. \A n \in 0 .. N : sum[n] \in Nat
  <2> DEFINE P == {n \in 0 .. N : sum[n] \in Nat}
  <2>1. 0 \in P
    BY <1>1, <1>9
  <2>2. ASSUME NEW n \in 0 .. N, n # 0, n - 1 \in P PROVE n \in P
    <3>1. n \in 1 .. N /\ sum[n - 1] \in Nat
      BY <2>2, <1>1
    <3>2. sum[n] = sum[n - 1] + s[n].size /\ s[n].size \in Nat
      BY <3>1, <1>1, <1>9
    <3> QED
      BY <3>1, <3>2
  <2> HIDE DEF P
  <2>3. \A n \in 0 .. N : n \in P
    BY <2>1, <2>2, <1>1, Induction
  <2> QED
    BY <2>3 DEF P
<1>11. sum \in [0 .. N -> Nat]
  BY <1>7, <1>10
<1>12. SumsTo(s, sum)
  BY <1>9, <1>11 DEF SumsTo
<1>13. sum[N] \in Nat
  BY <1>1, <1>10
<1> QED
  BY <1>8, <1>12, <1>13

\* A message of another size changes the sum by the difference.
LEMMA CharsResized ==
  ASSUME NEW s \in Seq(Message), NEW t \in Seq(Message), NEW i \in 1 .. Len(s), Len(t) = Len(s),
         \A j \in 1 .. Len(s) : j # i => t[j] = s[j]
  PROVE  Chars(t) = Chars(s) - s[i].size + t[i].size
<1> DEFINE N == Len(s)
<1>1. N \in Nat /\ \A j \in 1 .. N : s[j].size \in Nat /\ t[j].size \in Nat
  <2>1. \A j \in 1 .. Len(t) : t[j].size \in Nat
    BY MessageFacts
  <2> QED
    BY <2>1, SeqFacts, MessageFacts
<1>2. PICK c : SumsTo(s, c) /\ Chars(s) = c[N]
  BY CharsOf
<1>3. PICK d : SumsTo(t, d) /\ Chars(t) = d[N]
  BY CharsOf
<1>4. c \in [0 .. N -> Nat] /\ c[0] = 0 /\ \A n \in 1 .. N : c[n] = c[n - 1] + s[n].size
  BY <1>2 DEF SumsTo
<1>5. d \in [0 .. N -> Nat] /\ d[0] = 0 /\ \A n \in 1 .. N : d[n] = d[n - 1] + t[n].size
  BY <1>3 DEF SumsTo
<1> DEFINE P == {n \in 0 .. N : d[n] = c[n] + IF n >= i THEN t[i].size - s[i].size ELSE 0}
<1>6. 0 \in P
  BY <1>1, <1>4, <1>5
<1>7. ASSUME NEW n \in 0 .. N, n # 0, n - 1 \in P PROVE n \in P
  <2>1. n \in 1 .. N /\ d[n - 1] = c[n - 1] + (IF n - 1 >= i THEN t[i].size - s[i].size ELSE 0)
    BY <1>7, <1>1
  <2>2. d[n] = d[n - 1] + t[n].size /\ c[n] = c[n - 1] + s[n].size
    BY <2>1, <1>4, <1>5
  <2>3. c[n] \in Nat /\ d[n] \in Nat /\ c[n - 1] \in Nat /\ d[n - 1] \in Nat
    <3> HIDE DEF N
    <3>1. n \in 0 .. N /\ n - 1 \in 0 .. N
      BY <1>7, <2>1, <1>1
    <3> QED
      BY <3>1, <1>4, <1>5
  <2>4. s[n].size \in Nat /\ t[n].size \in Nat /\ s[i].size \in Nat /\ t[i].size \in Nat
    BY <2>1, <1>1
  <2>5. CASE n = i
    BY <2>1, <2>2, <2>3, <2>4, <2>5
  <2>6. CASE n # i
    <3>1. t[n].size = s[n].size
      BY <2>1, <2>6
    <3>2. d[n] = c[n] + IF n >= i THEN t[i].size - s[i].size ELSE 0
      <4> HIDE DEF N
      <4>1. i \in Int /\ n \in Int /\ (n - 1 >= i <=> n >= i)
        BY <1>1, <2>6 DEF N
      <4>2. CASE n >= i
        <5>1. d[n - 1] = c[n - 1] + (t[i].size - s[i].size)
          BY <4>1, <4>2, <2>1
        <5> DEFINE x == d[n - 1]  y == c[n - 1]  u == s[n].size  v == t[i].size  w == s[i].size
        <5>2. d[n] = x + u /\ c[n] = y + u /\ x = y + (v - w)
          BY <3>1, <5>1, <2>2
        <5>3. x \in Int /\ y \in Int /\ u \in Int /\ v \in Int /\ w \in Int
          BY <2>3, <2>4
        <5> HIDE DEF x, y, u, v, w
        <5>4. d[n] = c[n] + (v - w)
          BY <5>2, <5>3
        <5> QED
          BY <5>4, <4>2 DEF v, w
      <4>3. CASE ~ (n >= i)
        BY <3>1, <4>1, <4>3, <2>1, <2>2, <2>3, <2>4
      <4> QED
        BY <4>2, <4>3
    <3> QED
      BY <3>2
  <2> QED
    BY <2>5, <2>6
<1> HIDE DEF P
<1>8. \A n \in 0 .. N : n \in P
  BY <1>1, <1>6, <1>7, Induction
<1>9. N \in P
  BY <1>1, <1>8
<1>10. d[N] = c[N] + (t[i].size - s[i].size)
  BY <1>1, <1>9 DEF P
<1>11. c[N] \in Nat /\ d[N] \in Nat /\ s[i].size \in Nat /\ t[i].size \in Nat
  BY <1>1, <1>4, <1>5
<1> QED
  BY <1>2, <1>3, <1>10, <1>11

SameShape(s, t) ==
  /\ Len(t) = Len(s)
  /\ \A j \in 1 .. Len(s) : /\ t[j].role = s[j].role /\ t[j].calls = s[j].calls
                            /\ t[j].of = s[j].of /\ t[j].name = s[j].name

\* One cut: only this message is shorter, and the limit is kept or it is cut to the least.
OneCut(s, i, limit, t) ==
  /\ t \in Seq(Message) /\ SameShape(s, t)
  /\ \A j \in 1 .. Len(s) : j # i => t[j] = s[j]
  /\ t[i].size <= s[i].size
  /\ Chars(s) <= limit => t = s
  /\ Chars(t) <= limit \/ t[i].size <= MinChars

LEMMA CutOf ==
  ASSUME NEW s \in Seq(Message), NEW i \in 1 .. Len(s), NEW limit \in Nat
  PROVE  OneCut(s, i, limit, Cut(s, i, limit))
<1> DEFINE over == Chars(s) - limit
           desired == Max({MinChars, s[i].size - over})
           u == [s EXCEPT ![i].size = desired]
           t == Cut(s, i, limit)
<1>1. /\ Len(s) \in Nat /\ s[i] \in Message /\ s[i].size \in Nat /\ Chars(s) \in Nat
      /\ MinChars \in Nat /\ over \in Int
  BY SeqFacts, MessageFacts, CharsOf, WindowAssumption
<1>2. desired \in {MinChars, s[i].size - over} /\ MinChars <= desired /\ s[i].size - over <= desired
  <2> DEFINE y == s[i].size - over
  <2>1. y \in Int
    BY <1>1
  <2> HIDE DEF y
  <2>2. \E x \in {MinChars, y} : \A z \in {MinChars, y} : x >= z
    BY <1>1, <2>1
  <2>3. Max({MinChars, y}) \in {MinChars, y} /\ \A z \in {MinChars, y} : Max({MinChars, y}) >= z
    BY <2>2 DEF Max
  <2>4. MinChars <= Max({MinChars, y}) /\ y <= Max({MinChars, y})
    BY <1>1, <2>1, <2>3
  <2> QED
    BY <2>3, <2>4 DEF y
<1>3. t = IF over <= 0 \/ s[i].size <= desired THEN s ELSE u
  BY DEF Cut
<1>4. desired \in Nat
  BY <1>1, <1>2
<1> HIDE DEF desired, over
<1>5. [s[i] EXCEPT !.size = desired] \in Message
  BY <1>1, <1>4 DEF Message
<1>6. /\ u \in Seq(Message) /\ Len(u) = Len(s)
      /\ \A j \in 1 .. Len(s) : u[j] = IF j = i THEN [s[i] EXCEPT !.size = desired] ELSE s[j]
  BY <1>5, ExceptSeq
<1> HIDE DEF u
<1>7. u[i] = [s[i] EXCEPT !.size = desired]
  BY <1>6
<1>8. u[i].size = desired /\ u[i].role = s[i].role /\ u[i].calls = s[i].calls /\ u[i].of = s[i].of /\ u[i].name = s[i].name
  BY <1>1, <1>7 DEF Message
<1>9. SameShape(s, u) /\ \A j \in 1 .. Len(s) : j # i => u[j] = s[j]
  BY <1>6, <1>8 DEF SameShape
<1>10. Chars(u) = Chars(s) - s[i].size + desired
  BY <1>6, <1>8, <1>9, CharsResized
<1>11. SameShape(s, s)
  BY DEF SameShape
<1> HIDE DEF t
<1>12. over = Chars(s) - limit
  BY DEF over
<1>13. CASE over <= 0
  <2>1. t = s
    BY <1>3, <1>13
  <2>2. Chars(s) <= limit
    BY <1>1, <1>12, <1>13
  <2> QED
    BY <1>1, <1>11, <2>1, <2>2 DEF t, OneCut
<1>14. CASE ~ (over <= 0) /\ s[i].size <= desired
  <2>1. t = s
    BY <1>3, <1>14
  <2>2. desired = MinChars
    BY <1>1, <1>2, <1>14
  <2> QED
    BY <1>1, <1>11, <1>14, <2>1, <2>2 DEF t, OneCut
<1>15. CASE ~ (over <= 0) /\ ~ (s[i].size <= desired)
  <2>1. t = u
    BY <1>3, <1>15
  <2>2. ~ (Chars(s) <= limit)
    BY <1>1, <1>12, <1>15
  <2>3. Chars(u) <= limit \/ u[i].size <= MinChars
    BY <1>1, <1>2, <1>4, <1>8, <1>10, <1>12
  <2>4. u[i].size <= s[i].size
    BY <1>1, <1>4, <1>8, <1>15
  <2> QED
    BY <1>6, <1>9, <2>1, <2>2, <2>3, <2>4 DEF t, OneCut
<1> QED
  BY <1>13, <1>14, <1>15

\* The contexts between the cuts.
CutSteps(s, order, limit, c) ==
  /\ c[0] = s
  /\ \A n \in 0 .. Len(order) : c[n] \in Seq(Message) /\ Len(c[n]) = Len(s)
  /\ \A n \in 1 .. Len(order) : c[n] = Cut(c[n - 1], order[n], limit)

LEMMA CutStepsOf ==
  ASSUME NEW s \in Seq(Message), NEW order \in Seq(1 .. Len(s)), NEW limit \in Nat
  PROVE  \E c : CutSteps(s, order, limit, c) /\ CutInOrder(s, order, limit) = c[Len(order)]
<1> DEFINE N == Len(order)
           S == {x \in Seq(Message) : Len(x) = Len(s)}
           Equation(g) == g = [n \in 0 .. N |-> IF n = 0 THEN s ELSE Cut(g[n - 1], order[n], limit)]
           cut == CHOOSE g : Equation(g)
           f == [p \in S \X Nat |-> IF p[2] \in 1 .. N THEN Cut(p[1], order[p[2]], limit) ELSE p[1]]
<1>1. N \in Nat /\ \A n \in 1 .. N : order[n] \in 1 .. Len(s)
  BY SeqFacts
<1>2. s \in S
  OBVIOUS
<1>3. ASSUME NEW x \in S, NEW n \in 1 .. N PROVE Cut(x, order[n], limit) \in S
  <2>1. x \in Seq(Message) /\ Len(x) = Len(s) /\ order[n] \in 1 .. Len(x)
    BY <1>1
  <2>2. Cut(x, order[n], limit) \in Seq(Message) /\ SameShape(x, Cut(x, order[n], limit))
    BY <2>1, CutOf DEF OneCut
  <2> QED
    BY <2>1, <2>2 DEF SameShape
<1> HIDE DEF S
<1>4. f \in [S \X Nat -> S]
  <2>1. ASSUME NEW p \in S \X Nat PROVE (IF p[2] \in 1 .. N THEN Cut(p[1], order[p[2]], limit) ELSE p[1]) \in S
    <3>1. p[1] \in S
      OBVIOUS
    <3>2. p[2] \in 1 .. N => Cut(p[1], order[p[2]], limit) \in S
      BY <3>1, <1>3
    <3> QED
      BY <3>1, <3>2
  <2> QED
    BY <2>1
<1>5. \A x \in S, n \in Nat : n \in 1 .. N => f[<<x, n>>] = Cut(x, order[n], limit)
  OBVIOUS
<1> HIDE DEF f
<1>6. PICK c : History(c, S, s, f, N)
  BY <1>1, <1>2, <1>4, Recursion
<1>7. c \in [0 .. N -> S] /\ c[0] = s /\ \A n \in 1 .. N : c[n] = f[<<c[n - 1], n>>]
  BY <1>6 DEF History
<1>8. ASSUME NEW n \in 1 .. N PROVE c[n] = Cut(c[n - 1], order[n], limit)
  <2>1. c[n - 1] \in S /\ n \in Nat
    BY <1>1, <1>7
  <2> QED
    BY <2>1, <1>5, <1>7
<1>9. Equation(c)
  <2>1. ASSUME NEW n \in 0 .. N PROVE c[n] = IF n = 0 THEN s ELSE Cut(c[n - 1], order[n], limit)
    BY <1>7, <1>8, <1>1
  <2> QED
    BY <2>1, <1>7
<1>10. Equation(cut)
  BY <1>9
<1>11. CutInOrder(s, order, limit) = cut[N]
  BY DEF CutInOrder
<1> HIDE DEF cut
<1>12. cut[0] = s /\ \A n \in 1 .. N : cut[n] = Cut(cut[n - 1], order[n], limit)
  <2>1. ASSUME NEW n \in 0 .. N PROVE cut[n] = IF n = 0 THEN s ELSE Cut(cut[n - 1], order[n], limit)
    BY <1>10
  <2> QED
    BY <2>1, <1>1
<1>13. \A n \in 0 .. N : cut[n] \in S
  <2> DEFINE P == {n \in 0 .. N : cut[n] \in S}
  <2>1. 0 \in P
    BY <1>1, <1>2, <1>12
  <2>2. ASSUME NEW n \in 0 .. N, n # 0, n - 1 \in P PROVE n \in P
    <3>1. n \in 1 .. N /\ cut[n - 1] \in S
      BY <2>2, <1>1
    <3> QED
      BY <3>1, <1>3, <1>12
  <2> HIDE DEF P
  <2>3. \A n \in 0 .. N : n \in P
    BY <2>1, <2>2, <1>1, Induction
  <2> QED
    BY <2>3 DEF P
<1>14. CutSteps(s, order, limit, cut)
  <2>1. \A n \in 0 .. N : cut[n] \in Seq(Message) /\ Len(cut[n]) = Len(s)
    BY <1>13 DEF S
  <2> QED
    BY <2>1, <1>12 DEF CutSteps
<1> QED
  BY <1>11, <1>14

\* What n cuts have done.
Cutting(s, order, limit, t, n) ==
  /\ SameShape(s, t)
  /\ \A j \in 1 .. Len(s) : t[j].size <= s[j].size
  /\ \A j \in 1 .. Len(s) : (\A m \in 1 .. n : order[m] # j) => t[j] = s[j]
  /\ Chars(t) <= limit \/ \A m \in 1 .. n : t[order[m]].size <= MinChars
  /\ Chars(s) <= limit => t = s

LEMMA CuttingStep ==
  ASSUME NEW s \in Seq(Message), NEW order \in Seq(1 .. Len(s)), NEW limit \in Nat,
         NEW t \in Seq(Message), NEW n \in 1 .. Len(order), Cutting(s, order, limit, t, n - 1)
  PROVE  Cutting(s, order, limit, Cut(t, order[n], limit), n)
<1> DEFINE u == Cut(t, order[n], limit)
           i == order[n]
<1>1. Len(order) \in Nat /\ Len(s) \in Nat /\ i \in 1 .. Len(s) /\ \A m \in 1 .. n : order[m] \in 1 .. Len(s)
  BY SeqFacts
<1>2. Len(t) = Len(s) /\ SameShape(s, t)
  BY DEF Cutting, SameShape
<1>3. /\ u \in Seq(Message) /\ SameShape(t, u)
      /\ \A j \in 1 .. Len(s) : j # i => u[j] = t[j]
      /\ u[i].size <= t[i].size
      /\ Chars(t) <= limit => u = t
      /\ Chars(u) <= limit \/ u[i].size <= MinChars
  <2>1. i \in 1 .. Len(t)
    BY <1>1, <1>2
  <2>2. OneCut(t, i, limit, u)
    BY <2>1, CutOf
  <2> HIDE DEF u
  <2> QED
    BY <1>2, <2>2 DEF OneCut
<1>4. \A j \in 1 .. Len(s) : s[j].size \in Nat /\ t[j].size \in Nat /\ u[j].size \in Nat
  <2>1. Len(u) = Len(s)
    BY <1>2, <1>3 DEF SameShape
  <2> HIDE DEF u
  <2> QED
    BY <1>2, <1>3, <2>1, MessageFacts
<1> HIDE DEF u
<1>5. SameShape(s, u)
  BY <1>2, <1>3 DEF SameShape
<1>6. ASSUME NEW j \in 1 .. Len(s) PROVE u[j].size <= t[j].size
  <2>1. CASE j = i
    BY <1>3, <2>1
  <2>2. CASE j # i
    <3>1. u[j] = t[j]
      BY <1>3, <2>2
    <3> QED
      BY <3>1, <1>4
  <2> QED
    BY <2>1, <2>2
<1>7. ASSUME NEW j \in 1 .. Len(s) PROVE u[j].size <= s[j].size
  <2>1. t[j].size <= s[j].size
    BY DEF Cutting
  <2>2. s[j].size \in Int /\ t[j].size \in Int /\ u[j].size \in Int /\ u[j].size <= t[j].size
    BY <1>4, <1>6
  <2> QED
    BY <2>1, <2>2, AtMost
<1>8. ASSUME NEW j \in 1 .. Len(s), \A m \in 1 .. n : order[m] # j PROVE u[j] = s[j]
  <2>1. j # i
    BY <1>1, <1>8
  <2>2. \A m \in 1 .. n - 1 : order[m] # j
    BY <1>1, <1>8
  <2>3. t[j] = s[j]
    BY <2>2 DEF Cutting
  <2> QED
    BY <2>1, <2>3, <1>3
<1>9. Chars(u) <= limit \/ \A m \in 1 .. n : u[order[m]].size <= MinChars
  <2>1. CASE Chars(t) <= limit
    BY <1>3, <2>1
  <2>2. CASE ~ (Chars(t) <= limit) /\ ~ (Chars(u) <= limit)
    <3>1. \A m \in 1 .. n - 1 : t[order[m]].size <= MinChars
      BY <2>2 DEF Cutting
    <3>2. ASSUME NEW m \in 1 .. n PROVE u[order[m]].size <= MinChars
      <4>1. CASE m = n
        BY <4>1, <1>3, <2>2
      <4>2. CASE m # n
        <5>1. t[order[m]].size <= MinChars
          BY <3>1, <4>2, <1>1
        <5>2. order[m] \in 1 .. Len(s)
          BY <1>1
        <5>3. t[order[m]].size \in Int /\ u[order[m]].size \in Int /\ u[order[m]].size <= t[order[m]].size /\ MinChars \in Int
          <6>1. t[order[m]].size \in Int /\ u[order[m]].size \in Int
            BY <5>2, <1>4
          <6>2. u[order[m]].size <= t[order[m]].size
            BY <5>2, <1>6
          <6>3. MinChars \in Int
            BY WindowAssumption
          <6> QED
            BY <6>1, <6>2, <6>3
        <5> QED
          BY <5>1, <5>3, AtMost
      <4> QED
        BY <4>1, <4>2
    <3> QED
      BY <3>2
  <2> QED
    BY <2>1, <2>2
<1>10. Chars(s) <= limit => u = s
  <2> SUFFICES ASSUME Chars(s) <= limit PROVE u = s
    OBVIOUS
  <2>1. t = s
    BY DEF Cutting
  <2> QED
    BY <2>1, <1>3
<1>11. Cutting(s, order, limit, u, n)
  BY <1>5, <1>7, <1>8, <1>9, <1>10 DEF Cutting
<1> QED
  BY <1>11 DEF u

\* Cuts in an order keep everything but sizes, reach the limit or cut all there is to cut, and
\* cut the last message only when they have cut all others.
LEMMA CutInOrderOf ==
  ASSUME NEW s \in Seq(Message), NEW order \in Seq(1 .. Len(s)), NEW limit \in Nat
  PROVE  LET t == CutInOrder(s, order, limit)
             N == Len(order) IN
         /\ t \in Seq(Message) /\ Cutting(s, order, limit, t, N)
         /\ (N # 0 /\ t[order[N]] # s[order[N]] /\ \A m \in 1 .. N - 1 : order[m] # order[N])
              => \A m \in 1 .. N - 1 : t[order[m]].size <= MinChars
<1> DEFINE N == Len(order)
           t == CutInOrder(s, order, limit)
<1>1. N \in Nat /\ Len(s) \in Nat /\ \A m \in 1 .. N : order[m] \in 1 .. Len(s)
  BY SeqFacts
<1>2. PICK c : CutSteps(s, order, limit, c) /\ t = c[N]
  BY CutStepsOf
<1>3. /\ c[0] = s
      /\ \A n \in 0 .. N : c[n] \in Seq(Message) /\ Len(c[n]) = Len(s)
      /\ \A n \in 1 .. N : c[n] = Cut(c[n - 1], order[n], limit)
  BY <1>2 DEF CutSteps
<1> HIDE DEF t
<1> DEFINE P == {n \in 0 .. N : Cutting(s, order, limit, c[n], n)}
<1>4. 0 \in P
  <2>1. SameShape(s, s)
    BY DEF SameShape
  <2>2. \A j \in 1 .. Len(s) : s[j].size <= s[j].size
    BY MessageFacts
  <2>3. Cutting(s, order, limit, s, 0)
    BY <2>1, <2>2 DEF Cutting
  <2> QED
    BY <2>3, <1>1, <1>3
<1>5. ASSUME NEW n \in 0 .. N, n # 0, n - 1 \in P PROVE n \in P
  <2>1. n \in 1 .. N /\ n - 1 \in 0 .. N /\ Cutting(s, order, limit, c[n - 1], n - 1)
    BY <1>1, <1>5
  <2>2. Cutting(s, order, limit, Cut(c[n - 1], order[n], limit), n)
    BY <2>1, <1>3, CuttingStep
  <2> QED
    BY <2>1, <2>2, <1>3
<1> HIDE DEF P
<1>6. \A n \in 0 .. N : n \in P
  BY <1>1, <1>4, <1>5, Induction
<1>7. \A n \in 0 .. N : Cutting(s, order, limit, c[n], n)
  BY <1>6 DEF P
<1>8. t \in Seq(Message) /\ Cutting(s, order, limit, t, N)
  BY <1>1, <1>2, <1>3, <1>7
<1>9. ASSUME N # 0, t[order[N]] # s[order[N]], \A m \in 1 .. N - 1 : order[m] # order[N], NEW m \in 1 .. N - 1
      PROVE  t[order[m]].size <= MinChars
  <2> DEFINE u == c[N - 1]
  <2>1. N \in 1 .. N /\ N - 1 \in 0 .. N /\ m \in 1 .. N /\ order[N] \in 1 .. Len(s) /\ order[m] \in 1 .. Len(s)
    BY <1>1, <1>9
  <2>2. u \in Seq(Message) /\ Len(u) = Len(s) /\ Cutting(s, order, limit, u, N - 1) /\ t = Cut(u, order[N], limit)
    BY <2>1, <1>2, <1>3, <1>7
  <2> HIDE DEF u
  <2>3. u[order[N]] = s[order[N]]
    BY <2>1, <2>2, <1>9 DEF Cutting
  <2>4. t # u
    BY <2>3, <1>9
  <2>5. ~ (Chars(u) <= limit) /\ \A j \in 1 .. Len(s) : j # order[N] => t[j] = u[j]
    <3>1. OneCut(u, order[N], limit, t)
      BY <2>1, <2>2, CutOf
    <3> QED
      BY <2>2, <2>4, <3>1 DEF OneCut
  <2>6. u[order[m]].size <= MinChars
    BY <2>2, <2>5 DEF Cutting
  <2>7. t[order[m]] = u[order[m]]
    BY <2>1, <2>5, <1>9
  <2> QED
    BY <2>6, <2>7
<1> QED
  BY <1>8, <1>9 DEF t

LEMMA NewestOf ==
  ASSUME NEW N \in Nat, NEW I \in SUBSET (1 .. N)
  PROVE  Newest(I) \in I \union {0} /\ Newest(I) \in 0 .. N
<1>1. I \union {0} \in SUBSET (0 .. N) /\ I \union {0} # {}
  OBVIOUS
<1>2. Newest(I) \in I \union {0}
  BY <1>1, MaxOf DEF Newest
<1> QED
  BY <1>1, <1>2

\* The order in which tool messages are cut.
Larger(s, i, j) ==
  IF Newest(Of(s, "tool")) \in {i, j} THEN i # j /\ j = Newest(Of(s, "tool"))
  ELSE s[i].size > s[j].size \/ (s[i].size = s[j].size /\ i < j)
ToolOrder(s) == Ordered(Of(s, "tool"), LAMBDA i, j : Larger(s, i, j))

LEMMA ToolOrderOf ==
  ASSUME NEW s \in Seq(Message)
  PROVE  /\ ToolOrder(s) \in Seq(1 .. Len(s))
         /\ \A n \in 1 .. Len(ToolOrder(s)) : ToolOrder(s)[n] \in Of(s, "tool")
         /\ \A i \in Of(s, "tool") : \E n \in 1 .. Len(ToolOrder(s)) : ToolOrder(s)[n] = i
<1> DEFINE I == Of(s, "tool")
           N == Cardinality(I)
           e == ToolOrder(s)
           R == {p \in I \X I : Larger(s, p[1], p[2])}
<1>1. Len(s) \in Nat /\ DOMAIN s = 1 .. Len(s) /\ I \in SUBSET (1 .. Len(s))
  BY SeqFacts DEF Of
<1>2. IsFiniteSet(I)
  <2>1. IsFiniteSet(1 .. Len(s))
    BY <1>1, FS_Interval
  <2> QED
    BY <1>1, <2>1, FS_Subset
<1>3. \A i, j \in I : <<i, j>> \in R <=> Larger(s, i, j)
  OBVIOUS
<1>4. \A i \in I : i \in Int /\ s[i].size \in Int
  BY <1>1, MessageFacts
<1>5. \A i \in I : ~ Larger(s, i, i)
  BY <1>4 DEF Larger
<1>6. \A i, j \in I : i # j => (Larger(s, i, j) \/ Larger(s, j, i))
  BY <1>4 DEF Larger
<1>7. ASSUME NEW i \in I, NEW j \in I, NEW k \in I, Larger(s, i, j), Larger(s, j, k) PROVE Larger(s, i, k)
  <2> DEFINE w == Newest(Of(s, "tool"))
  <2>1. j # w /\ i # w
    BY <1>7 DEF Larger
  <2>2. CASE k = w
    BY <2>1, <2>2 DEF Larger
  <2>3. CASE k # w
    <3>1. s[i].size > s[j].size \/ (s[i].size = s[j].size /\ i < j)
      BY <1>7, <2>1 DEF Larger
    <3>2. s[j].size > s[k].size \/ (s[j].size = s[k].size /\ j < k)
      BY <1>7, <2>1, <2>3 DEF Larger
    <3>3. s[i].size > s[k].size \/ (s[i].size = s[k].size /\ i < k)
      BY <1>4, <3>1, <3>2
    <3> QED
      BY <2>1, <2>3, <3>3 DEF Larger
  <2> QED
    BY <2>2, <2>3
<1>8. e = [n \in 1 .. N |-> e[n]]
  <2> DEFINE F(n) == CHOOSE i \in I : Cardinality({j \in I : Larger(s, j, i)}) = n - 1
  <2>1. e = [n \in 1 .. N |-> F(n)]
    BY DEF ToolOrder, Ordered
  <2> HIDE DEF e, F, N
  <2> QED
    BY <2>1
<1>9. ASSUME NEW n \in 1 .. N, \E i \in I : Cardinality({j \in I : <<j, i>> \in R}) = n - 1
      PROVE  e[n] \in I /\ Cardinality({j \in I : <<j, e[n]>> \in R}) = n - 1
  <2>1. ASSUME NEW i \in I PROVE {j \in I : <<j, i>> \in R} = {j \in I : Larger(s, j, i)}
    BY <1>3
  <2>2. e[n] = CHOOSE i \in I : Cardinality({j \in I : Larger(s, j, i)}) = n - 1
    BY DEF ToolOrder, Ordered
  <2>3. \E i \in I : Cardinality({j \in I : Larger(s, j, i)}) = n - 1
    BY <1>9, <2>1
  <2> HIDE DEF e, R, I
  <2>4. e[n] \in I /\ Cardinality({j \in I : Larger(s, j, e[n])}) = n - 1
    BY <2>2, <2>3
  <2> QED
    BY <2>1, <2>4
<1>10. \A i, j \in I : i # j => (<<i, j>> \in R \/ <<j, i>> \in R)
  BY <1>3, <1>6
<1>11. \A i \in I : <<i, i>> \notin R
  BY <1>3, <1>5
<1>12. \A i, j, k \in I : <<i, j>> \in R /\ <<j, k>> \in R => <<i, k>> \in R
  BY <1>3, <1>7
<1> HIDE DEF R, e, I
<1>13. /\ N \in Nat /\ e \in [1 .. N -> I]
       /\ \A i \in I : \E n \in 1 .. N : e[n] = i
  <2>1. Orders(R, I)
    BY <1>10, <1>11, <1>12 DEF Orders
  <2>2. Counts(e, R, I)
    BY <1>8, <1>9 DEF Counts
  <2> QED
    BY <1>2, <2>1, <2>2, OrderOf DEF GoesThrough
<1>14. e \in [1 .. N -> 1 .. Len(s)]
  BY <1>1, <1>13
<1>15. e \in Seq(1 .. Len(s)) /\ Len(e) = N
  BY <1>13, <1>14, FunctionIsSeq
<1>16. \A n \in 1 .. N : e[n] \in I
  BY <1>13
<1> QED
  BY <1>13, <1>15, <1>16 DEF e, I

\* The tool messages are cut to the target, or all to the least; others stay.
LEMMA ToolsCutOf ==
  ASSUME NEW s \in Seq(Message)
  PROVE  LET t == ToolsCut(s) IN
         /\ t \in Seq(Message) /\ SameShape(s, t)
         /\ \A j \in 1 .. Len(s) : s[j].role # "tool" => t[j] = s[j]
         /\ Chars(t) <= TargetChars \/ \A j \in 1 .. Len(s) : s[j].role = "tool" => t[j].size <= MinChars
<1> DEFINE order == ToolOrder(s)
           t == ToolsCut(s)
<1>1. t = CutInOrder(s, order, TargetChars)
  BY DEF ToolsCut, ToolOrder, Larger
<1>2. /\ order \in Seq(1 .. Len(s))
      /\ \A n \in 1 .. Len(order) : order[n] \in Of(s, "tool")
      /\ \A i \in Of(s, "tool") : \E n \in 1 .. Len(order) : order[n] = i
  BY ToolOrderOf
<1>3. DOMAIN s = 1 .. Len(s) /\ TargetChars \in Nat
  BY SeqFacts, WindowAssumption
<1> HIDE DEF order
<1>4. t \in Seq(Message) /\ Cutting(s, order, TargetChars, t, Len(order))
  BY <1>1, <1>2, <1>3, CutInOrderOf
<1> HIDE DEF t
<1>5. ASSUME NEW j \in 1 .. Len(s), s[j].role # "tool" PROVE t[j] = s[j]
  <2>1. \A m \in 1 .. Len(order) : order[m] # j
    BY <1>2, <1>5 DEF Of
  <2> QED
    BY <1>4, <2>1 DEF Cutting
<1>6. ASSUME ~ (Chars(t) <= TargetChars), NEW j \in 1 .. Len(s), s[j].role = "tool" PROVE t[j].size <= MinChars
  <2>1. PICK n \in 1 .. Len(order) : order[n] = j
    BY <1>2, <1>3, <1>6 DEF Of
  <2> QED
    BY <1>4, <1>6, <2>1 DEF Cutting
<1>7. SameShape(s, t)
  BY <1>4 DEF Cutting
<1> QED
  BY <1>4, <1>5, <1>6, <1>7 DEF t

\* The dialogue is cut to the limit, or all of it to the least, the newest message of the user
\* after all others.
LEMMA DialogueCutOf ==
  ASSUME NEW s \in Seq(Message)
  PROVE  LET t == DialogueCut(s)
             user == Newest(Of(s, "user")) IN
         /\ t \in Seq(Message) /\ SameShape(s, t)
         /\ \A j \in 1 .. Len(s) : j \notin Dialogue(s) => t[j] = s[j]
         /\ Chars(s) <= MaxChars => t = s
         /\ Chars(t) <= MaxChars \/ \A j \in Dialogue(s) : t[j].size <= MinChars
         /\ (user # 0 /\ t[user] # s[user]) => \A j \in Dialogue(s) : j # user => t[j].size <= MinChars
<1> DEFINE t == DialogueCut(s)
           user == Newest(Of(s, "user"))
           others == {i \in Dialogue(s) : i # user /\ s[i].size > 0}
           first == Positions(others)
           last == IF user = 0 THEN <<>> ELSE <<user>>
           order == first \o last
           N == Len(order)
<1>1. Len(s) \in Nat /\ DOMAIN s = 1 .. Len(s) /\ MaxChars \in Nat /\ MinChars \in Nat
  BY SeqFacts, WindowAssumption
<1>2. Of(s, "user") \in SUBSET (1 .. Len(s)) /\ Of(s, "user") \subseteq Dialogue(s) /\ Dialogue(s) \in SUBSET (1 .. Len(s))
  BY <1>1 DEF Of, Dialogue
<1>3. user \in 0 .. Len(s) /\ (user # 0 => user \in Dialogue(s) /\ user \in 1 .. Len(s))
  <2>1. user \in Of(s, "user") \union {0} /\ user \in 0 .. Len(s)
    BY <1>1, <1>2, NewestOf
  <2> HIDE DEF user
  <2> QED
    BY <1>1, <1>2, <2>1
<1>4. t = CutInOrder(s, order, MaxChars)
  BY DEF DialogueCut
<1> HIDE DEF t, user
<1>5. others \in SUBSET (1 .. Len(s))
  BY <1>2
<1>6. /\ Cardinality(others) \in Nat /\ first \in [1 .. Cardinality(others) -> others]
      /\ \A i \in others : \E n \in 1 .. Cardinality(others) : first[n] = i
  BY <1>1, <1>5, PositionsOf
<1> HIDE DEF first
<1>7. first \in [1 .. Cardinality(others) -> 1 .. Len(s)]
  BY <1>5, <1>6
<1>8. first \in Seq(1 .. Len(s)) /\ Len(first) = Cardinality(others)
  BY <1>6, <1>7, FunctionIsSeq
<1>9. last \in Seq(1 .. Len(s)) /\ Len(last) = (IF user = 0 THEN 0 ELSE 1) /\ (user # 0 => last[1] = user)
  <2>1. CASE user = 0
    <3>1. <<>> \in Seq(1 .. Len(s)) /\ Len(<<>>) = 0
      BY EmptySeq
    <3> QED
      BY <2>1, <3>1
  <2>2. CASE user # 0
    <3>1. last = <<user>> /\ user \in 1 .. Len(s)
      BY <2>2, <1>3
    <3> QED
      BY <2>2, <3>1
  <2> QED
    BY <2>1, <2>2
<1>10. \A n \in 1 .. Len(first) : first[n] \in others
  BY <1>6, <1>8
<1>11. \A i \in others : \E n \in 1 .. Len(first) : first[n] = i
  BY <1>6, <1>8
<1> HIDE DEF last
<1>12. /\ order \in Seq(1 .. Len(s)) /\ N = Len(first) + Len(last) /\ Len(first) \in Nat
       /\ \A i \in 1 .. N : order[i] = IF i <= Len(first) THEN first[i] ELSE last[i - Len(first)]
  <2>1. /\ first \o last \in Seq(1 .. Len(s)) /\ Len(first \o last) = Len(first) + Len(last)
        /\ \A i \in 1 .. Len(first) + Len(last) :
             (first \o last)[i] = IF i <= Len(first) THEN first[i] ELSE last[i - Len(first)]
    BY <1>8, <1>9, ConcatProperties
  <2>2. Len(first) \in Nat
    BY <1>8, SeqFacts
  <2> QED
    BY <2>1, <2>2
<1> HIDE DEF order, N
<1>13. \A n \in 1 .. Len(first) : n \in 1 .. N /\ order[n] \in others /\ order[n] = first[n]
  <2> SUFFICES ASSUME NEW n \in 1 .. Len(first) PROVE n \in 1 .. N /\ order[n] \in others /\ order[n] = first[n]
    OBVIOUS
  <2>1. Len(last) \in {0, 1}
    BY <1>9
  <2>2. n \in 1 .. N /\ n <= Len(first)
    BY <2>1, <1>12
  <2> HIDE DEF others
  <2> QED
    BY <2>2, <1>10, <1>12
<1>14. user # 0 => N = Len(first) + 1 /\ order[N] = user
  <2> SUFFICES ASSUME user # 0 PROVE N = Len(first) + 1 /\ order[N] = user
    OBVIOUS
  <2>1. N = Len(first) + 1
    BY <1>9, <1>12
  <2>2. N \in 1 .. N /\ ~ (N <= Len(first)) /\ N - Len(first) = 1
    BY <2>1, <1>12
  <2>3. order[N] = last[1]
    BY <2>2, <1>12
  <2> QED
    BY <2>1, <2>3, <1>9
<1>15. user = 0 => N = Len(first)
  BY <1>9, <1>12
<1>16. \A n \in 1 .. N : order[n] \in Dialogue(s)
  <2> SUFFICES ASSUME NEW n \in 1 .. N PROVE order[n] \in Dialogue(s)
    OBVIOUS
  <2>1. CASE n \in 1 .. Len(first)
    BY <2>1, <1>13
  <2>2. CASE n \notin 1 .. Len(first)
    <3>1. user # 0 /\ n = N
      BY <2>2, <1>12, <1>14, <1>15
    <3> QED
      BY <3>1, <1>3, <1>14
  <2> QED
    BY <2>1, <2>2
<1>17. /\ t \in Seq(Message) /\ Cutting(s, order, MaxChars, t, N)
       /\ (N # 0 /\ t[order[N]] # s[order[N]] /\ \A m \in 1 .. N - 1 : order[m] # order[N])
            => \A m \in 1 .. N - 1 : t[order[m]].size <= MinChars
  BY <1>1, <1>4, <1>12, CutInOrderOf DEF N
<1>18. SameShape(s, t) /\ (Chars(s) <= MaxChars => t = s) /\ \A j \in 1 .. Len(s) : t[j].size <= s[j].size
  BY <1>17 DEF Cutting
<1>19. \A j \in 1 .. Len(s) : s[j].size \in Nat /\ t[j].size \in Nat
  <2>1. Len(t) = Len(s)
    BY <1>18 DEF SameShape
  <2> QED
    BY <1>17, <2>1, MessageFacts
<1>20. ASSUME NEW j \in 1 .. Len(s), j \notin Dialogue(s) PROVE t[j] = s[j]
  <2>1. \A m \in 1 .. N : order[m] # j
    BY <1>16, <1>20
  <2> QED
    BY <1>17, <2>1 DEF Cutting
<1>21. ASSUME NEW j \in Dialogue(s), j # user, \A i \in others : t[i].size <= MinChars PROVE t[j].size <= MinChars
  <2>1. CASE s[j].size > 0
    BY <1>21, <2>1
  <2>2. CASE ~ (s[j].size > 0)
    <3>1. j \in 1 .. Len(s)
      BY <1>2
    <3>2. t[j].size <= s[j].size /\ s[j].size \in Nat /\ t[j].size \in Nat
      BY <3>1, <1>18, <1>19
    <3>3. t[j].size = 0
      BY <3>2, <2>2
    <3> QED
      BY <3>3, <1>1
  <2> QED
    BY <2>1, <2>2
<1>22. ASSUME ~ (Chars(t) <= MaxChars), NEW j \in Dialogue(s) PROVE t[j].size <= MinChars
  <2>1. \A m \in 1 .. N : t[order[m]].size <= MinChars
    BY <1>17, <1>22 DEF Cutting
  <2>2. \A i \in others : t[i].size <= MinChars
    BY <2>1, <1>11, <1>13
  <2>3. CASE j = user
    <3>1. user # 0
      BY <1>2, <2>3
    <3>2. N \in 1 .. N
      BY <3>1, <1>12, <1>14
    <3> QED
      BY <3>1, <3>2, <1>14, <2>1, <2>3
  <2>4. CASE j # user
    BY <2>2, <2>4, <1>21
  <2> QED
    BY <2>3, <2>4
<1>23. ASSUME user # 0, t[user] # s[user], NEW j \in Dialogue(s), j # user PROVE t[j].size <= MinChars
  <2>1. N - 1 = Len(first) /\ order[N] = user /\ N # 0
    BY <1>12, <1>14, <1>23
  <2>2. \A m \in 1 .. N - 1 : order[m] # order[N]
    BY <2>1, <1>13
  <2>3. \A m \in 1 .. N - 1 : t[order[m]].size <= MinChars
    BY <1>17, <1>23, <2>1, <2>2
  <2>4. \A i \in others : t[i].size <= MinChars
    BY <2>1, <2>3, <1>11, <1>13
  <2> QED
    BY <2>4, <1>21, <1>23
<1> QED
  BY <1>17, <1>18, <1>20, <1>22, <1>23 DEF t, user

LEMMA ShapeWhole ==
  ASSUME NEW s \in Seq(Message), NEW t \in Seq(Message), SameShape(s, t), Whole(s)
  PROVE  Whole(t)
<1>1. Len(t) = Len(s) /\ Len(s) \in Nat
  BY SeqFacts DEF SameShape
<1>2. \A i \in 1 .. Len(s) : t[i].role = s[i].role /\ t[i].calls = s[i].calls /\ t[i].of = s[i].of
  BY DEF SameShape
<1>3. \A i \in 1 .. Len(s) : Calls(t[i]) <=> Calls(s[i])
  BY <1>2 DEF Calls
<1>4. ASSUME NEW h \in 1 .. Len(s), NEW k \in 1 .. Len(s), Follows(s, h, k) PROVE Follows(t, h, k)
  BY <1>1, <1>2, <1>4 DEF Follows
<1>5. ASSUME NEW i \in 1 .. Len(s), Calls(t[i]) PROVE Heard(t, i)
  <2>1. Heard(s, i)
    BY <1>3, <1>5 DEF Whole
  <2> SUFFICES ASSUME NEW c \in t[i].calls PROVE \E k \in 1 .. Len(t) : Follows(t, i, k) /\ t[k].of = c
    BY DEF Heard
  <2>2. PICK k \in 1 .. Len(s) : Follows(s, i, k) /\ s[k].of = c
    BY <1>2, <2>1 DEF Heard
  <2> QED
    BY <1>1, <1>2, <1>4, <2>2
<1>6. ASSUME NEW i \in 1 .. Len(s), t[i].role = "tool" PROVE Owned(t, i)
  <2>1. PICK h \in 1 .. Len(s) : Calls(s[h]) /\ Follows(s, h, i)
    BY <1>2, <1>6 DEF Whole, Owned
  <2> QED
    BY <1>1, <1>3, <1>4, <2>1 DEF Owned
<1> QED
  BY <1>1, <1>5, <1>6 DEF Whole

\* Selecting the first message keeps it first.
LEMMA SelectedFirst ==
  ASSUME NEW S, NEW s \in Seq(S), NEW I \in SUBSET (1 .. Len(s)), 1 \in I
  PROVE  Len(Selected(s, I)) # 0 /\ Selected(s, I)[1] = s[1]
<1> DEFINE N == Cardinality(I)
<1>1. Len(Selected(s, I)) = N /\ N \in Nat /\ Len(s) \in Nat
  BY SelectedOf, SeqFacts
<1>2. PICK e : Picks(s, I, e)
  BY SelectedOf
<1> HIDE DEF N
<1>3. /\ e \in [1 .. N -> I]
      /\ \A n \in 1 .. N : Selected(s, I)[n] = s[e[n]]
      /\ \A i \in I : \E n \in 1 .. N : e[n] = i
      /\ \A m, n \in 1 .. N : m < n => e[m] < e[n]
  BY <1>2 DEF Picks, N
<1>4. PICK n \in 1 .. N : e[n] = 1
  BY <1>3
<1>5. 1 \in 1 .. N /\ N # 0
  BY <1>1
<1>6. e[1] \in 1 .. Len(s)
  BY <1>3, <1>5
<1>7. n = 1
  <2>1. ~ (1 < n)
    BY <1>1, <1>3, <1>4, <1>5, <1>6
  <2> QED
    BY <1>1, <2>1
<1> QED
  BY <1>1, <1>3, <1>4, <1>5, <1>7

\* A system message at the first place stays there.
Headed(s) == Len(s) # 0 /\ s[1].role = "system"

LEMMA SanitizedFirst ==
  ASSUME NEW s \in Seq(Message), Headed(s)
  PROVE  Headed(Sanitized(s)) /\ Sanitized(s)[1] = s[1]
<1> DEFINE I == {i \in DOMAIN s : LET h == Owner(s, i) IN
                   /\ h # 0
                   /\ h # i => Calls(s[h])
                   /\ Calls(s[h]) => s[h].calls \subseteq AnswersIn(s, h)}
<1>1. Len(s) \in Nat /\ DOMAIN s = 1 .. Len(s) /\ 1 \in 1 .. Len(s)
  BY SeqFacts DEF Headed
<1>2. Owner(s, 1) = 1 /\ ~ Calls(s[1])
  BY DEF Headed, Owner, Calls
<1>3. 1 \in I
  BY <1>1, <1>2
<1>4. I \in SUBSET (1 .. Len(s))
  BY <1>1
<1>5. Sanitized(s) = Selected(s, I)
  BY DEF Sanitized
<1> HIDE DEF I
<1>6. Len(Selected(s, I)) # 0 /\ Selected(s, I)[1] = s[1]
  BY <1>3, <1>4, SelectedFirst
<1> QED
  BY <1>5, <1>6 DEF Headed

LEMMA RecentOf ==
  ASSUME NEW s \in Seq(Message)
  PROVE  /\ Recent(s) \in Seq(Message) /\ Whole(Recent(s))
         /\ Headed(s) => Headed(Recent(s)) /\ Recent(s)[1] = s[1]
<1> DEFINE newest == {i \in Dialogue(s) : Cardinality({j \in Dialogue(s) : j > i}) < KeepRecent}
           first == Min(newest \union {Len(s) + 1})
           I == {i \in DOMAIN s : s[i].role = "system" \/ i >= first}
           q == Selected(s, I)
<1>1. Recent(s) = Sanitized(q)
  BY DEF Recent
<1>2. DOMAIN s = 1 .. Len(s) /\ Len(s) \in Nat
  BY SeqFacts
<1> HIDE DEF first
<1>3. I \in SUBSET (1 .. Len(s))
  BY <1>2
<1>4. q \in Seq(Message)
  BY <1>3, SelectedOf
<1>5. Sanitized(q) \in Seq(Message) /\ Whole(Sanitized(q))
  BY <1>4, SanitizedWhole
<1>6. ASSUME Headed(s) PROVE Headed(Recent(s)) /\ Recent(s)[1] = s[1]
  <2>1. 1 \in I
    BY <1>2, <1>6 DEF Headed
  <2>2. Len(q) # 0 /\ q[1] = s[1]
    BY <1>3, <2>1, SelectedFirst
  <2>3. Headed(q)
    BY <2>2, <1>6 DEF Headed
  <2> HIDE DEF q
  <2> QED
    BY <1>1, <1>4, <2>2, <2>3, SanitizedFirst
<1> QED
  BY <1>1, <1>5, <1>6

\* What both cuts together do.
LEMMA BothCutsOf ==
  ASSUME NEW r \in Seq(Message)
  PROVE  LET b == DialogueCut(ToolsCut(r))
             user == Newest(Of(b, "user")) IN
         /\ b \in Seq(Message) /\ SameShape(r, b)
         /\ \A i \in 1 .. Len(r) : r[i].role = "system" => b[i] = r[i]
         /\ (user # 0 /\ b[user] # r[user]) => \A i \in Dialogue(b) : i # user => b[i].size <= MinChars
         /\ Chars(b) <= MaxChars \/ \A i \in 1 .. Len(r) : b[i].role # "system" => b[i].size <= MinChars
<1> DEFINE t == ToolsCut(r)
           b == DialogueCut(t)
           user == Newest(Of(t, "user"))
<1>1. /\ t \in Seq(Message) /\ SameShape(r, t)
      /\ \A j \in 1 .. Len(r) : r[j].role # "tool" => t[j] = r[j]
      /\ Chars(t) <= TargetChars \/ \A j \in 1 .. Len(r) : r[j].role = "tool" => t[j].size <= MinChars
  BY ToolsCutOf
<1> HIDE DEF t
<1>2. /\ b \in Seq(Message) /\ SameShape(t, b)
      /\ \A j \in 1 .. Len(t) : j \notin Dialogue(t) => b[j] = t[j]
      /\ Chars(t) <= MaxChars => b = t
      /\ Chars(b) <= MaxChars \/ \A j \in Dialogue(t) : b[j].size <= MinChars
      /\ (user # 0 /\ b[user] # t[user]) => \A j \in Dialogue(t) : j # user => b[j].size <= MinChars
  BY <1>1, DialogueCutOf
<1> HIDE DEF b
<1>3. Len(t) = Len(r) /\ Len(b) = Len(r) /\ SameShape(r, b)
  BY <1>1, <1>2 DEF SameShape
<1>4. DOMAIN r = 1 .. Len(r) /\ DOMAIN t = 1 .. Len(r) /\ DOMAIN b = 1 .. Len(r) /\ Len(r) \in Nat
  BY <1>1, <1>2, <1>3, SeqFacts
<1>5. \A j \in 1 .. Len(r) : b[j].role = r[j].role /\ t[j].role = r[j].role
  BY <1>1, <1>3 DEF SameShape
<1>6. Of(b, "user") = Of(t, "user") /\ Dialogue(b) = Dialogue(t)
  BY <1>4, <1>5 DEF Of, Dialogue
<1>7. ASSUME NEW i \in 1 .. Len(r), r[i].role = "system" PROVE b[i] = r[i]
  <2>1. i \notin Dialogue(t) /\ t[i] = r[i]
    BY <1>1, <1>5, <1>7 DEF Dialogue
  <2> QED
    BY <1>2, <1>3, <2>1
<1>8. user # 0 => t[user] = r[user]
  <2>1. Of(t, "user") \in SUBSET (1 .. Len(r))
    BY <1>4 DEF Of
  <2>2. user \in Of(t, "user") \union {0}
    BY <1>4, <2>1, NewestOf
  <2> HIDE DEF user
  <2>3. SUFFICES ASSUME user # 0 PROVE t[user] = r[user]
    OBVIOUS
  <2>4. user \in 1 .. Len(r) /\ t[user].role = "user"
    BY <2>2, <2>3, <1>4 DEF Of
  <2> QED
    BY <2>4, <1>1, <1>5
<1>9. ASSUME ~ (Chars(b) <= MaxChars), NEW i \in 1 .. Len(r), b[i].role # "system" PROVE b[i].size <= MinChars
  <2>1. CASE i \in Dialogue(t)
    BY <1>2, <1>9, <2>1
  <2>2. CASE i \notin Dialogue(t)
    <3>1. b[i] \in Message
      BY <1>2, <1>3, SeqFacts
    <3>2. b[i].role \in {"user", "assistant", "system", "tool"}
      BY <3>1 DEF Message
    <3>3. r[i].role = "tool" /\ b[i] = t[i]
      BY <1>2, <1>3, <1>4, <1>5, <1>9, <2>2, <3>2 DEF Dialogue
    <3>4. ~ (Chars(t) <= MaxChars)
      BY <1>2, <1>9
    <3>5. ~ (Chars(t) <= TargetChars)
      BY <3>4, <1>1, CharsOf, WindowAssumption
    <3> QED
      BY <1>1, <3>3, <3>5
  <2> QED
    BY <2>1, <2>2
<1>10. (user # 0 /\ b[user] # r[user]) => \A i \in Dialogue(b) : i # user => b[i].size <= MinChars
  BY <1>2, <1>6, <1>8
<1>11. user = Newest(Of(b, "user"))
  BY <1>6
<1> HIDE DEF user
<1> QED
  BY <1>2, <1>3, <1>7, <1>9, <1>10, <1>11 DEF b, t

\* What is sent of a context is a context; whole if it was, and with the system message at the
\* first place still there.
LEMMA BoundedOf ==
  ASSUME NEW s \in Seq(Message)
  PROVE  /\ Bounded(s) \in Seq(Message)
         /\ Whole(s) => Whole(Bounded(s))
         /\ Headed(s) => Headed(Bounded(s)) /\ Bounded(s)[1] = s[1]
<1> DEFINE r == Recent(s)
           b == DialogueCut(ToolsCut(r))
<1>1. r \in Seq(Message) /\ Whole(r) /\ (Headed(s) => Headed(r) /\ r[1] = s[1])
  BY RecentOf
<1> HIDE DEF r
<1>2. b \in Seq(Message) /\ SameShape(r, b) /\ \A i \in 1 .. Len(r) : r[i].role = "system" => b[i] = r[i]
  BY <1>1, BothCutsOf
<1>3. Bounded(s) = IF Chars(s) <= MaxChars THEN s ELSE b
  BY DEF Bounded, r
<1> HIDE DEF b
<1>4. Whole(b)
  BY <1>1, <1>2, ShapeWhole
<1>5. ASSUME Headed(s) PROVE Headed(b) /\ b[1] = s[1]
  <2>1. Len(b) = Len(r) /\ Len(r) \in Nat
    BY <1>1, <1>2, SeqFacts DEF SameShape
  <2>2. 1 \in 1 .. Len(r) /\ r[1].role = "system"
    BY <1>1, <1>5, <2>1 DEF Headed
  <2>3. b[1] = r[1]
    BY <1>2, <2>2
  <2> QED
    BY <1>1, <1>5, <2>1, <2>2, <2>3 DEF Headed
<1> QED
  BY <1>2, <1>3, <1>4, <1>5

LEMMA CutsToLimit ==
  ASSUME NEW s \in Seq(Message)
  PROVE  CutToLimit(s)
<1> DEFINE r == Recent(s)
           b == DialogueCut(ToolsCut(r))
           user == Newest(Of(b, "user"))
<1> SUFFICES ASSUME Chars(s) > MaxChars
             PROVE /\ Len(b) = Len(r)
                   /\ \A i \in DOMAIN b : b[i].role = "system" => b[i] = r[i]
                   /\ (user # 0 /\ b[user] # r[user]) => \A i \in Dialogue(b) : i # user => b[i].size <= MinChars
                   /\ Chars(b) > MaxChars => \A i \in DOMAIN b : b[i].role # "system" => b[i].size <= MinChars
  <2>1. Chars(s) > MaxChars => ~ (Chars(s) <= MaxChars)
    BY CharsOf, WindowAssumption
  <2>2. Chars(s) > MaxChars => Bounded(s) = b
    BY <2>1 DEF Bounded
  <2> HIDE DEF b, r
  <2> QED
    BY <2>2 DEF CutToLimit, r
<1>1. r \in Seq(Message)
  BY RecentOf
<1> HIDE DEF r
<1>2. /\ b \in Seq(Message) /\ SameShape(r, b)
      /\ \A i \in 1 .. Len(r) : r[i].role = "system" => b[i] = r[i]
      /\ (user # 0 /\ b[user] # r[user]) => \A i \in Dialogue(b) : i # user => b[i].size <= MinChars
      /\ Chars(b) <= MaxChars \/ \A i \in 1 .. Len(r) : b[i].role # "system" => b[i].size <= MinChars
  BY <1>1, BothCutsOf
<1> HIDE DEF b, user
<1>3. Len(b) = Len(r) /\ DOMAIN b = 1 .. Len(r) /\ \A i \in 1 .. Len(r) : b[i].role = r[i].role
  BY <1>2, SeqFacts DEF SameShape
<1>4. Chars(b) > MaxChars => ~ (Chars(b) <= MaxChars)
  BY <1>2, CharsOf, WindowAssumption
<1> QED
  BY <1>2, <1>3, <1>4

\* What is shown to the model of a conversation, of any length and with messages of any size
\* (context_window.rs): its calls are answered directly after them, the answers the running turn
\* waits for are not forgotten, and it is cut to the limit, the newest message of the user last.
THEOREM WindowIsSound ==
  \A s \in Seq(Message) : WindowHolds(s)
BY CleaningPairs, OpenTurnIsKept, CutsToLimit DEF WindowHolds

===============================================================================
