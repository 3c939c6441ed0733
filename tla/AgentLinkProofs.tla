--------------------------- MODULE AgentLinkProofs ---------------------------
(***************************************************************************)
(* Proofs about AgentLink, for any targets, delays and rotations.          *)
(***************************************************************************)
EXTENDS AgentLink, WellFoundedInduction, TLAPS

-----------------------------------------------------------------------------
(* Doubling. *)

\* A set of natural numbers that is not empty has a least element.
LEMMA LeastNat ==
    ASSUME NEW S \in SUBSET Nat, S # {}
    PROVE  \E x \in S : \A y \in S : x <= y
<1>1. PICK x \in S : \A y \in S : <<y, x>> \notin OpToRel(<, Nat)
  BY NatLessThanWellFounded, WFMin
<1>2. \A y \in S : x <= y
  <2> SUFFICES ASSUME NEW y \in S, y < x PROVE FALSE
    OBVIOUS
  <2>1. <<y, x>> \in {ss \in Nat \X Nat : ss[1] < ss[2]}
    OBVIOUS
  <2> QED BY <1>1, <2>1 DEF OpToRel
<1> QED BY <1>2

\* What begins a recursion on the natural numbers, up to n.
Begins(f, a, h, n) ==
    /\ f \in [0..n -> Nat]
    /\ f[0] = a
    /\ \A i \in 1..n : f[i] = h[f[i - 1]]

\* It can be carried on for ever.
LEMMA BeginsExists ==
    ASSUME NEW a \in Nat, NEW h \in [Nat -> Nat], NEW n \in Nat
    PROVE  \E f : Begins(f, a, h, n)
<1> DEFINE Bad == {m \in Nat : ~ \E f : Begins(f, a, h, m)}
<1> SUFFICES ASSUME Bad # {} PROVE FALSE
  OBVIOUS
<1>1. PICK m \in Bad : \A y \in Bad : m <= y
  BY LeastNat
<1>2. m # 0
  <2> DEFINE f == [i \in 0..0 |-> a]
  <2>1. Begins(f, a, h, 0)
    BY DEF Begins
  <2> QED BY <1>1, <2>1
<1>3. m - 1 \in Nat /\ m - 1 \notin Bad
  BY <1>1, <1>2
<1>4. PICK f : Begins(f, a, h, m - 1)
  BY <1>3
<1> DEFINE g == [i \in 0..m |-> IF i = m THEN h[f[m - 1]] ELSE f[i]]
<1>5. Begins(g, a, h, m)
  <2>1. m \in Nat /\ m >= 1
    BY <1>1, <1>2
  <2>2. \A i \in 0..(m - 1) : f[i] \in Nat /\ g[i] = f[i]
    <3> SUFFICES ASSUME NEW i \in 0..(m - 1) PROVE f[i] \in Nat /\ g[i] = f[i]
      OBVIOUS
    <3>1. f \in [0..(m - 1) -> Nat]
      BY <1>4 DEF Begins
    <3>2. i \in 0..m /\ i # m
      BY <2>1
    <3> QED BY <3>1, <3>2
  <2>3. m - 1 \in 0..(m - 1) /\ 0 \in 0..(m - 1)
    BY <2>1
  <2>4. g \in [0..m -> Nat] /\ g[m] = h[f[m - 1]]
    <3>1. m \in 0..m
      BY <2>1
    <3>2. \A i \in 0..m : i # m => i \in 0..(m - 1)
      BY <2>1
    <3>3. h[f[m - 1]] \in Nat
      BY <2>2, <2>3
    <3>4. \A i \in 0..m : (IF i = m THEN h[f[m - 1]] ELSE f[i]) \in Nat
      BY <2>2, <3>2, <3>3
    <3> QED BY <3>1, <3>4
  <2>5. g[0] = a
    BY <1>4, <2>2, <2>3 DEF Begins
  <2>6. \A i \in 1..m : g[i] = h[g[i - 1]]
    <3> SUFFICES ASSUME NEW i \in 1..m PROVE g[i] = h[g[i - 1]]
      OBVIOUS
    <3>1. CASE i = m
      BY <2>2, <2>3, <2>4, <3>1
    <3>2. CASE i # m
      <4>1. i \in 1..(m - 1) /\ i \in 0..(m - 1) /\ i - 1 \in 0..(m - 1)
        BY <2>1, <3>2
      <4>2. f[i] = h[f[i - 1]]
        BY <1>4, <4>1 DEF Begins
      <4> QED BY <2>2, <4>1, <4>2
    <3> QED BY <3>1, <3>2
  <2> QED BY <2>4, <2>5, <2>6 DEF Begins
<1> QED BY <1>1, <1>5

\* Two of them agree where both are defined.
LEMMA BeginsAgree ==
    ASSUME NEW a, NEW h, NEW n \in Nat, NEW m \in Nat, NEW f, NEW g,
           Begins(f, a, h, n), Begins(g, a, h, m), NEW k \in Nat, k <= n, k <= m
    PROVE  f[k] = g[k]
<1> DEFINE Bad == {i \in Nat : i <= n /\ i <= m /\ f[i] # g[i]}
<1> SUFFICES ASSUME Bad # {} PROVE FALSE
  OBVIOUS
<1>1. PICK i \in Bad : \A y \in Bad : i <= y
  BY LeastNat
<1>2. i # 0
  BY <1>1 DEF Begins
<1>3. i - 1 \in Nat /\ i - 1 \notin Bad /\ i \in 1..n /\ i \in 1..m
  BY <1>1, <1>2
<1>4. f[i - 1] = g[i - 1]
  BY <1>3
<1>5. f[i] = h[f[i - 1]] /\ g[i] = h[g[i - 1]]
  BY <1>3 DEF Begins
<1> QED BY <1>1, <1>4, <1>5

\* A function on the natural numbers may be defined by recursion.
LEMMA Recursion ==
    ASSUME NEW a \in Nat, NEW h \in [Nat -> Nat]
    PROVE  \E g \in [Nat -> Nat] : g = [n \in Nat |-> IF n = 0 THEN a ELSE h[g[n - 1]]]
<1> DEFINE part(n) == CHOOSE f : Begins(f, a, h, n)
           g == [n \in Nat |-> part(n)[n]]
<1>1. \A n \in Nat : Begins(part(n), a, h, n)
  BY BeginsExists
<1> HIDE DEF part
<1>2. g \in [Nat -> Nat]
  <2>1. \A n \in Nat : n \in 0..n /\ part(n) \in [0..n -> Nat]
    BY <1>1 DEF Begins
  <2> QED BY <2>1
<1>3. g[0] = a
  BY <1>1 DEF Begins
<1>4. ASSUME NEW n \in Nat, n # 0 PROVE g[n] = h[g[n - 1]]
  <2>1. n - 1 \in Nat /\ n - 1 <= n /\ n - 1 <= n - 1 /\ n \in 1..n
    BY <1>4
  <2>2. part(n)[n] = h[part(n)[n - 1]]
    BY <1>1, <2>1 DEF Begins
  <2>3. Begins(part(n), a, h, n) /\ Begins(part(n - 1), a, h, n - 1)
    BY <1>1, <2>1
  <2>4. part(n)[n - 1] = part(n - 1)[n - 1]
    BY <2>1, <2>3, BeginsAgree
  <2> QED BY <2>1, <2>2, <2>4
<1>5. g = [n \in Nat |-> IF n = 0 THEN a ELSE h[g[n - 1]]]
  <2>1. \A n \in Nat : g[n] = IF n = 0 THEN a ELSE h[g[n - 1]]
    BY <1>3, <1>4
  <2>2. g = [n \in Nat |-> g[n]]
    BY <1>2
  <2> HIDE DEF g
  <2> QED BY <2>1, <2>2
<1> QED BY <1>2, <1>5

-----------------------------------------------------------------------------
(* The loop and the store. *)

\* A step of the loop or of a rotation leaves every rejection explained.
LEMMA ExplainedStep == Explained /\ [Next]_vars => Explained'
  <1> SUFFICES ASSUME Explained, [Next]_vars PROVE Explained'
    OBVIOUS
  <1> USE LinkAssumption DEF Explained, TokenKept, ValidAgentPersists, Rotated, link, store
  <1>1. CASE NextTarget
    BY <1>1 DEF NextTarget
  <1>2. CASE Leave
    BY <1>2 DEF Leave
  <1>3. CASE Accept
    BY <1>3 DEF Accept
  <1>4. CASE Refuse
    BY <1>4 DEF Refuse, Valid
  <1>5. CASE GiveUp
    BY <1>5 DEF GiveUp
  <1>6. CASE Retry
    BY <1>6 DEF Retry
  <1>7. CASE Wake
    BY <1>7 DEF Wake
  <1>8. CASE DialSucceeds
    BY <1>8 DEF DialSucceeds
  <1>9. CASE ConnectionFails
    BY <1>9 DEF ConnectionFails
  <1>10. CASE Shutdown
    BY <1>10 DEF Shutdown
  <1>11. CASE Expire
    BY <1>11 DEF Expire
  <1>12. ASSUME NEW r \in Requests, Delete(r) PROVE Explained'
    <2>1. Rotated'
      BY <1>12 DEF Delete
    <2>2. TokenKept'
      BY <1>12 DEF Delete
    <2> QED
      BY <1>12, <2>1, <2>2 DEF Delete
  <1>13. ASSUME NEW r \in Requests, Save(r) PROVE Explained'
    <2>1. Rotated'
      BY <1>13 DEF Save
    <2>2. TokenKept'
      BY <1>13 DEF Save
    <2> QED
      BY <1>13, <2>1, <2>2 DEF Save
  <1>14. CASE UNCHANGED vars
    BY <1>14 DEF vars
  <1> QED
    BY <1>1, <1>2, <1>3, <1>4, <1>5, <1>6, <1>7, <1>8, <1>9, <1>10, <1>11,
       <1>12, <1>13, <1>14 DEF Next, LoopStep

\* What the recursive definition of doubled says of it.
LEMMA Doubled ==
    /\ doubled \in [Nat -> Nat]
    /\ doubled[0] = BackoffInitial
    /\ \A n \in Nat \ {0} : doubled[n] = IF 2 * doubled[n - 1] >= BackoffMax THEN BackoffMax
                                           ELSE 2 * doubled[n - 1]
<1> DEFINE h == [x \in Nat |-> IF 2 * x >= BackoffMax THEN BackoffMax ELSE 2 * x]
           Rec(g) == g = [i \in Nat |-> IF i = 0 THEN BackoffInitial
                                        ELSE IF 2 * g[i - 1] >= BackoffMax THEN BackoffMax
                                        ELSE 2 * g[i - 1]]
<1>1. BackoffInitial \in Nat /\ h \in [Nat -> Nat]
  BY LinkAssumption
<1>2. PICK g \in [Nat -> Nat] : g = [n \in Nat |-> IF n = 0 THEN BackoffInitial ELSE h[g[n - 1]]]
  <2> HIDE DEF h
  <2> QED BY <1>1, Recursion
<1>3. Rec(g)
  <2>1. g \in [Nat -> Nat]
    BY <1>2
  <2>2. \A n \in Nat : n # 0 => n - 1 \in Nat /\ g[n - 1] \in Nat
    BY <2>1
  <2> QED BY <1>2, <2>2
<1>4. Rec(doubled)
  <2>1. doubled = CHOOSE d : Rec(d)
    BY DEF doubled
  <2> HIDE DEF Rec
  <2> QED BY <1>3, <2>1
<1>5. DOMAIN doubled = Nat
  BY <1>4
<1>6. doubled[0] = BackoffInitial
  BY <1>4
<1>7. \A n \in Nat \ {0} : doubled[n] = IF 2 * doubled[n - 1] >= BackoffMax THEN BackoffMax
                                           ELSE 2 * doubled[n - 1]
  BY <1>4
<1> HIDE DEF Rec, h
<1>8. \A n \in Nat : doubled[n] \in Nat
  <2> DEFINE Bad == {m \in Nat : doubled[m] \notin Nat}
  <2> SUFFICES ASSUME Bad # {} PROVE FALSE
    OBVIOUS
  <2>1. PICK m \in Bad : \A y \in Bad : m <= y
    BY LeastNat
  <2>2. m # 0
    BY <1>6, <2>1, LinkAssumption
  <2>3. m \in Nat \ {0} /\ m - 1 \in Nat /\ doubled[m - 1] \in Nat
    BY <2>1, <2>2
  <2>4. doubled[m] \in Nat
    BY <1>7, <2>3, LinkAssumption
  <2> QED BY <2>1, <2>4
<1>9. doubled = [n \in Nat |-> doubled[n]]
  BY <1>4 DEF Rec
<1> QED BY <1>6, <1>7, <1>8, <1>9

\* The same for power.
LEMMA Power ==
    /\ power \in [Nat -> Nat]
    /\ power[0] = 1
    /\ \A n \in Nat \ {0} : power[n] = 2 * power[n - 1]
<1> DEFINE h == [x \in Nat |-> 2 * x]
           Rec(g) == g = [n \in Nat |-> IF n = 0 THEN 1 ELSE 2 * g[n - 1]]
<1>1. h \in [Nat -> Nat]
  OBVIOUS
<1>2. PICK g \in [Nat -> Nat] : g = [n \in Nat |-> IF n = 0 THEN 1 ELSE h[g[n - 1]]]
  <2> DEFINE one == 1
  <2>1. one \in Nat
    OBVIOUS
  <2> HIDE DEF h, one
  <2>2. \E g \in [Nat -> Nat] : g = [n \in Nat |-> IF n = 0 THEN one ELSE h[g[n - 1]]]
    BY <1>1, <2>1, Recursion
  <2> QED BY <2>2 DEF one
<1>3. Rec(g)
  <2>1. g \in [Nat -> Nat]
    BY <1>2
  <2>2. \A n \in Nat : n # 0 => n - 1 \in Nat /\ g[n - 1] \in Nat
    BY <2>1
  <2> QED BY <1>2, <2>2
<1>4. Rec(power)
  <2>1. power = CHOOSE d : Rec(d)
    BY DEF power
  <2> HIDE DEF Rec
  <2> QED BY <1>3, <2>1
<1>5. power[0] = 1
  BY <1>4
<1>6. \A n \in Nat \ {0} : power[n] = 2 * power[n - 1]
  BY <1>4
<1> HIDE DEF Rec, h
<1>7. \A n \in Nat : power[n] \in Nat
  <2> DEFINE Bad == {m \in Nat : power[m] \notin Nat}
  <2> SUFFICES ASSUME Bad # {} PROVE FALSE
    OBVIOUS
  <2>1. PICK m \in Bad : \A y \in Bad : m <= y
    BY LeastNat
  <2>2. m # 0
    BY <1>5, <2>1
  <2>3. m \in Nat \ {0} /\ m - 1 \in Nat /\ power[m - 1] \in Nat
    BY <2>1, <2>2
  <2>4. power[m] \in Nat
    BY <1>6, <2>3
  <2> QED BY <2>1, <2>4
<1>8. power = [n \in Nat |-> power[n]]
  BY <1>4 DEF Rec
<1> QED BY <1>5, <1>6, <1>7, <1>8

\* What the loop in backoff computes, cutting the delay off in every round, is the initial
\* delay times a power of two cut off once, at the end.
LEMMA DoubledIsCut ==
    ASSUME NEW n \in Nat
    PROVE  doubled[n] = IF BackoffInitial * power[n] >= BackoffMax THEN BackoffMax
                        ELSE BackoffInitial * power[n]
<1> DEFINE full(i) == BackoffInitial * power[i]
           Right(i) == doubled[i] = IF full(i) >= BackoffMax THEN BackoffMax ELSE full(i)
           Bad == {i \in Nat : ~ Right(i)}
<1> SUFFICES ASSUME Bad # {} PROVE FALSE
  OBVIOUS
<1>1. PICK i \in Bad : \A y \in Bad : i <= y
  BY LeastNat
<1>2. \A k \in Nat : full(k) \in Nat
  BY Power, LinkAssumption
<1>3. \A k \in Nat \ {0} : full(k) = 2 * full(k - 1)
  <2> SUFFICES ASSUME NEW k \in Nat \ {0} PROVE BackoffInitial * power[k] = 2 * (BackoffInitial * power[k - 1])
    OBVIOUS
  <2>1. power[k - 1] \in Nat /\ power[k] = 2 * power[k - 1]
    BY Power
  <2>2. \A x, y \in Nat : x * (2 * y) = 2 * (x * y)
    OBVIOUS
  <2> QED BY <2>1, <2>2, LinkAssumption
<1>4. full(0) = BackoffInitial
  BY Power, LinkAssumption
<1> HIDE DEF full
<1>5. i # 0
  <2>1. Right(0)
    BY <1>4, Doubled, LinkAssumption
  <2> QED BY <1>1, <2>1
<1>6. i \in Nat \ {0} /\ i - 1 \in Nat /\ Right(i - 1)
  BY <1>1, <1>5
<1>7. Right(i)
  <2>1. doubled[i] = IF 2 * doubled[i - 1] >= BackoffMax THEN BackoffMax ELSE 2 * doubled[i - 1]
    BY <1>6, Doubled
  <2>2. full(i) = 2 * full(i - 1) /\ full(i - 1) \in Nat
    BY <1>2, <1>3, <1>6
  <2> QED BY <1>6, <2>1, <2>2, LinkAssumption
<1> QED BY <1>1, <1>7

\* The jitter adds less than a fifth.
LEMMA BackoffBounds ==
    ASSUME NEW n \in Nat, NEW d \in backoff(n)
    PROVE  d \in Nat /\ doubled[n] <= d /\ 5 * d <= 6 * doubled[n]
<1>1. doubled[n] \in Nat
  BY Doubled
<1>2. d = doubled[n] \/ \E j \in 0..(doubled[n] \div 5 - 1) : d = doubled[n] + j
  BY DEF backoff
<1>3. doubled[n] \div 5 \in Nat /\ 5 * (doubled[n] \div 5) <= doubled[n]
  BY <1>1
<1> HIDE DEF backoff
<1> QED BY <1>1, <1>2, <1>3

\* Only Retry chooses a delay, with the attempt it counts.
LEMMA PacedStep == Paced /\ [Next]_vars => Paced'
<1> SUFFICES ASSUME Paced, [Next]_vars PROVE Paced'
  OBVIOUS
<1>1. CASE Retry
  <2>1. attempt \in 0..MaxAttempt /\ MaxAttempt \in Nat
    BY LinkAssumption DEF Paced
  <2>2. delay' \in backoff(attempt) /\ attempt' = IF attempt < MaxAttempt THEN attempt + 1 ELSE attempt
    BY <1>1 DEF Retry
  <2>3. CASE attempt < MaxAttempt
    <3>1. attempt' = attempt + 1 /\ attempt' - 1 = attempt
      BY <2>1, <2>2, <2>3
    <3>2. delay' \in backoff(attempt' - 1)
      BY <2>2, <3>1
    <3>3. attempt' \in 0..MaxAttempt /\ attempt' > 0
      BY <2>1, <2>3, <3>1
    <3>4. backoff(attempt' - 1) = backoff(attempt - 1)'
      BY DEF backoff, doubled
    <3> QED BY <3>2, <3>3, <3>4 DEF Paced
  <2>4. CASE ~ (attempt < MaxAttempt)
    <3>1. attempt = MaxAttempt /\ attempt' = MaxAttempt
      BY <2>1, <2>2, <2>4
    <3> QED BY <2>1, <2>2, <3>1 DEF Paced
  <2> QED BY <2>3, <2>4
<1>2. CASE UNCHANGED <<attempt, delay>> /\ (pc' # "sleep" \/ pc' = pc)
  BY <1>2 DEF Paced
<1>3. Retry \/ (UNCHANGED <<attempt, delay>> /\ (pc' # "sleep" \/ pc' = pc))
  BY DEF Next, LoopStep, NextTarget, Leave, DialSucceeds, ConnectionFails, Accept, Refuse, GiveUp,
         Wake, Shutdown, Delete, Save, Expire, vars, link
<1> QED BY <1>1, <1>2, <1>3

\* The inductive invariant holds in every state of the agent and the store.
THEOREM LinkInvariance == Spec => []Inv
  <1>1. Init => Explained
    BY LinkAssumption DEF Init, Explained, TokenKept, ValidAgentPersists, Rotated
  <1>2. Init => Paced
    BY LinkAssumption DEF Init, Paced
  <1>3. Inv /\ [Next]_vars => Inv'
    BY ExplainedStep, PacedStep DEF Inv
  <1>4. Init => Inv
    BY <1>1, <1>2 DEF Inv
  <1> QED
    BY <1>3, <1>4, PTL DEF Spec

\* Exponential backoff: whatever the initial delay and the maximum are, the delay of
\* retry n is the initial one times 2^n, cut off at the maximum, plus at most a fifth.
THEOREM BackoffIsExponential == Spec => []DelayInBounds
  <1>1. Inv => DelayInBounds
    <2> SUFFICES ASSUME Inv, pc = "sleep"
                 PROVE  LET full == BackoffInitial * power[attempt - 1]
                            base == IF attempt = MaxAttempt \/ full > BackoffMax THEN BackoffMax ELSE full
                        IN  base <= delay /\ 5 * delay <= 6 * base
      BY DEF DelayInBounds
    <2> DEFINE full == BackoffInitial * power[attempt - 1]
               base == IF attempt = MaxAttempt \/ full > BackoffMax THEN BackoffMax ELSE full
    <2>1. attempt \in 0..MaxAttempt /\ MaxAttempt \in Nat \ {0} /\ doubled[MaxAttempt - 1] = BackoffMax
      BY LinkAssumption DEF Inv, Paced
    <2>2. CASE attempt > 0 /\ delay \in backoff(attempt - 1)
      <3>1. attempt - 1 \in Nat
        BY <2>1, <2>2
      <3>2. delay \in Nat /\ doubled[attempt - 1] <= delay /\ 5 * delay <= 6 * doubled[attempt - 1]
        BY <2>2, <3>1, BackoffBounds
      <3>3. base = doubled[attempt - 1]
        <4>1. doubled[attempt - 1] = IF full >= BackoffMax THEN BackoffMax ELSE full
          BY <3>1, DoubledIsCut
        <4>2. full \in Nat /\ BackoffMax \in Nat
          BY <3>1, Power, LinkAssumption
        <4> HIDE DEF full
        <4> QED BY <2>1, <4>1, <4>2
      <3> QED BY <3>2, <3>3
    <2>3. CASE attempt = MaxAttempt /\ delay \in backoff(MaxAttempt)
      <3>1. doubled[MaxAttempt] = BackoffMax
        BY <2>1, Doubled, LinkAssumption
      <3>2. base = BackoffMax
        BY <2>3
      <3> HIDE DEF base
      <3> QED BY <2>1, <2>3, <3>1, <3>2, BackoffBounds
    <2> QED BY <2>2, <2>3 DEF Inv, Paced
  <1> QED
    BY <1>1, LinkInvariance, PTL

\* Network failures alone never end the Connect loop of an agent whose token
\* stays valid, however many targets there are and however often they fail.
THEOREM AgentPersists == Spec => []ValidAgentPersists
  <1>1. Inv => ValidAgentPersists
    BY DEF Inv, Explained
  <1> QED
    BY <1>1, LinkInvariance, PTL

\* Concurrent calls of Issue never delete the last token: a server without one
\* has a rotation under way or one whose insert failed.
THEOREM RotationKeepsToken == Spec => []TokenKept
  <1>1. Inv => TokenKept
    BY DEF Inv, Explained
  <1> QED
    BY <1>1, LinkInvariance, PTL
=============================================================================
