---------------------------- MODULE RetryChainProofs ----------------------------
(***************************************************************************)
(* Theorems about the retry policy and the chain of attempts it produces,  *)
(* for every number of attempts, every backoff list and every answer.      *)
(***************************************************************************)
EXTENDS RetryChain, WellFoundedInduction, TLAPS

USE MaxAttemptsAssumption, DeadLetterAssumption, AnswersAssumption

--------------------------------------------------------------------------------
(* Induction over the numbers, for a set of numbers in place of a predicate. *)

LEMMA SetInduction ==
    ASSUME NEW T \in SUBSET Nat, 0 \in T, \A n \in T : n + 1 \in T
    PROVE  T = Nat
<1> DEFINE Missing == Nat \ T
           Less == OpToRel(<, Nat)
<1> SUFFICES ASSUME Missing # {} PROVE FALSE
  OBVIOUS
<1>1. PICK m \in Missing : \A n \in Missing : <<n, m>> \notin Less
  <2>1. IsWellFoundedOn(Less, Nat)
    BY NatLessThanWellFounded
  <2>2. Missing \subseteq Nat
    OBVIOUS
  <2> HIDE DEF Less, Missing
  <2> QED
    BY <2>1, <2>2, WFMin
<1>2. \A n \in Missing : ~(n < m)
  BY <1>1 DEF OpToRel
<1> QED
  BY <1>2

\* Sums of the first entries of a list that goes on for ever, up to n.
SumsUpTo(f, step, n) ==
    /\ f[0] = 0
    /\ \A i \in 0..(n - 1) : f[i + 1] = f[i] + step[i + 1]

LEMMA SumsExist ==
    ASSUME NEW step \in [Nat -> Nat], NEW n \in Nat
    PROVE  \E f \in [0..n -> Nat] : SumsUpTo(f, step, n)
<1> DEFINE T == {k \in Nat : \E f \in [0..k -> Nat] : SumsUpTo(f, step, k)}
<1>1. 0 \in T
  <2>1. [i \in 0..0 |-> 0] \in [0..0 -> Nat] /\ SumsUpTo([i \in 0..0 |-> 0], step, 0)
    BY DEF SumsUpTo
  <2> QED
    BY <2>1
<1>2. ASSUME NEW k \in Nat, k \in T PROVE k + 1 \in T
  <2>1. PICK f \in [0..k -> Nat] : SumsUpTo(f, step, k)
    BY <1>2
  <2> DEFINE g == [i \in 0..(k + 1) |-> IF i = k + 1 THEN f[k] + step[k + 1] ELSE f[i]]
  <2>0. /\ k + 1 \in Nat /\ step[k + 1] \in Nat /\ f[k] \in Nat
        /\ \A i \in 0..(k + 1) : i # k + 1 => i \in 0..k /\ f[i] \in Nat
        /\ \A i \in 0..k : i \in 0..(k + 1) /\ i # k + 1
    OBVIOUS
  <2>2. g \in [0..(k + 1) -> Nat]
    <3>1. \A a, b \in Nat : a + b \in Nat
      OBVIOUS
    <3> QED
      BY <2>0, <3>1
  <2>3. g[0] = 0 /\ g[k + 1] = g[k] + step[k + 1]
    BY <2>1 DEF SumsUpTo
  <2>4. \A i \in 0..(k - 1) : g[i + 1] = g[i] + step[i + 1]
    BY <2>1 DEF SumsUpTo
  <2>5. \A i \in 0..((k + 1) - 1) : i = k \/ i \in 0..(k - 1)
    BY <2>0
  <2> HIDE DEF g
  <2>6. SumsUpTo(g, step, k + 1)
    BY <2>3, <2>4, <2>5 DEF SumsUpTo
  <2> QED
    BY <2>0, <2>2, <2>6
<1> HIDE DEF T
<1>3. T = Nat
  <2>1. T \in SUBSET Nat
    BY DEF T
  <2>2. \A k \in T : k + 1 \in T
    BY <1>2, <2>1
  <2> QED
    BY <1>1, <2>1, <2>2, SetInduction
<1> QED
  BY <1>3 DEF T

LEMMA SumsAgree ==
    ASSUME NEW step \in [Nat -> Nat], NEW m \in Nat, NEW n \in Nat, NEW f, NEW g,
           SumsUpTo(f, step, m), SumsUpTo(g, step, n)
    PROVE  \A i \in Nat : i <= m /\ i <= n => f[i] = g[i]
<1> DEFINE T == {i \in Nat : i <= m /\ i <= n => f[i] = g[i]}
<1>1. 0 \in T
  BY DEF SumsUpTo
<1>2. ASSUME NEW k \in T PROVE k + 1 \in T
  <2> SUFFICES ASSUME k + 1 <= m, k + 1 <= n PROVE f[k + 1] = g[k + 1]
    OBVIOUS
  <2>1. f[k] = g[k] /\ k \in 0..(m - 1) /\ k \in 0..(n - 1)
    OBVIOUS
  <2> QED
    BY <2>1 DEF SumsUpTo
<1>3. T = Nat
  <2>1. T \in SUBSET Nat
    OBVIOUS
  <2> HIDE DEF T
  <2> QED
    BY <1>1, <1>2, <2>1, SetInduction
<1> QED
  BY <1>3

--------------------------------------------------------------------------------
(* The schedule as the settings describe it. *)

\* The n-th wait of the schedule is one of its entries, whatever n is.
LEMMA EntryType == ASSUME NEW n \in Nat \ {0} PROVE Entry(n) \in Nat
BY BackoffAssumption DEF Entry

LEMMA NominalRecurrence ==
    /\ Nominal[0] = 0
    /\ \A n \in Nat : Nominal[n] \in Nat /\ Nominal[n + 1] = Nominal[n] + Entry(n + 1)
<1> DEFINE step == [n \in Nat |-> IF n = 0 THEN 0 ELSE Entry(n)]
           sums(n) == CHOOSE f \in [0..n -> Nat] : SumsUpTo(f, step, n)
           total == [n \in Nat |-> sums(n)[n]]
<1>1. step \in [Nat -> Nat] /\ \A n \in Nat : step[n + 1] = Entry(n + 1)
  BY EntryType
<1> HIDE DEF step
<1>2. ASSUME NEW n \in Nat PROVE sums(n) \in [0..n -> Nat] /\ SumsUpTo(sums(n), step, n)
  BY <1>1, SumsExist
<1> HIDE DEF sums
<1>3. total[0] = 0 /\ \A n \in Nat : total[n] \in Nat
  BY <1>2 DEF SumsUpTo
<1>4. ASSUME NEW n \in Nat PROVE total[n + 1] = total[n] + Entry(n + 1)
  <2>1. n + 1 \in Nat /\ n \in 0..((n + 1) - 1)
    OBVIOUS
  <2>2. sums(n + 1)[n + 1] = sums(n + 1)[n] + step[n + 1]
    BY <1>2, <2>1 DEF SumsUpTo
  <2>3. sums(n + 1)[n] = sums(n)[n]
    <3>1. SumsUpTo(sums(n), step, n) /\ SumsUpTo(sums(n + 1), step, n + 1)
      BY <1>2, <2>1
    <3>2. \A i \in Nat : i <= n + 1 /\ i <= n => sums(n + 1)[i] = sums(n)[i]
      BY <1>1, <2>1, <3>1, SumsAgree
    <3> QED
      BY <3>2
  <2> QED
    BY <1>1, <2>1, <2>2, <2>3
<1>5. total = [n \in Nat |-> IF n = 0 THEN 0 ELSE total[n - 1] + Entry(n)]
  <2>1. ASSUME NEW n \in Nat \ {0} PROVE total[n] = total[n - 1] + Entry(n)
    <3>1. n - 1 \in Nat /\ (n - 1) + 1 = n
      OBVIOUS
    <3> QED
      BY <1>4, <3>1
  <2>2. total = [n \in Nat |-> total[n]]
    OBVIOUS
  <2> HIDE DEF total
  <2> QED
    BY <1>3, <2>1, <2>2
<1> HIDE DEF total
<1>6. Nominal = [n \in Nat |-> IF n = 0 THEN 0 ELSE Nominal[n - 1] + Entry(n)]
  BY <1>5 DEF Nominal
<1> DEFINE T == {n \in Nat : Nominal[n] = total[n]}
<1>7. T = Nat
  <2>1. 0 \in T
    BY <1>3, <1>6
  <2>2. ASSUME NEW n \in T PROVE n + 1 \in T
    <3>1. n + 1 \in Nat /\ n + 1 # 0 /\ (n + 1) - 1 = n
      OBVIOUS
    <3>2. Nominal[n + 1] = Nominal[n] + Entry(n + 1)
      BY <1>6, <3>1
    <3> QED
      BY <1>4, <3>1, <3>2
  <2>3. T \in SUBSET Nat
    OBVIOUS
  <2> HIDE DEF T
  <2> QED
    BY <2>1, <2>2, <2>3, SetInduction
<1> QED
  BY <1>3, <1>4, <1>7
\* The delay before the next attempt is the entry of the schedule, give or take a tenth.
LEMMA DelayIsTheEntry ==
    ASSUME NEW n \in Nat \ {0}, NEW delay \in RetryDelays(n)
    PROVE  /\ delay \in Nat
           /\ 9 * Entry(n) <= 10 * delay
           /\ 10 * delay <= 11 * Entry(n)
<1>1. BaseDelay(n) = Entry(n)
  BY BackoffAssumption DEF BaseDelay, BackoffIndex, Entry
<1>2. Entry(n) \in Nat
  BY EntryType
<1> HIDE DEF Entry
<1> QED
  BY <1>1, <1>2 DEF RetryDelays, Jittered

--------------------------------------------------------------------------------
(* The chain of attempts. *)

\* A chain goes on only while there is an attempt left.
AttemptLeft == status = "pending" => attempts < MaxAttempts

\* What a failure turns the row into, and for which answers.
LEMMA Verdict ==
    ASSUME NEW n \in Nat, NEW code \in Answers, ~Success(code),
           NEW verdict, verdict = FailureStatus(n, code, code = NoCode, TRUE)
    PROVE  /\ verdict \in {"pending", "failed", "dead_letter"}
           /\ verdict = "pending" => n < MaxAttempts /\ code \in Transient
           /\ verdict = "dead_letter" => n >= MaxAttempts /\ code \in Transient
           /\ verdict = "failed" /\ DeadLetterAfterAttempts => code \in ConfigErrors
<1>1. code \in Answer
  OBVIOUS
<1>2. ShouldRetry(code, code = NoCode) => code \in Transient
  BY <1>1 DEF ShouldRetry, Transient, ConfigErrors, NonRetryable, Success, Answer, StatusCode, NoCode
<1>3. ~ShouldRetry(code, code = NoCode) => code \in ConfigErrors
  BY DEF ShouldRetry, ConfigErrors, NonRetryable
<1> QED
  BY <1>2, <1>3 DEF FailureStatus

ChainInv == TypeOK /\ AttemptLeft

LEMMA ChainInit == Init => ChainInv
BY DEF Init, ChainInv, TypeOK, AttemptLeft

LEMMA ChainStep == ChainInv /\ [Next]_vars => ChainInv'
<1> SUFFICES ASSUME ChainInv, [Next]_vars PROVE ChainInv'
  OBVIOUS
<1> USE DEF ChainInv, TypeOK, AttemptLeft
<1>1. ASSUME NEW code \in Answers, Delivered(code) PROVE ChainInv'
  BY <1>1 DEF Delivered
<1>2. ASSUME NEW code \in Answers, Failed(code) PROVE ChainInv'
  <2>1. /\ attempts' = attempts + 1 /\ attempts' \in 1..MaxAttempts
        /\ seen' \subseteq Answers
    BY <1>2 DEF Failed
  <2>2. status' \in {"pending", "failed", "dead_letter"} /\ (status' = "pending" => attempts' < MaxAttempts)
    <3>1. ~Success(code) /\ status' = FailureStatus(attempts', code, code = NoCode, TRUE)
      BY <1>2 DEF Failed
    <3>2. attempts' \in Nat
      BY <2>1
    <3> QED
      BY <3>1, <3>2, Verdict
  <2>3. waited' \in Nat
    <3>1. ASSUME NEW delay \in RetryDelays(attempts'), waited' = waited + delay PROVE waited' \in Nat
      <4>1. delay \in Nat
        BY <2>1, DelayIsTheEntry
      <4> QED
        BY <3>1, <4>1
    <3> QED
      BY <1>2, <3>1 DEF Failed
  <2> QED
    BY <2>1, <2>2, <2>3
<1>3. CASE UNCHANGED vars
  BY <1>3 DEF vars
<1> QED
  BY <1>1, <1>2, <1>3 DEF Next

\* The attempts column never passes MaxAttempts, and the status is one that
\* WebhookDelivery knows.
THEOREM ChainTypeCorrect == Spec => []TypeOK
<1>1. ChainInv => TypeOK
  BY DEF ChainInv
<1> QED
  BY <1>1, ChainInit, ChainStep, PTL DEF Spec

\* A delivery is given up for an answer that says the request is wrong, or after
\* MaxAttempts answers each of which was worth a retry.
THEOREM GivenUpForAReason == Spec => []GivesUpForAReason
<1>1. Init => GivesUpForAReason
  BY DEF Init, GivesUpForAReason
<1>2. ChainInv /\ GivesUpForAReason /\ [Next]_vars => GivesUpForAReason'
  <2> SUFFICES ASSUME ChainInv, GivesUpForAReason, [Next]_vars PROVE GivesUpForAReason'
    OBVIOUS
  <2> USE DEF ChainInv, TypeOK, AttemptLeft
  <2>1. ASSUME NEW code \in Answers, Delivered(code) PROVE GivesUpForAReason'
    BY <2>1 DEF Delivered, GivesUpForAReason
  <2>2. ASSUME NEW code \in Answers, Failed(code) PROVE GivesUpForAReason'
    <3>1. /\ status = "pending" /\ attempts' = attempts + 1 /\ attempts' \in 1..MaxAttempts
          /\ seen' = seen \cup {code}
      BY <2>2 DEF Failed
    <3>2. /\ status' = "pending" => attempts' < MaxAttempts /\ code \in Transient
          /\ status' = "dead_letter" => attempts' >= MaxAttempts /\ code \in Transient
          /\ status' = "failed" /\ DeadLetterAfterAttempts => code \in ConfigErrors
          /\ status' \in {"pending", "failed", "dead_letter"}
      <4>1. ~Success(code) /\ status' = FailureStatus(attempts', code, code = NoCode, TRUE)
        BY <2>2 DEF Failed
      <4>2. attempts' \in Nat
        BY <3>1
      <4> QED
        BY <4>1, <4>2, Verdict
    <3>3. seen \subseteq Transient
      BY <3>1 DEF GivesUpForAReason
    <3> QED
      BY <3>1, <3>2, <3>3 DEF GivesUpForAReason
  <2>3. CASE UNCHANGED vars
    BY <2>3 DEF vars, GivesUpForAReason
  <2> QED
    BY <2>1, <2>2, <2>3 DEF Next
<1> QED
  BY <1>1, <1>2, ChainInit, ChainStep, PTL DEF Spec

\* The schedule so far, and within which bounds it has been waited for.
OnSchedule(n) == 9 * Nominal[n] <= 10 * waited /\ 10 * waited <= 11 * Nominal[n]

ScheduleInv == (status # "pending" => attempts > 0) /\ OnSchedule(Retries)

\* The whole time a delivery waits is within a tenth of the configured schedule,
\* however many retries it takes and however long the list of delays is.
THEOREM ScheduleWaitedFor == Spec => []WaitedWithinJitter
<1>1. Init => ScheduleInv
  BY NominalRecurrence DEF Init, ScheduleInv, OnSchedule, Retries
<1>2. ChainInv /\ ScheduleInv /\ [Next]_vars => ScheduleInv'
  <2> SUFFICES ASSUME ChainInv, ScheduleInv, [Next]_vars PROVE ScheduleInv'
    OBVIOUS
  <2>0. attempts \in Nat /\ waited \in Nat /\ Nominal[attempts] \in Nat
    BY NominalRecurrence DEF ChainInv, TypeOK
  <2>1. ASSUME NEW code \in Answers, Delivered(code) PROVE ScheduleInv'
    <3>1. status = "pending" /\ status' = "delivered" /\ attempts' = attempts + 1 /\ waited' = waited
      BY <2>1 DEF Delivered
    <3>2. attempts' - 1 = attempts
      BY <2>0, <3>1
    <3> QED
      BY <2>0, <3>1, <3>2 DEF ScheduleInv, OnSchedule, Retries
  <2>2. ASSUME NEW code \in Answers, Failed(code) PROVE ScheduleInv'
    <3>1. status = "pending" /\ attempts' = attempts + 1 /\ OnSchedule(attempts)
      BY <2>2 DEF Failed, ScheduleInv, Retries
    <3>2. CASE status' # "pending"
      <4>1. waited' = waited /\ attempts' - 1 = attempts
        BY <2>0, <2>2, <3>1, <3>2 DEF Failed
      <4> QED
        BY <2>0, <3>1, <3>2, <4>1 DEF ScheduleInv, OnSchedule, Retries
    <3>3. CASE status' = "pending"
      <4>1. PICK delay \in RetryDelays(attempts') : waited' = waited + delay
        BY <2>2, <3>3 DEF Failed
      <4>2. attempts' \in Nat \ {0} /\ Entry(attempts') \in Nat
        BY <2>0, <3>1, EntryType
      <4>3. /\ delay \in Nat
            /\ 9 * Entry(attempts') <= 10 * delay /\ 10 * delay <= 11 * Entry(attempts')
        BY <4>1, <4>2, DelayIsTheEntry
      <4>4. Nominal[attempts'] = Nominal[attempts] + Entry(attempts')
        BY <2>0, <3>1, NominalRecurrence
      <4>5. 9 * Nominal[attempts'] <= 10 * waited' /\ 10 * waited' <= 11 * Nominal[attempts']
        <5> HIDE DEF Entry
        <5> QED
          BY <2>0, <3>1, <4>1, <4>2, <4>3, <4>4 DEF OnSchedule
      <4> QED
        BY <3>3, <4>5 DEF ScheduleInv, OnSchedule, Retries
    <3> QED
      BY <3>2, <3>3
  <2>3. CASE UNCHANGED vars
    BY <2>3 DEF vars, ScheduleInv, OnSchedule, Retries
  <2> QED
    BY <2>1, <2>2, <2>3 DEF Next
<1>3. ScheduleInv => WaitedWithinJitter
  BY DEF ScheduleInv, OnSchedule, WaitedWithinJitter
<1> QED
  BY <1>1, <1>2, <1>3, ChainInit, ChainStep, PTL DEF Spec
================================================================================
