--------------------------- MODULE LLMServiceProofs --------------------------
(***************************************************************************)
(* Theorems about the two sides of the LLM service.  Readiness, for any    *)
(* number of polls and cancellations and any TTL and timeouts: typing, one *)
(* provider call at a time, calls a TTL apart, and the bound on what a     *)
(* poll can wait.  AgentTurn, for any agents and tools: every turn asks    *)
(* for its own tools once, in order, and a prompt is answered in text.     *)
(***************************************************************************)
EXTENDS Readiness, AgentTurn, FiniteSetTheorems, SequenceTheorems, WellFoundedInduction, TLAPS

\* The lock is held exactly by the poll in the provider call, and the queue
\* holds exactly the queued polls, each once.
LockAndQueue ==
  /\ \A p \in Polls : pc[p] = "calling" <=> lock = p
  /\ \A i \in DOMAIN waiters : pc[waiters[i]] = "queued"
  /\ \A i, j \in DOMAIN waiters : waiters[i] = waiters[j] => i = j
  /\ \A p \in Polls : pc[p] = "queued" => \E i \in DOMAIN waiters : waiters[i] = p

\* The cache holds what the last completed call said, and its age is true.
CacheIsHeard ==
  /\ cache = heard
  /\ cacheAge = heardAge
  /\ cache = "none" => cacheAge = Ttl

\* How much of its allowance a poll has spent, at each await.  A queued poll
\* shares the clock of the call in flight; once the lock is free it has spent
\* a whole timeout only if the call it waited for has filled the cache.
TimeOf(p) ==
  /\ passed[p] <= cancels
  /\ pc[p] = "idle" => (took[p] = 0 /\ passed[p] = 0)
  /\ pc[p] = "calling" => /\ waited[p] <= LlmTimeout
                          /\ took[p] <= Timeouts(passed[p]) + waited[p]
  /\ (pc[p] = "queued" /\ lock # None) => took[p] <= Timeouts(passed[p]) + waited[lock]
  /\ (pc[p] = "queued" /\ lock = None) =>
       /\ took[p] <= Timeouts(passed[p]) + LlmTimeout
       /\ ~Fresh => took[p] <= Timeouts(passed[p])
  /\ pc[p] = "checking_db" => /\ waited[p] <= DbBudget
                              /\ took[p] <= Timeouts(passed[p]) + LlmTimeout + waited[p]

TimeIsKept == \A p \in Polls : TimeOf(p)

\* Each cancelled call adds one provider timeout to a wait.
LEMMA TimeoutsGrow ==
  /\ \A n \in Nat : Timeouts(n) \in Nat /\ Timeouts(n + 1) = Timeouts(n) + LlmTimeout
  /\ Timeouts(0) = 0
<1>1. LlmTimeout \in Nat
  BY ReadinessAssumption DEF ReadinessAssumption
<1>2. \A n \in Nat : LlmTimeout * n \in Nat /\ LlmTimeout * (n + 1) = LlmTimeout * n + LlmTimeout
  BY <1>1
<1>3. LlmTimeout * 0 = 0
  BY <1>1
<1> QED
  BY <1>2, <1>3 DEF Timeouts

\* The durations of a poll are numbers.
LEMMA Amounts ==
  ASSUME TypeOK, NEW p \in Polls
  PROVE  /\ took[p] \in Nat /\ passed[p] \in Nat /\ waited[p] \in Nat /\ cancels \in Nat
         /\ Timeouts(passed[p]) \in Nat /\ Timeouts(passed[p] + 1) = Timeouts(passed[p]) + LlmTimeout
         /\ LlmTimeout \in Nat /\ LlmTimeout > 0 /\ DbBudget \in Nat
<1>1. LlmTimeout \in Nat /\ LlmTimeout > 0 /\ DbBudget \in Nat /\ MaxCancels \in Nat
  BY ReadinessAssumption DEF ReadinessAssumption
<1>2. took[p] \in Nat /\ passed[p] \in 0..MaxCancels /\ waited[p] \in Nat /\ cancels \in 0..MaxCancels
  BY DEF TypeOK
<1>3. passed[p] \in Nat /\ cancels \in Nat
  BY <1>1, <1>2
<1> QED
  BY <1>1, <1>2, <1>3, TimeoutsGrow

\* Leaving the queue takes the poll out and keeps everybody else, once.
LEMMA WithoutQueue ==
  ASSUME NEW queue \in Seq(Polls), NEW p \in Polls,
         \A i, j \in DOMAIN queue : queue[i] = queue[j] => i = j
  PROVE  /\ Without(queue, p) \in Seq(Polls)
         /\ \A i \in DOMAIN Without(queue, p) :
              Without(queue, p)[i] # p /\ \E j \in DOMAIN queue : Without(queue, p)[i] = queue[j]
         /\ \A i, j \in DOMAIN Without(queue, p) :
              Without(queue, p)[i] = Without(queue, p)[j] => i = j
         /\ \A j \in DOMAIN queue :
              queue[j] # p => \E i \in DOMAIN Without(queue, p) : Without(queue, p)[i] = queue[j]
<1>1. CASE ~ \E i \in DOMAIN queue : queue[i] = p
  BY <1>1 DEF Without
<1>2. CASE \E i \in DOMAIN queue : queue[i] = p
  <2> DEFINE at == CHOOSE i \in DOMAIN queue : queue[i] = p
             n == Len(queue)
             rest == [i \in 1..(n - 1) |-> IF i < at THEN queue[i] ELSE queue[i + 1]]
  <2>1. n \in Nat /\ DOMAIN queue = 1..n /\ at \in 1..n /\ queue[at] = p
    BY <1>2
  <2>2. Without(queue, p) = rest
    BY <1>2 DEF Without
  <2> HIDE DEF at
  <2>3. rest \in Seq(Polls) /\ DOMAIN rest = 1..(n - 1)
    <3>1. n - 1 \in Nat
      BY <2>1
    <3>2. \A i \in 1..(n - 1) : rest[i] \in Polls
      BY <2>1
    <3> QED
      BY <3>1, <3>2
  <2>4. \A i \in 1..(n - 1) : rest[i] # p /\ \E j \in 1..n : rest[i] = queue[j]
    BY <2>1
  <2>5. \A i, j \in 1..(n - 1) : rest[i] = rest[j] => i = j
    BY <2>1
  <2>6. ASSUME NEW j \in 1..n, queue[j] # p
        PROVE  \E i \in 1..(n - 1) : rest[i] = queue[j]
    <3>1. CASE j < at
      <4>1. j \in 1..(n - 1) /\ rest[j] = queue[j]
        BY <3>1, <2>1
      <4> QED
        BY <4>1
    <3>2. CASE j > at
      <4>1. j - 1 \in 1..(n - 1) /\ rest[j - 1] = queue[j]
        BY <3>2, <2>1
      <4> QED
        BY <4>1
    <3> QED
      BY <3>1, <3>2, <2>1, <2>6
  <2> HIDE DEF rest, n
  <2>7. \A i \in DOMAIN rest : rest[i] # p /\ \E j \in DOMAIN queue : rest[i] = queue[j]
    BY <2>1, <2>3, <2>4
  <2>8. \A i, j \in DOMAIN rest : rest[i] = rest[j] => i = j
    BY <2>3, <2>5
  <2>9. \A j \in DOMAIN queue : queue[j] # p => \E i \in DOMAIN rest : rest[i] = queue[j]
    BY <2>1, <2>3, <2>6
  <2> QED
    BY <2>2, <2>3, <2>7, <2>8, <2>9
<1> QED
  BY <1>1, <1>2

\* What the steps after the LLM check leave of a poll.
LEMMA LlmCheckedEffect ==
  ASSUME TypeOK, NEW p \in Polls, NEW status \in Statuses, LlmChecked(p, status)
  PROVE  /\ llm' \in [Polls -> Statuses \cup {"none"}]
         /\ db' \in [Polls -> Statuses \cup {"none", "disabled"}]
         /\ answer' \in [Polls -> Verdicts]
         /\ waited' = [waited EXCEPT ![p] = 0]
         /\ \/ /\ pc' = [pc EXCEPT ![p] = "checking_db"]
               /\ UNCHANGED <<took, passed>>
            \/ /\ pc' = [pc EXCEPT ![p] = "idle"]
               /\ took' = [took EXCEPT ![p] = 0]
               /\ passed' = [passed EXCEPT ![p] = 0]
<1>1. \A s \in Statuses \cup {"disabled"} : Verdict(status, s) \in Verdicts
  BY DEF Verdict, Verdicts
<1>2. CASE setting.database_enabled /\ setting.pool
  BY <1>2 DEF LlmChecked, Awaits, TypeOK, Statuses, Verdicts
<1>3. CASE ~(setting.database_enabled /\ setting.pool)
  <2>1. PICK without \in {"unhealthy", "disabled"} :
          Ends(p, Verdict(status, without)) /\ db' = [db EXCEPT ![p] = without]
    BY <1>3 DEF LlmChecked
  <2>2. llm' = [llm EXCEPT ![p] = status]
    BY DEF LlmChecked
  <2>3. Verdict(status, without) \in Verdicts
    BY <1>1, <2>1 DEF Statuses
  <2> QED
    BY <2>1, <2>2, <2>3 DEF Ends, TypeOK, Statuses
<1> QED
  BY <1>2, <1>3

IInv == TypeOK /\ LockAndQueue /\ CacheIsHeard /\ TimeIsKept

\* No poll, an empty cache, a free lock.
LEMMA InitIInv == Init => IInv
<1> SUFFICES ASSUME Init PROVE IInv
  OBVIOUS
<1> USE ReadinessAssumption DEF ReadinessAssumption, Init
<1>1. TypeOK
  BY DEF TypeOK, Statuses, Verdicts
<1>2. LockAndQueue
  <2>1. DOMAIN waiters = {}
    OBVIOUS
  <2> QED
    BY <2>1 DEF LockAndQueue
<1>3. CacheIsHeard
  BY DEF CacheIsHeard
<1>4. TimeIsKept
  <2> SUFFICES ASSUME NEW p \in Polls PROVE TimeOf(p)
    BY DEF TimeIsKept
  <2>1. pc[p] = "idle" /\ took[p] = 0 /\ passed[p] = 0 /\ cancels = 0
    OBVIOUS
  <2> QED
    BY <2>1 DEF TimeOf
<1> QED
  BY <1>1, <1>2, <1>3, <1>4 DEF IInv

-----------------------------------------------------------------------------
(* Steps that leave the lock, the queue and the cache alone *)

\* A step of a poll that neither asks for the lock nor holds it.
LEMMA AwayFromLock ==
  ASSUME IInv, NEW p \in Polls, NEW at \in {"idle", "checking_db"},
         pc[p] \in {"idle", "checking_db"},
         UNCHANGED <<setting, probeVars, cancels>>,
         llm' \in [Polls -> Statuses \cup {"none"}],
         db' \in [Polls -> Statuses \cup {"none", "disabled"}],
         answer' \in [Polls -> Verdicts],
         pc' = [pc EXCEPT ![p] = at],
         waited' = [waited EXCEPT ![p] = 0],
         at = "checking_db" => pc[p] = "idle" /\ UNCHANGED <<took, passed>>,
         at = "idle" => /\ took' = [took EXCEPT ![p] = 0]
                        /\ passed' = [passed EXCEPT ![p] = 0]
  PROVE  IInv'
<1> USE ReadinessAssumption DEF ReadinessAssumption, IInv, probeVars
<1>1. TypeOK'
  <2>1. CASE at = "checking_db"
    BY <2>1 DEF TypeOK
  <2>2. CASE at = "idle"
    <3>1. took' = [took EXCEPT ![p] = 0] /\ passed' = [passed EXCEPT ![p] = 0]
      BY <2>2
    <3>2. 0 \in Nat /\ 0 \in 0..MaxCancels
      OBVIOUS
    <3> QED
      BY <2>2, <3>1, <3>2 DEF TypeOK
  <2> QED
    BY <2>1, <2>2
<1>2. LockAndQueue'
  <2>1. \A q \in Polls : q # p => pc'[q] = pc[q]
    BY DEF TypeOK
  <2>2. pc'[p] = at
    BY DEF TypeOK
  <2>3. \A i \in DOMAIN waiters : waiters[i] \in Polls
    BY DEF TypeOK
  <2> QED
    BY <2>1, <2>2, <2>3 DEF LockAndQueue
<1>3. CacheIsHeard'
  BY DEF CacheIsHeard
<1>4. TimeIsKept'
  <2> SUFFICES ASSUME NEW q \in Polls
               PROVE  TimeOf(q)'
    BY DEF TimeIsKept
  <2>1. Fresh' = Fresh /\ cancels \in Nat /\ lock # p
    BY DEF Fresh, TypeOK, LockAndQueue
  <2>2. CASE q # p
    BY <2>1, <2>2 DEF TimeIsKept, TimeOf, TypeOK
  <2>3. CASE q = p
    <3>1. pc'[q] = at /\ waited'[q] = 0
      BY <2>3 DEF TypeOK
    <3>2. CASE at = "idle"
      <4>1. took'[q] = 0 /\ passed'[q] = 0
        BY <2>3, <3>2 DEF TypeOK
      <4> QED
        BY <2>1, <3>1, <3>2, <4>1 DEF TimeOf
    <3>3. CASE at = "checking_db"
      <4>1. took'[q] = 0 /\ passed'[q] = 0
        BY <2>3, <3>3 DEF TimeIsKept, TimeOf
      <4> QED
        BY <2>1, <3>1, <3>3, <4>1, TimeoutsGrow DEF TimeOf
    <3> QED
      BY <3>2, <3>3
  <2> QED
    BY <2>2, <2>3
<1> QED
  BY <1>1, <1>2, <1>3, <1>4

-----------------------------------------------------------------------------
(* Steps at the lock *)

\* _execute_live_probe starts under the lock.
LEMMA CallsProviderStep ==
  ASSUME IInv, NEW p \in Polls, CallsProvider(p)
  PROVE  IInv'
<1> USE ReadinessAssumption
    DEF ReadinessAssumption, IInv, CallsProvider, Probing, Awaits
<1>1. TypeOK'
  BY DEF TypeOK, Verdicts
<1>2. LockAndQueue'
  <2>1. DOMAIN waiters = {} /\ \A q \in Polls : pc[q] # "calling" /\ pc[q] # "queued"
    BY DEF TypeOK, LockAndQueue
  <2>2. \A q \in Polls : pc'[q] = IF q = p THEN "calling" ELSE pc[q]
    BY DEF TypeOK
  <2> QED
    BY <2>1, <2>2 DEF LockAndQueue
<1>3. CacheIsHeard'
  BY DEF CacheIsHeard
<1>4. TimeIsKept'
  <2> SUFFICES ASSUME NEW q \in Polls
               PROVE  TimeOf(q)'
    BY DEF TimeIsKept
  <2>1. Fresh' = Fresh /\ cancels \in Nat /\ \A r \in Polls : pc[r] # "queued"
    BY DEF Fresh, TypeOK, LockAndQueue
  <2>2. CASE q # p
    BY <2>1, <2>2 DEF TimeIsKept, TimeOf, TypeOK
  <2>3. CASE q = p
    <3>1. pc'[q] = "calling" /\ waited'[q] = 0
      BY <2>3 DEF TypeOK
    <3>2. took'[q] = 0 /\ passed'[q] = 0
      BY <2>3 DEF TimeIsKept, TimeOf
    <3>3. Timeouts(passed[q])' = 0 /\ LlmTimeout \in Nat /\ cancels' \in Nat
      BY <2>1, <3>2, TimeoutsGrow
    <3> QED
      BY <3>1, <3>2, <3>3 DEF TimeOf
  <2> QED
    BY <2>2, <2>3
<1> QED
  BY <1>1, <1>2, <1>3, <1>4

\* A poll that finds the lock taken joins the queue.
LEMMA QueuesStep ==
  ASSUME IInv, NEW p \in Polls, Queues(p)
  PROVE  IInv'
<1> USE ReadinessAssumption
    DEF ReadinessAssumption, IInv, Queues, Probing, Awaits
<1>1. TypeOK'
  BY DEF TypeOK, Verdicts
<1>2. LockAndQueue'
  <2> DEFINE n == Len(waiters)
  <2>1. /\ n \in Nat /\ DOMAIN waiters = 1..n /\ DOMAIN waiters' = 1..(n + 1)
        /\ \A i \in 1..n : waiters'[i] = waiters[i] /\ waiters[i] \in Polls
        /\ waiters'[n + 1] = p
    BY DEF TypeOK
  <2>2. \A q \in Polls : pc'[q] = IF q = p THEN "queued" ELSE pc[q]
    BY DEF TypeOK
  <2>3. lock # p /\ \A i \in 1..n : waiters[i] # p
    BY <2>1 DEF LockAndQueue
  <2>4. \A q \in Polls : pc'[q] = "calling" <=> lock' = q
    BY <2>2, <2>3 DEF LockAndQueue
  <2>5. \A i \in 1..(n + 1) : pc'[waiters'[i]] = "queued"
    BY <2>1, <2>2, <2>3 DEF LockAndQueue
  <2>6. \A i, j \in 1..(n + 1) : waiters'[i] = waiters'[j] => i = j
    BY <2>1, <2>3 DEF LockAndQueue
  <2>7. \A q \in Polls : pc'[q] = "queued" => \E i \in 1..(n + 1) : waiters'[i] = q
    BY <2>1, <2>2 DEF LockAndQueue
  <2> HIDE DEF n
  <2> QED
    BY <2>1, <2>4, <2>5, <2>6, <2>7 DEF LockAndQueue
<1>3. CacheIsHeard'
  BY DEF CacheIsHeard
<1>4. TimeIsKept'
  <2> SUFFICES ASSUME NEW q \in Polls
               PROVE  TimeOf(q)'
    BY DEF TimeIsKept
  <2>1. Fresh' = Fresh /\ cancels \in Nat /\ lock # p
    BY DEF Fresh, TypeOK, LockAndQueue
  <2>2. CASE q # p
    <3>1. lock # None => waited'[lock] = waited[lock]
      BY <2>1 DEF TypeOK
    <3> QED
      BY <2>1, <2>2, <3>1 DEF TimeIsKept, TimeOf, TypeOK
  <2>3. CASE q = p
    <3>1. pc'[q] = "queued" /\ waited'[q] = 0
      BY <2>3 DEF TypeOK
    <3>2. took'[q] = 0 /\ passed'[q] = 0
      BY <2>3 DEF TimeIsKept, TimeOf
    <3>3. lock' # None => waited'[lock'] \in Nat
      BY <2>1 DEF TypeOK
    <3>4. Timeouts(passed[q])' = 0 /\ LlmTimeout \in Nat /\ cancels' \in Nat
      BY <2>1, <3>2, TimeoutsGrow
    <3> QED
      BY <3>1, <3>2, <3>3, <3>4 DEF TimeOf
  <2> QED
    BY <2>2, <2>3
<1> QED
  BY <1>1, <1>2, <1>3, <1>4

\* The queue after its first poll has left it, for a poll that goes on to
\* anything but the queue.
LEMMA HeadLeaves ==
  ASSUME IInv, waiters # <<>>, NEW p \in Polls, p = Head(waiters),
         waiters' = Tail(waiters), NEW at,
         at # "queued", at = "calling" => lock' = p, at # "calling" => lock' = None,
         lock = None, pc' = [pc EXCEPT ![p] = at]
  PROVE  LockAndQueue' /\ pc[p] = "queued"
<1> USE ReadinessAssumption DEF ReadinessAssumption
<1> DEFINE n == Len(waiters)
<1>1. /\ n \in Nat /\ n >= 1 /\ DOMAIN waiters = 1..n /\ DOMAIN waiters' = 1..(n - 1)
      /\ \A i \in 1..(n - 1) : waiters'[i] = waiters[i + 1]
      /\ \A i \in 1..n : waiters[i] \in Polls
      /\ waiters[1] = p
  BY DEF IInv, TypeOK
<1>2. \A q \in Polls : pc'[q] = IF q = p THEN at ELSE pc[q]
  BY DEF IInv, TypeOK
<1>3. pc[p] = "queued"
  BY <1>1 DEF IInv, LockAndQueue
<1>4. \A i \in 1..(n - 1) : i + 1 \in 1..n /\ waiters'[i] # p
  BY <1>1 DEF IInv, LockAndQueue
<1>5. \A q \in Polls : pc'[q] = "calling" <=> lock' = q
  BY <1>2 DEF IInv, LockAndQueue
<1>6. \A i \in 1..(n - 1) : pc'[waiters'[i]] = "queued"
  BY <1>1, <1>2, <1>4 DEF IInv, LockAndQueue
<1>7. \A i, j \in 1..(n - 1) : waiters'[i] = waiters'[j] => i = j
  BY <1>1, <1>4 DEF IInv, LockAndQueue
<1>8. ASSUME NEW q \in Polls, pc'[q] = "queued"
      PROVE  \E i \in 1..(n - 1) : waiters'[i] = q
  <2>1. q # p /\ pc[q] = "queued"
    BY <1>2, <1>8
  <2>2. PICK j \in 1..n : waiters[j] = q
    BY <1>1, <2>1 DEF IInv, LockAndQueue
  <2>3. j # 1 /\ j - 1 \in 1..(n - 1) /\ waiters'[j - 1] = q
    BY <1>1, <2>1, <2>2
  <2> QED
    BY <2>3
<1> HIDE DEF n
<1>9. DOMAIN waiters' = 1..(n - 1)
  BY <1>1
<1>10. LockAndQueue'
  BY ONLY <1>5, <1>6, <1>7, <1>8, <1>9 DEF LockAndQueue
<1> QED
  BY <1>3, <1>10

\* The first of the queue gets the lock and looks at the cache again.
LEMMA GrantedStep ==
  ASSUME IInv, NEW p \in Polls, Granted(p)
  PROVE  IInv'
<1> USE ReadinessAssumption DEF ReadinessAssumption, IInv
<1>0. /\ lock = None /\ waiters # <<>> /\ p = Head(waiters) /\ waiters' = Tail(waiters)
      /\ waiters' \in Seq(Polls)
      /\ UNCHANGED <<setting, cache, cacheAge, heard, heardAge, cancels>>
      /\ Fresh' = Fresh /\ cancels \in Nat
  BY DEF Granted, Fresh, TypeOK
<1>1. CASE Fresh
  <2>1. cache \in Statuses /\ LlmChecked(p, cache) /\ lock' = lock
    BY <1>1 DEF Granted, Fresh, TypeOK
  <2>2. PICK at \in {"checking_db", "idle"} :
          /\ pc' = [pc EXCEPT ![p] = at]
          /\ IF at = "checking_db" THEN UNCHANGED <<took, passed>>
             ELSE /\ took' = [took EXCEPT ![p] = 0]
                  /\ passed' = [passed EXCEPT ![p] = 0]
    BY <2>1, LlmCheckedEffect
  <2>3. /\ llm' \in [Polls -> Statuses \cup {"none"}]
        /\ db' \in [Polls -> Statuses \cup {"none", "disabled"}]
        /\ answer' \in [Polls -> Verdicts]
        /\ waited' = [waited EXCEPT ![p] = 0]
    BY <2>1, LlmCheckedEffect
  <2>4. TypeOK'
    <3>1. CASE at = "idle"
      <4>1. took' = [took EXCEPT ![p] = 0] /\ passed' = [passed EXCEPT ![p] = 0]
        BY <2>2, <3>1
      <4>2. 0 \in Nat /\ 0 \in 0..MaxCancels
        OBVIOUS
      <4> QED
        BY <1>0, <2>1, <2>2, <2>3, <4>1, <4>2 DEF TypeOK
    <3>2. CASE at = "checking_db"
      BY <1>0, <2>1, <2>2, <2>3, <3>2 DEF TypeOK
    <3> QED
      BY <3>1, <3>2
  <2>5. LockAndQueue' /\ pc[p] = "queued"
    BY <1>0, <2>1, <2>2, HeadLeaves
  <2>6. CacheIsHeard'
    BY <1>0 DEF CacheIsHeard
  <2>7. TimeIsKept'
    <3> SUFFICES ASSUME NEW q \in Polls PROVE TimeOf(q)'
      BY DEF TimeIsKept
    <3>1. CASE q # p
      BY <1>0, <2>1, <2>2, <2>3, <3>1 DEF TimeIsKept, TimeOf, TypeOK
    <3>2. CASE q = p
      <4>1. pc'[q] = at /\ waited'[q] = 0
        BY <2>2, <2>3, <3>2 DEF TypeOK
      <4>2. CASE at = "idle"
        <5>1. took'[q] = 0 /\ passed'[q] = 0
          BY <2>2, <3>2, <4>2 DEF TypeOK
        <5> QED
          BY <1>0, <4>1, <4>2, <5>1 DEF TimeOf
      <4>3. CASE at = "checking_db"
        <5>1. took'[q] = took[q] /\ passed'[q] = passed[q]
          BY <2>2, <4>3
        <5>2. took[q] <= Timeouts(passed[q]) + LlmTimeout /\ passed[q] <= cancels
          BY <1>0, <2>5, <3>2 DEF TimeIsKept, TimeOf
        <5>3. Timeouts(passed[q]) \in Nat /\ LlmTimeout \in Nat /\ DbBudget \in Nat
              /\ took[q] \in Nat
          BY Amounts
        <5>4. Timeouts(passed[q])' = Timeouts(passed[q])
          BY <5>1
        <5> QED
          BY <1>0, <4>1, <4>3, <5>1, <5>2, <5>3, <5>4 DEF TimeOf
      <4> QED
        BY <4>2, <4>3
    <3> QED
      BY <3>1, <3>2
  <2> QED
    BY <2>4, <2>5, <2>6, <2>7
<1>2. CASE ~Fresh
  <2>1. lock' = p /\ Awaits(p, "calling") /\ UNCHANGED <<llm, db>>
    BY <1>2 DEF Granted
  <2>2. pc' = [pc EXCEPT ![p] = "calling"] /\ waited' = [waited EXCEPT ![p] = 0]
        /\ UNCHANGED <<took, passed>> /\ answer' = [answer EXCEPT ![p] = "none"]
    BY <2>1 DEF Awaits
  <2>3. TypeOK'
    BY <1>0, <2>1, <2>2 DEF TypeOK, Verdicts
  <2>4. LockAndQueue' /\ pc[p] = "queued"
    BY <1>0, <2>1, <2>2, HeadLeaves
  <2>5. CacheIsHeard'
    BY <1>0 DEF CacheIsHeard
  <2>6. TimeIsKept'
    <3> SUFFICES ASSUME NEW q \in Polls PROVE TimeOf(q)'
      BY DEF TimeIsKept
    <3>1. took[q] \in Nat /\ Timeouts(passed[q]) \in Nat /\ LlmTimeout \in Nat
      BY Amounts
    <3>2. Timeouts(passed[q])' = Timeouts(passed[q]) /\ took'[q] = took[q] /\ passed'[q] = passed[q]
      BY <2>2
    <3>3. waited'[p] = 0
      BY <2>2 DEF TypeOK
    <3>4. CASE q # p
      <4>1. pc'[q] = pc[q] /\ waited'[q] = waited[q] /\ pc[q] # "calling"
        BY <1>0, <2>2, <3>4 DEF TypeOK, LockAndQueue
      <4>2. pc[q] = "queued" => took[q] <= Timeouts(passed[q])
        BY <1>0, <1>2 DEF TimeIsKept, TimeOf
      <4>3. pc[q] = "checking_db" => /\ waited[q] <= DbBudget
                                    /\ took[q] <= Timeouts(passed[q]) + LlmTimeout + waited[q]
        BY DEF TimeIsKept, TimeOf
      <4>4. passed[q] <= cancels /\ (pc[q] = "idle" => took[q] = 0 /\ passed[q] = 0)
        BY DEF TimeIsKept, TimeOf
      <4> QED
        BY <1>0, <2>1, <3>1, <3>2, <3>3, <4>1, <4>2, <4>3, <4>4 DEF TimeOf
    <3>5. CASE q = p
      <4>1. pc'[q] = "calling"
        BY <2>2, <3>5 DEF TypeOK
      <4>2. took[q] <= Timeouts(passed[q]) /\ passed[q] <= cancels
        BY <1>0, <1>2, <2>4, <3>5 DEF TimeIsKept, TimeOf
      <4> QED
        BY <1>0, <3>1, <3>2, <3>3, <3>5, <4>1, <4>2 DEF TimeOf
    <3> QED
      BY <3>4, <3>5
  <2> QED
    BY <2>3, <2>4, <2>5, <2>6
<1> QED
  BY <1>1, <1>2

\* The call ends: the polls that queued behind it have spent one timeout more,
\* and the cache is fresh.
LEMMA CallEndsStep ==
  ASSUME IInv, NEW p \in Polls, NEW status \in Statuses, CallEnds(p, status)
  PROVE  IInv'
<1> USE ReadinessAssumption DEF ReadinessAssumption, IInv
<1>0. /\ pc[p] = "calling" /\ lock = p /\ lock' = None
      /\ cache' = status /\ cacheAge' = 0 /\ heard' = status /\ heardAge' = 0
      /\ UNCHANGED <<setting, waiters, cancels>> /\ LlmChecked(p, status)
  BY DEF CallEnds, LockAndQueue
<1>1. PICK at \in {"checking_db", "idle"} :
        /\ pc' = [pc EXCEPT ![p] = at]
        /\ IF at = "checking_db" THEN UNCHANGED <<took, passed>>
           ELSE /\ took' = [took EXCEPT ![p] = 0]
                /\ passed' = [passed EXCEPT ![p] = 0]
  BY <1>0, LlmCheckedEffect
<1>2. /\ llm' \in [Polls -> Statuses \cup {"none"}]
      /\ db' \in [Polls -> Statuses \cup {"none", "disabled"}]
      /\ answer' \in [Polls -> Verdicts]
      /\ waited' = [waited EXCEPT ![p] = 0]
  BY <1>0, LlmCheckedEffect
<1>3. Fresh'
  BY <1>0 DEF Fresh, Statuses
<1>4. \A q \in Polls : pc'[q] = IF q = p THEN at ELSE pc[q]
  BY <1>1 DEF TypeOK
<1>5. TypeOK'
  <2>1. 0 \in Nat /\ 0 \in 0..MaxCancels /\ 0 \in 0..Ttl
    OBVIOUS
  <2>2. took' \in [Polls -> Nat] /\ passed' \in [Polls -> 0..MaxCancels]
    <3>1. CASE at = "idle"
      <4>1. took' = [took EXCEPT ![p] = 0] /\ passed' = [passed EXCEPT ![p] = 0]
        BY <1>1, <3>1
      <4> QED
        BY <2>1, <4>1 DEF TypeOK
    <3>2. CASE at = "checking_db"
      BY <1>1, <3>2 DEF TypeOK
    <3> QED
      BY <3>1, <3>2
  <2> QED
    BY <1>0, <1>1, <1>2, <2>1, <2>2 DEF TypeOK
<1>6. LockAndQueue'
  <2>1. \A i \in DOMAIN waiters : waiters[i] \in Polls /\ waiters[i] # p
    BY <1>0 DEF TypeOK, LockAndQueue
  <2> QED
    BY <1>0, <1>4, <2>1 DEF LockAndQueue
<1>7. CacheIsHeard'
  BY <1>0 DEF CacheIsHeard, Statuses
<1>8. TimeIsKept'
  <2> SUFFICES ASSUME NEW q \in Polls PROVE TimeOf(q)'
    BY DEF TimeIsKept
  <2>1. CASE q # p
    <3>1. pc'[q] = pc[q] /\ waited'[q] = waited[q] /\ pc[q] # "calling"
      BY <1>0, <1>2, <1>4, <2>1 DEF TypeOK, LockAndQueue
    <3>2. took'[q] = took[q] /\ passed'[q] = passed[q]
      BY <1>1, <2>1 DEF TypeOK
    <3>3. pc[q] = "queued" => took[q] <= Timeouts(passed[q]) + LlmTimeout
      <4>1. pc[q] = "queued" => took[q] <= Timeouts(passed[q]) + waited[p]
        BY <1>0 DEF TimeIsKept, TimeOf
      <4>2. waited[p] <= LlmTimeout /\ waited[p] \in Nat
        BY <1>0, Amounts DEF TimeIsKept, TimeOf
      <4> QED
        BY <4>1, <4>2, Amounts
    <3>4. Timeouts(passed[q])' = Timeouts(passed[q])
      BY <3>2
    <3> QED
      BY <1>0, <1>3, <3>1, <3>2, <3>3, <3>4 DEF TimeIsKept, TimeOf
  <2>2. CASE q = p
    <3>1. pc'[q] = at /\ waited'[q] = 0
      BY <1>2, <1>4, <2>2 DEF TypeOK
    <3>2. CASE at = "idle"
      <4>1. took'[q] = 0 /\ passed'[q] = 0
        BY <1>1, <2>2, <3>2 DEF TypeOK
      <4> QED
        BY <1>0, <3>1, <3>2, <4>1, Amounts DEF TimeOf
    <3>3. CASE at = "checking_db"
      <4>1. took'[q] = took[q] /\ passed'[q] = passed[q]
        BY <1>1, <3>3
      <4>2. took[q] <= Timeouts(passed[q]) + LlmTimeout /\ passed[q] <= cancels
        BY <1>0, <2>2, Amounts DEF TimeIsKept, TimeOf
      <4>3. Timeouts(passed[q])' = Timeouts(passed[q])
        BY <4>1
      <4> QED
        BY <1>0, <3>1, <3>3, <4>1, <4>2, <4>3, Amounts DEF TimeOf
    <3> QED
      BY <3>2, <3>3
  <2> QED
    BY <2>1, <2>2
<1> QED
  BY <1>5, <1>6, <1>7, <1>8

\* A poll is cancelled: if it held the lock, the polls behind it are granted
\* another timeout for what they have waited.
LEMMA CancelledStep ==
  ASSUME IInv, NEW p \in Polls, Cancelled(p)
  PROVE  IInv'
<1> USE ReadinessAssumption DEF ReadinessAssumption, IInv
<1>0. /\ pc[p] # "idle" /\ cancels < MaxCancels /\ cancels' = cancels + 1
      /\ lock' = IF lock = p THEN None ELSE lock
      /\ waiters' = Without(waiters, p)
      /\ pc' = [pc EXCEPT ![p] = "idle"]
      /\ answer' = [answer EXCEPT ![p] = "dropped"]
      /\ waited' = [waited EXCEPT ![p] = 0]
      /\ took' = [took EXCEPT ![p] = 0]
      /\ UNCHANGED <<setting, heard, heardAge, llm, db, cache, cacheAge>>
  BY DEF Cancelled, CancelledAt, Leaves
<1>1. passed' = [q \in Polls |-> IF q = p THEN 0
                                ELSE IF pc[p] = "calling" /\ pc[q] = "queued"
                                THEN passed[q] + 1 ELSE passed[q]]
  BY DEF Cancelled, CancelledAt
<1>2. \A q \in Polls : pc'[q] = IF q = p THEN "idle" ELSE pc[q]
  BY <1>0 DEF TypeOK
<1>3. \A i, j \in DOMAIN waiters : waiters[i] = waiters[j] => i = j
  BY DEF LockAndQueue
<1>4. waiters \in Seq(Polls)
  BY DEF TypeOK
<1>5. TypeOK'
  <2>1. \A q \in Polls : passed'[q] \in 0..MaxCancels
    <3> SUFFICES ASSUME NEW q \in Polls PROVE passed'[q] \in 0..MaxCancels
      OBVIOUS
    <3>1. passed[q] \in Nat /\ passed[q] <= cancels /\ cancels \in Nat /\ passed[q] \in 0..MaxCancels
      BY Amounts DEF TimeIsKept, TimeOf, TypeOK
    <3> QED
      BY <1>0, <1>1, <3>1
  <2>2. passed' \in [Polls -> 0..MaxCancels]
    BY <1>1, <2>1
  <2>3. cancels' \in 0..MaxCancels
    BY <1>0 DEF TypeOK
  <2>4. Without(waiters, p) \in Seq(Polls)
    BY <1>3, <1>4, WithoutQueue
  <2> QED
    BY <1>0, <2>2, <2>3, <2>4 DEF TypeOK, Verdicts
<1>6. LockAndQueue'
  <2>1. /\ \A i \in DOMAIN waiters' :
             waiters'[i] # p /\ \E j \in DOMAIN waiters : waiters'[i] = waiters[j]
        /\ \A i, j \in DOMAIN waiters' : waiters'[i] = waiters'[j] => i = j
        /\ \A j \in DOMAIN waiters :
             waiters[j] # p => \E i \in DOMAIN waiters' : waiters'[i] = waiters[j]
    BY <1>0, <1>3, <1>4, WithoutQueue
  <2>2. \A i \in DOMAIN waiters : waiters[i] \in Polls /\ pc[waiters[i]] = "queued"
    BY DEF TypeOK, LockAndQueue
  <2>3. \A q \in Polls : pc'[q] = "calling" <=> lock' = q
    BY <1>0, <1>2 DEF LockAndQueue
  <2>4. \A i \in DOMAIN waiters' : pc'[waiters'[i]] = "queued"
    BY <1>2, <2>1, <2>2
  <2>5. \A q \in Polls : pc'[q] = "queued" => \E i \in DOMAIN waiters' : waiters'[i] = q
    <3> SUFFICES ASSUME NEW q \in Polls, pc'[q] = "queued"
                 PROVE  \E i \in DOMAIN waiters' : waiters'[i] = q
      OBVIOUS
    <3>1. q # p /\ pc[q] = "queued"
      BY <1>2
    <3>2. PICK j \in DOMAIN waiters : waiters[j] = q
      BY <3>1 DEF LockAndQueue
    <3> QED
      BY <2>1, <3>1, <3>2
  <2> QED
    BY <2>1, <2>3, <2>4, <2>5 DEF LockAndQueue
<1>7. CacheIsHeard'
  BY <1>0 DEF CacheIsHeard
<1>8. TimeIsKept'
  <2> SUFFICES ASSUME NEW q \in Polls PROVE TimeOf(q)'
    BY DEF TimeIsKept
  <2>0. Fresh' = Fresh
    BY <1>0 DEF Fresh
  <2>1. CASE q = p
    <3>1. pc'[q] = "idle" /\ took'[q] = 0 /\ passed'[q] = 0
      BY <1>0, <1>1, <1>2, <2>1 DEF TypeOK
    <3> QED
      BY <1>0, <3>1, Amounts DEF TimeOf
  <2>2. CASE q # p /\ pc[p] = "calling" /\ pc[q] = "queued"
    <3>1. lock = p /\ lock' = None /\ pc'[q] = "queued"
      BY <1>0, <1>2, <2>2 DEF LockAndQueue
    <3>2. took'[q] = took[q] /\ passed'[q] = passed[q] + 1
      BY <1>0, <1>1, <2>2 DEF TypeOK
    <3>3. took[q] <= Timeouts(passed[q]) + waited[p] /\ passed[q] <= cancels
      BY <2>2, <3>1 DEF TimeIsKept, TimeOf
    <3>4. waited[p] <= LlmTimeout /\ waited[p] \in Nat
      BY <2>2, Amounts DEF TimeIsKept, TimeOf
    <3>5. Timeouts(passed[q])' = Timeouts(passed[q]) + LlmTimeout
      BY <3>2, Amounts
    <3> QED
      BY <1>0, <3>1, <3>2, <3>3, <3>4, <3>5, Amounts DEF TimeOf
  <2>3. CASE q # p /\ ~(pc[p] = "calling" /\ pc[q] = "queued")
    <3>1. pc'[q] = pc[q] /\ waited'[q] = waited[q] /\ took'[q] = took[q] /\ passed'[q] = passed[q]
      BY <1>0, <1>1, <1>2, <2>3 DEF TypeOK
    <3>2. Timeouts(passed[q])' = Timeouts(passed[q])
      BY <3>1
    <3>3. pc[q] = "queued" => lock' = lock /\ (lock # None => waited'[lock] = waited[lock])
      BY <1>0, <2>3 DEF LockAndQueue, TypeOK
    <3> QED
      BY <1>0, <2>0, <3>1, <3>2, <3>3, Amounts DEF TimeIsKept, TimeOf
  <2> QED
    BY <2>1, <2>2, <2>3
<1> QED
  BY <1>5, <1>6, <1>7, <1>8

-----------------------------------------------------------------------------
(* Time, and the whole next-state relation *)

\* Time passes only while no waiter could be granted the lock and no timer is
\* due, so nobody's allowance runs out unnoticed.
LEMMA TickStep ==
  ASSUME IInv, Tick
  PROVE  IInv'
<1> USE ReadinessAssumption DEF ReadinessAssumption, IInv
<1>0. /\ UNCHANGED <<setting, cache, lock, waiters, heard, pc, llm, db, answer, passed, cancels>>
      /\ cacheAge' = Older(cacheAge) /\ heardAge' = Older(heardAge)
      /\ waited' = [p \in Polls |-> IF pc[p] \in {"calling", "checking_db"}
                                    THEN waited[p] + 1 ELSE waited[p]]
      /\ took' = [p \in Polls |-> IF pc[p] = "idle" \/ took[p] = TooSlow
                                  THEN took[p] ELSE took[p] + 1]
  BY DEF Tick
<1>1. TypeOK'
  <2>1. ASSUME NEW p \in Polls PROVE waited'[p] \in Nat /\ took'[p] \in Nat
    <3>1. waited[p] \in Nat /\ took[p] \in Nat
      BY DEF TypeOK
    <3> QED
      BY <1>0, <3>1
  <2>2. waited' \in [Polls -> Nat] /\ took' \in [Polls -> Nat]
    BY <1>0, <2>1
  <2>3. cacheAge' \in 0..Ttl /\ heardAge' \in 0..Ttl
    BY <1>0 DEF Older, TypeOK
  <2> QED
    BY <1>0, <2>2, <2>3 DEF TypeOK
<1>2. LockAndQueue'
  BY <1>0 DEF LockAndQueue
<1>3. CacheIsHeard'
  BY <1>0 DEF CacheIsHeard, Older
<1>4. TimeIsKept'
  <2> SUFFICES ASSUME NEW p \in Polls PROVE TimeOf(p)'
    BY DEF TimeIsKept
  <2>1. /\ pc[p] = "calling" => waited[p] < LlmTimeout
        /\ pc[p] = "checking_db" => waited[p] < DbBudget
        /\ took'[p] <= took[p] + 1
        /\ pc[p] = "idle" => took'[p] = took[p]
        /\ pc[p] \in {"calling", "checking_db"} => waited'[p] = waited[p] + 1
        /\ took'[p] \in Nat
    BY <1>0, Amounts DEF Tick, Idle
  <2>2. pc[p] = "queued" =>
          /\ lock \in Polls /\ lock # None
          /\ waited'[lock] = waited[lock] + 1 /\ waited[lock] \in Nat
    <3>1. pc[p] = "queued" => waiters # <<>>
      BY DEF LockAndQueue
    <3>2. pc[p] = "queued" => lock \in Polls /\ lock # None /\ pc[lock] = "calling"
      BY <3>1 DEF Tick, Idle, TypeOK, LockAndQueue
    <3> QED
      BY <1>0, <3>2, Amounts
  <2>3. Timeouts(passed[p])' = Timeouts(passed[p]) /\ pc' = pc /\ lock' = lock
        /\ passed' = passed /\ cancels' = cancels
    BY <1>0
  <2> QED
    BY <2>1, <2>2, <2>3, Amounts DEF TimeIsKept, TimeOf
<1> QED
  BY <1>1, <1>2, <1>3, <1>4

\* Every step of a poll, of the provider or of the clock keeps the invariant.
LEMMA NextIInv == IInv /\ [Next]_vars => IInv'
<1> SUFFICES ASSUME IInv, [Next]_vars PROVE IInv'
  OBVIOUS
<1>0. TypeOK
  BY DEF IInv
<1>1. ASSUME NEW p \in Polls, NoServices(p)
      PROVE  IInv'
  <2>1. UNCHANGED <<setting, probeVars, llm, db, cancels>> /\ Ends(p, "unready") /\ pc[p] = "idle"
    BY <1>1 DEF NoServices
  <2>2. answer' \in [Polls -> Verdicts]
    BY <1>0, <2>1 DEF Ends, TypeOK, Verdicts
  <2>3. llm' \in [Polls -> Statuses \cup {"none"}] /\ db' \in [Polls -> Statuses \cup {"none", "disabled"}]
    BY <1>0, <2>1 DEF TypeOK
  <2> QED
    BY <2>1, <2>2, <2>3, AwayFromLock DEF Ends
<1>2. ASSUME NEW p \in Polls, NEW status \in Statuses, pc[p] = "idle",
             LlmChecked(p, status), UNCHANGED <<setting, probeVars, cancels>>
      PROVE  IInv'
  <2>1. CASE pc' = [pc EXCEPT ![p] = "checking_db"] /\ UNCHANGED <<took, passed>>
    BY <1>0, <1>2, <2>1, LlmCheckedEffect, AwayFromLock
  <2>2. CASE /\ pc' = [pc EXCEPT ![p] = "idle"]
             /\ took' = [took EXCEPT ![p] = 0] /\ passed' = [passed EXCEPT ![p] = 0]
    BY <1>0, <1>2, <2>2, LlmCheckedEffect, AwayFromLock
  <2> QED
    BY <1>0, <1>2, <2>1, <2>2, LlmCheckedEffect
<1>3. ASSUME NEW p \in Polls, AnswersWithoutProvider(p)
      PROVE  IInv'
  <2>1. PICK status \in Statuses : LlmChecked(p, status)
    BY <1>3 DEF AnswersWithoutProvider, Statuses
  <2> QED
    BY <1>2, <1>3, <2>1 DEF AnswersWithoutProvider
<1>4. ASSUME NEW p \in Polls, AnswersFromCache(p)
      PROVE  IInv'
  <2>1. cache \in Statuses /\ LlmChecked(p, cache) /\ pc[p] = "idle"
    BY <1>0, <1>4 DEF AnswersFromCache, Probing, Fresh, TypeOK
  <2> QED
    BY <1>2, <1>4, <2>1 DEF AnswersFromCache
<1>5. ASSUME NEW p \in Polls, NEW status \in Statuses, DbAnswers(p, status)
      PROVE  IInv'
  <2>1. /\ UNCHANGED <<setting, probeVars, llm, cancels>> /\ Ends(p, Verdict(llm[p], status))
        /\ pc[p] = "checking_db" /\ db' = [db EXCEPT ![p] = status]
    BY <1>5 DEF DbAnswers
  <2>2. Verdict(llm[p], status) \in Verdicts
    BY DEF Verdict, Verdicts
  <2>3. answer' \in [Polls -> Verdicts]
    BY <1>0, <2>1, <2>2 DEF Ends, TypeOK
  <2>4. llm' \in [Polls -> Statuses \cup {"none"}] /\ db' \in [Polls -> Statuses \cup {"none", "disabled"}]
    BY <1>0, <2>1 DEF TypeOK
  <2> QED
    BY <2>1, <2>3, <2>4, AwayFromLock DEF Ends
<1>6. ASSUME UNCHANGED vars
      PROVE  IInv'
  BY <1>6 DEF IInv, TypeOK, LockAndQueue, CacheIsHeard, TimeIsKept, TimeOf, Fresh,
              vars, probeVars, pollVars
<1>7. CASE Next
  BY <1>1, <1>3, <1>4, <1>5, <1>7, CallsProviderStep, QueuesStep, GrantedStep, CallEndsStep,
     CancelledStep, TickStep DEF Next, Arrives, Proceeds
<1> QED
  BY <1>6, <1>7

\* So it holds in every reachable state.
LEMMA Inductive == Spec => []IInv
<1> QED
  BY InitIInv, NextIInv, PTL DEF Spec

-----------------------------------------------------------------------------
(* Theorems *)

\* TypeOK holds in every reachable state: what the poll, the probe cache and
\* the lock of check_readiness may hold.
THEOREM Typing == Spec => []TypeOK
<1>1. IInv => TypeOK
  BY DEF IInv
<1> QED
  BY <1>1, Inductive, PTL

\* _probe_lock and the second look: one provider call is in flight, whatever
\* number of polls arrive, are granted the lock or are cancelled.
THEOREM OneCall == Spec => []OneProviderCall
<1>1. IInv => OneProviderCall
  BY DEF IInv, LockAndQueue, OneProviderCall
<1> QED
  BY <1>1, Inductive, PTL

\* _PROBE_CACHE_TTL_SECONDS: no provider call begins sooner than a TTL after
\* the last one that completed, in success or in failure.
THEOREM CallsKeepTheirDistance == Spec => CallsAreSpaced
<1>1. IInv /\ [Next]_vars =>
        [\A p \in Polls : (pc[p] # "calling" /\ pc'[p] = "calling") => heardAge = Ttl]_vars
  <2> SUFFICES ASSUME IInv, Next, NEW p \in Polls, pc[p] # "calling", pc'[p] = "calling"
               PROVE  heardAge = Ttl
    BY DEF vars, pollVars
  <2>0. TypeOK /\ (~Fresh => heardAge = Ttl)
    <3>1. Ttl \in Nat /\ cacheAge \in 0..Ttl
      BY ReadinessAssumption DEF ReadinessAssumption, IInv, TypeOK
    <3> QED
      BY <3>1 DEF IInv, CacheIsHeard, Fresh
  <2>1. ASSUME NEW q \in Polls, NEW what, what # "calling", pc' = [pc EXCEPT ![q] = what]
        PROVE  FALSE
    BY <2>0, <2>1 DEF TypeOK
  <2>2. ASSUME NEW q \in Polls, NEW status \in Statuses, LlmChecked(q, status)
        PROVE  FALSE
    BY <2>0, <2>1, <2>2, LlmCheckedEffect
  <2>3. CASE \E q \in Polls : CallsProvider(q)
    BY <2>0, <2>3 DEF CallsProvider
  <2>4. CASE \E q \in Polls : Granted(q)
    <3>1. PICK q \in Polls : Granted(q)
      BY <2>4
    <3>2. CASE Fresh
      <4>1. cache \in Statuses /\ LlmChecked(q, cache)
        BY <2>0, <3>1, <3>2 DEF Granted, Fresh, TypeOK
      <4> QED
        BY <2>2, <4>1
    <3> QED
      BY <2>0, <3>2
  <2>5. CASE \E q \in Polls : NoServices(q) \/ Queues(q) \/ Cancelled(q)
                             \/ \E status \in Statuses : DbAnswers(q, status)
    BY <2>1, <2>5 DEF NoServices, Queues, Cancelled, CancelledAt, DbAnswers, Ends, Awaits
  <2>6. CASE \E q \in Polls : AnswersWithoutProvider(q) \/ AnswersFromCache(q)
    <3>1. PICK q \in Polls : AnswersWithoutProvider(q) \/ AnswersFromCache(q)
      BY <2>6
    <3>2. PICK status \in Statuses : LlmChecked(q, status)
      BY <2>0, <3>1 DEF AnswersWithoutProvider, AnswersFromCache, Fresh, TypeOK, Statuses
    <3> QED
      BY <2>2, <3>2
  <2>7. CASE \E q \in Polls, status \in Statuses : CallEnds(q, status)
    BY <2>2, <2>7 DEF CallEnds
  <2>8. CASE Tick
    BY <2>8 DEF Tick
  <2> QED
    BY <2>3, <2>4, <2>5, <2>6, <2>7, <2>8 DEF Next, Arrives, Proceeds
<1> QED
  BY <1>1, Inductive, PTL DEF Spec, CallsAreSpaced

\* What a poll takes to the database check was said by the last completed call,
\* less than a TTL ago.
THEOREM ReportsTheLast == Spec => ReportsLastAnswer
<1>1. IInv /\ [Next]_vars =>
        [\A p \in Polls :
           (/\ setting.mode = "probe" /\ setting.llm_service
            /\ pc[p] # "checking_db" /\ pc'[p] = "checking_db")
             => (llm'[p] = heard' /\ heardAge' < Ttl)]_vars
  <2> SUFFICES ASSUME IInv, Next, NEW p \in Polls,
                      setting.mode = "probe", setting.llm_service,
                      pc[p] # "checking_db", pc'[p] = "checking_db"
               PROVE  llm'[p] = heard' /\ heardAge' < Ttl
    BY DEF vars, pollVars
  <2>0. /\ TypeOK
        /\ Fresh => cache \in Statuses /\ cache = heard /\ heardAge < Ttl
        /\ Ttl \in Nat /\ 0 < Ttl
    BY ReadinessAssumption DEF ReadinessAssumption, IInv, TypeOK, CacheIsHeard, Fresh, Statuses
  <2>1. ASSUME NEW q \in Polls, NEW what, what # "checking_db", pc' = [pc EXCEPT ![q] = what]
        PROVE  FALSE
    BY <2>0, <2>1 DEF TypeOK
  <2>2. ASSUME NEW q \in Polls, NEW status \in Statuses, LlmChecked(q, status)
        PROVE  llm'[p] = status
    <3>1. p = q
      <4>1. pc \in [Polls -> {"idle", "queued", "calling", "checking_db"}]
        BY <2>0 DEF TypeOK
      <4>2. \E what : pc' = [pc EXCEPT ![q] = what]
        BY <2>2 DEF LlmChecked, Awaits, Ends
      <4> QED
        BY <4>1, <4>2
    <3>2. llm' = [llm EXCEPT ![q] = status] /\ llm \in [Polls -> Statuses \cup {"none"}]
      BY <2>0, <2>2 DEF LlmChecked, TypeOK
    <3> QED
      BY <3>1, <3>2
  <2>3. CASE \E q \in Polls : Granted(q)
    <3>1. PICK q \in Polls : Granted(q)
      BY <2>3
    <3>2. CASE Fresh
      BY <2>0, <2>2, <3>1, <3>2 DEF Granted
    <3>3. CASE ~Fresh
      BY <2>1, <3>1, <3>3 DEF Granted, Awaits
    <3> QED
      BY <3>2, <3>3
  <2>4. CASE \E q \in Polls : AnswersFromCache(q)
    BY <2>0, <2>2, <2>4 DEF AnswersFromCache, probeVars
  <2>5. CASE \E q \in Polls, status \in Statuses : CallEnds(q, status)
    BY <2>0, <2>2, <2>5 DEF CallEnds
  <2>6. CASE \E q \in Polls : NoServices(q) \/ CallsProvider(q) \/ Queues(q) \/ Cancelled(q)
                             \/ \E status \in Statuses : DbAnswers(q, status)
    BY <2>1, <2>6 DEF NoServices, CallsProvider, Queues, Cancelled, CancelledAt, DbAnswers, Ends,
                      Awaits
  <2>7. ~\E q \in Polls : AnswersWithoutProvider(q)
    BY DEF AnswersWithoutProvider
  <2>8. CASE Tick
    BY <2>8 DEF Tick
  <2> QED
    BY <2>3, <2>4, <2>5, <2>6, <2>7, <2>8 DEF Next, Arrives, Proceeds
<1> QED
  BY <1>1, Inductive, PTL DEF Spec, ReportsLastAnswer

\* The bound on a poll's answer: one provider timeout, one database budget, and
\* a timeout more for each call cancelled while the poll queued behind it.
THEOREM BoundedWait == Spec => []AnswersInTime
<1>1. IInv => AnswersInTime
  <2> SUFFICES ASSUME IInv, NEW p \in Polls
               PROVE  took[p] <= Timeouts(1 + passed[p]) + DbBudget
    BY DEF AnswersInTime
  <2>1. TypeOK /\ TimeOf(p) /\ (lock # None => lock \in Polls /\ pc[lock] = "calling")
    BY DEF IInv, TimeIsKept, TypeOK, LockAndQueue
  <2>2. Timeouts(1 + passed[p]) = Timeouts(passed[p]) + LlmTimeout
    <3>1. 1 + passed[p] = passed[p] + 1
      BY <2>1, Amounts
    <3> QED
      BY <2>1, <3>1, Amounts
  <2>3. lock # None => waited[lock] <= LlmTimeout /\ waited[lock] \in Nat
    BY <2>1, Amounts DEF IInv, TimeIsKept, TimeOf
  <2>4. pc[p] \in {"idle", "queued", "calling", "checking_db"}
    BY <2>1 DEF TypeOK
  <2> QED
    BY <2>1, <2>2, <2>3, <2>4, Amounts DEF TimeOf
<1> QED
  BY <1>1, Inductive, PTL

-----------------------------------------------------------------------------
(***************************************************************************)
(* The mock model and its loops (AgentTurn).                               *)
(***************************************************************************)
Requests == [id : 0..MaxMessages, name : Tools]
Message ==
  [role : {"human"}]
    \cup [role : {"ai"}, calls : {<<c>> : c \in Requests}]
    \cup [role : {"ai"}, calls : {<<>>}, lines : Seq(Tools)]
    \cup [role : {"tool"}, id : 0..MaxMessages, name : Tools \cup {NoName}]

TurnTypeOK ==
  /\ mockTools \in [Agents \cup {"shared"} -> Seq(Tools)]
  /\ bound \in [Agents -> {"no", "yes", "refused"}]
  /\ conv \in [Agents -> Seq(Message)]
  /\ stage \in [Agents -> {"idle", "call", "run", "answered"}]
  /\ turns \in [Agents -> 0..MaxTurns]
  /\ prompt \in {"unasked", "text", "empty"}

\* What a turn holds, for an agent of these tools: the first of them, each asked
\* for once, by calls of different ids; the results of all of them or of all but
\* the last, in the same order, each to be known by its call; and what the loop
\* is about to do fits.
InTurn(tools, messages, at) ==
  LET turn == CurrentTurn(messages)
      results == CollectToolMessages(turn)
      k == Len(ToolsOf(turn))
  IN  /\ k <= Len(tools) /\ ToolsOf(turn) = SubSeq(tools, 1, k)
      /\ \A x \in CallsOf(turn) : x \in Requests /\ x.id < Len(messages)
      /\ \A x, y \in CallsOf(turn) : x.id = y.id => x = y
      /\ Len(results) <= k
      /\ \A i \in DOMAIN results : \E x \in CallsOf(turn) :
           x.id = results[i].id /\ x.name = tools[i] /\ results[i].name \in {NoName, x.name}
      /\ at = "call" => Len(results) = k
      /\ at = "run" => /\ Len(messages) > 0 /\ k = Len(results) + 1
                       /\ \E x \in CallsOf(turn) : Last(messages).calls = <<x>> /\ x.name = tools[k]
      /\ at = "answered" => k = Len(tools) /\ Last(messages).lines = tools

\* Only an agent that is bound works, and with its own tools; the shared service
\* has none.
Bindings ==
  /\ mockTools["shared"] = <<>>
  /\ \A a \in Agents : /\ bound[a] = "yes" => mockTools[a] = Offered[a]
                       /\ stage[a] # "idle" => bound[a] = "yes"

TurnInv == TurnTypeOK /\ Bindings /\ \A a \in Agents : InTurn(Offered[a], conv[a], stage[a])

\* A set of indices that is not empty has a first one.
LEMMA FirstExists ==
  ASSUME NEW n \in Nat, NEW S \in SUBSET (1..n), S # {}
  PROVE  \E m \in S : \A j \in S : m <= j
<1> DEFINE Before(i) == {j \in S : j < i}
           Befores == {Before(i) : i \in S}
<1>1. Befores \subseteq FiniteSubsetsOf(1..n)
  <2>1. \A i \in S : Before(i) \in SUBSET (1..n)
    OBVIOUS
  <2>2. IsFiniteSet(1..n)
    BY FS_Interval
  <2>3. \A i \in S : IsFiniteSet(Before(i))
    BY <2>1, <2>2, FS_Subset
  <2> QED
    BY <2>1, <2>3 DEF FiniteSubsetsOf
<1>2. PICK B \in Befores : \A A \in Befores : <<A, B>> \notin StrictSubsetOrdering(1..n)
  <2>1. Befores # {}
    OBVIOUS
  <2> HIDE DEF Befores
  <2> QED
    BY <1>1, <2>1, FS_StrictSubsetOrderingWellFounded, WFMin
<1>3. PICK m \in S : B = Before(m)
  BY <1>2
<1>4. ASSUME NEW j \in S, j < m PROVE FALSE
  <2>1. j \in Before(m) /\ j \notin Before(j)
    BY <1>4
  <2>2. ASSUME NEW k \in Before(j) PROVE k \in Before(m)
    <3>1. k \in Nat /\ j \in Nat /\ m \in Nat /\ k < j /\ j < m
      BY <1>4
    <3> QED
      BY <3>1
  <2>3. <<Before(j), Before(m)>> \in StrictSubsetOrdering(1..n)
    BY <2>1, <2>2 DEF StrictSubsetOrdering
  <2> QED
    BY <1>2, <1>3, <2>3
<1> QED
  BY <1>3, <1>4

\* Counting up to n, as a set of numbers.
LEMMA CountUp ==
  ASSUME NEW n \in Nat, NEW S, 0 \in S, \A k \in 0..n : k \in S /\ k < n => k + 1 \in S
  PROVE  n \in S
<1> SUFFICES ASSUME n \notin S PROVE FALSE
  OBVIOUS
<1> DEFINE Out == {k \in 1..n : k \notin S}
<1>1. Out \in SUBSET (1..n) /\ Out # {}
  OBVIOUS
<1>2. PICK m \in Out : \A j \in Out : m <= j
  <2> HIDE DEF Out
  <2> QED
    BY <1>1, FirstExists
<1>3. m - 1 \in 0..n /\ m - 1 < n /\ m - 1 \notin Out
  BY <1>2
<1>4. m - 1 \in S
  BY <1>2, <1>3
<1> QED
  BY <1>2, <1>3, <1>4

\* And a last one.
LEMMA LastExists ==
  ASSUME NEW n \in Nat, NEW S \in SUBSET (1..n), S # {}
  PROVE  \E m \in S : \A j \in S : j <= m
<1> DEFINE Back == {n + 1 - i : i \in S}
<1>1. Back \in SUBSET (1..n) /\ Back # {}
  <2>1. \A i \in S : n + 1 - i \in 1..n
    OBVIOUS
  <2> QED
    BY <2>1
<1>2. PICK b \in Back : \A j \in Back : b <= j
  <2> HIDE DEF Back
  <2> QED
    BY <1>1, FirstExists
<1>3. PICK m \in S : b = n + 1 - m
  BY <1>2
<1>4. ASSUME NEW j \in S PROVE j <= m
  <2>1. b <= n + 1 - j
    BY <1>2
  <2>2. j \in Nat /\ m \in Nat
    OBVIOUS
  <2> QED
    BY <1>3, <2>1, <2>2
<1> QED
  BY <1>4

\* What is kept of a kind, step by step.
Keeps(s, kind, r) ==
  r = [n \in 0..Len(s) |-> IF n = 0 THEN <<>> ELSE IF Kind(s[n]) = kind THEN Append(r[n - 1], s[n]) ELSE r[n - 1]]

\* One message more, one step more.
LEMMA KeepsMore ==
  ASSUME NEW S, NEW s \in Seq(S), NEW m \in S, NEW kind, NEW r, Keeps(s, kind, r)
  PROVE  Keeps(Append(s, m), kind,
               [n \in 0..(Len(s) + 1) |-> IF n <= Len(s) THEN r[n]
                                          ELSE IF Kind(m) = kind THEN Append(r[Len(s)], m) ELSE r[Len(s)]])
<1> DEFINE t == Append(s, m)
           q == [n \in 0..(Len(s) + 1) |-> IF n <= Len(s) THEN r[n]
                                           ELSE IF Kind(m) = kind THEN Append(r[Len(s)], m) ELSE r[Len(s)]]
           step(n, f) == IF n = 0 THEN <<>> ELSE IF Kind(t[n]) = kind THEN Append(f[n - 1], t[n]) ELSE f[n - 1]
<1>1. t \in Seq(S) /\ Len(t) = Len(s) + 1 /\ t[Len(s) + 1] = m /\ \A n \in 1..Len(s) : t[n] = s[n]
  OBVIOUS
<1>2. \A n \in 0..Len(s) : r[n] = IF n = 0 THEN <<>> ELSE IF Kind(s[n]) = kind THEN Append(r[n - 1], s[n]) ELSE r[n - 1]
  BY DEF Keeps
<1>3. Len(s) \in Nat
  OBVIOUS
<1> HIDE DEF t
<1>4. ASSUME NEW n \in 0..(Len(s) + 1) PROVE q[n] = step(n, q)
  <2>1. CASE n = 0
    BY <1>2, <1>3, <2>1
  <2>2. CASE n # 0 /\ n <= Len(s)
    <3>1. q[n - 1] = r[n - 1] /\ q[n] = r[n] /\ t[n] = s[n] /\ n \in 0..Len(s)
      BY <1>1, <1>3, <2>2
    <3> QED
      BY <1>2, <2>2, <3>1
  <2>3. CASE n = Len(s) + 1
    <3>1. q[n - 1] = r[Len(s)] /\ t[n] = m
      BY <1>1, <1>3, <2>3
    <3>2. q[n] = IF Kind(m) = kind THEN Append(r[Len(s)], m) ELSE r[Len(s)]
      BY <1>3, <2>3
    <3> QED
      BY <1>3, <2>3, <3>1, <3>2
  <2> QED
    BY <1>3, <2>1, <2>2, <2>3
<1>5. q = [n \in 0..(Len(s) + 1) |-> q[n]]
  OBVIOUS
<1> HIDE DEF q
<1>6. q = [n \in 0..(Len(s) + 1) |-> step(n, q)]
  BY <1>4, <1>5
<1>7. Keeps(t, kind, q)
  BY <1>1, <1>6 DEF Keeps
<1> QED
  BY <1>7 DEF t, q

\* There is such a function for every sequence, by induction on how much of it is
\* looked at.
LEMMA KeepsExists ==
  ASSUME NEW S, NEW s \in Seq(S), NEW kind
  PROVE  \E r : Keeps(s, kind, r)
<1> DEFINE start(k) == SubSeq(s, 1, k)
           Done == {k \in 0..Len(s) : \E r : Keeps(start(k), kind, r)}
<1>1. Len(s) \in Nat
  OBVIOUS
<1>2. 0 \in Done
  <2>1. start(0) = <<>>
    OBVIOUS
  <2>2. Keeps(<<>>, kind, [n \in 0..0 |-> <<>>])
    BY DEF Keeps
  <2> HIDE DEF start
  <2> QED
    BY <1>1, <2>1, <2>2
<1>3. ASSUME NEW k \in 0..Len(s), k \in Done, k < Len(s) PROVE k + 1 \in Done
  <2>1. PICK r : Keeps(start(k), kind, r)
    BY <1>3
  <2>2. start(k + 1) = Append(start(k), s[k + 1]) /\ start(k) \in Seq(S) /\ s[k + 1] \in S
    BY <1>3
  <2> HIDE DEF start
  <2>3. \E q : Keeps(start(k + 1), kind, q)
    BY <2>1, <2>2, KeepsMore
  <2> QED
    BY <1>1, <1>3, <2>3
<1>4. Len(s) \in Done
  <2> HIDE DEF Done
  <2> QED
    BY <1>1, <1>2, <1>3, CountUp
<1>5. start(Len(s)) = s
  OBVIOUS
<1> HIDE DEF start
<1> QED
  BY <1>4, <1>5

\* And only one.
LEMMA KeepsOne ==
  ASSUME NEW S, NEW s \in Seq(S), NEW kind, NEW r, NEW q, Keeps(s, kind, r), Keeps(s, kind, q)
  PROVE  r[Len(s)] = q[Len(s)]
<1> DEFINE Same == {k \in 0..Len(s) : r[k] = q[k]}
<1>1. Len(s) \in Nat
  OBVIOUS
<1>2. \A f : Keeps(s, kind, f) => \A n \in 0..Len(s) :
        f[n] = IF n = 0 THEN <<>> ELSE IF Kind(s[n]) = kind THEN Append(f[n - 1], s[n]) ELSE f[n - 1]
  BY DEF Keeps
<1>3. 0 \in Same
  BY <1>1, <1>2
<1>4. ASSUME NEW k \in 0..Len(s), r[k] = q[k], k < Len(s) PROVE k + 1 \in 0..Len(s) /\ r[k + 1] = q[k + 1]
  <2>1. k + 1 \in 0..Len(s) /\ k + 1 # 0 /\ (k + 1) - 1 = k
    BY <1>1, <1>4
  <2>2. r[k + 1] = IF Kind(s[k + 1]) = kind THEN Append(r[k], s[k + 1]) ELSE r[k]
    BY <1>2, <2>1
  <2>3. q[k + 1] = IF Kind(s[k + 1]) = kind THEN Append(q[k], s[k + 1]) ELSE q[k]
    BY <1>2, <2>1
  <2> QED
    BY <1>4, <2>1, <2>2, <2>3
<1>5. \A k \in 0..Len(s) : k \in Same /\ k < Len(s) => k + 1 \in Same
  BY <1>4
<1>6. Len(s) \in Same
  <2> HIDE DEF Same
  <2> QED
    BY <1>1, <1>3, <1>5, CountUp
<1> QED
  BY <1>6

\* OfKind is what is kept at the end.
LEMMA OfKindIs ==
  ASSUME NEW S, NEW s \in Seq(S), NEW kind, NEW r, Keeps(s, kind, r)
  PROVE  OfKind(s, kind) = r[Len(s)]
<1> DEFINE f == CHOOSE x : Keeps(s, kind, x)
<1>1. OfKind(s, kind) = f[Len(s)]
  BY DEF OfKind, Keeps
<1>2. Keeps(s, kind, f)
  OBVIOUS
<1> HIDE DEF f
<1> QED
  BY <1>1, <1>2, KeepsOne

\* A message more is kept after the others, or not at all.
LEMMA OfKindMore ==
  ASSUME NEW S, NEW s \in Seq(S), NEW m \in S, NEW kind
  PROVE  OfKind(Append(s, m), kind) = IF Kind(m) = kind THEN Append(OfKind(s, kind), m) ELSE OfKind(s, kind)
<1>1. PICK r : Keeps(s, kind, r)
  BY KeepsExists
<1> DEFINE q == [n \in 0..(Len(s) + 1) |-> IF n <= Len(s) THEN r[n]
                                           ELSE IF Kind(m) = kind THEN Append(r[Len(s)], m) ELSE r[Len(s)]]
<1>2. Keeps(Append(s, m), kind, q)
  BY <1>1, KeepsMore
<1>3. Append(s, m) \in Seq(S) /\ Len(Append(s, m)) = Len(s) + 1 /\ Len(s) \in Nat
  OBVIOUS
<1>4. q[Len(s) + 1] = IF Kind(m) = kind THEN Append(r[Len(s)], m) ELSE r[Len(s)]
  BY <1>3
<1> HIDE DEF q
<1>5. OfKind(s, kind) = r[Len(s)]
  BY <1>1, OfKindIs
<1>6. OfKind(Append(s, m), kind) = q[Len(s) + 1]
  BY <1>2, <1>3, OfKindIs
<1> QED
  BY <1>4, <1>5, <1>6

\* Nothing is kept of nothing.
LEMMA OfKindNone == ASSUME NEW kind PROVE OfKind(<<>>, kind) = <<>>
<1>1. Keeps(<<>>, kind, [n \in 0..0 |-> <<>>])
  BY DEF Keeps
<1>2. <<>> \in Seq({})
  OBVIOUS
<1> QED
  BY <1>1, <1>2, OfKindIs

\* Messages are kept.
LEMMA OfKindType ==
  ASSUME NEW S, NEW s \in Seq(S), NEW kind
  PROVE  OfKind(s, kind) \in Seq(S)
<1>1. PICK r : Keeps(s, kind, r)
  BY KeepsExists
<1> DEFINE Good == {k \in 0..Len(s) : r[k] \in Seq(S)}
<1>2. Len(s) \in Nat
  OBVIOUS
<1>3. \A n \in 0..Len(s) :
        r[n] = IF n = 0 THEN <<>> ELSE IF Kind(s[n]) = kind THEN Append(r[n - 1], s[n]) ELSE r[n - 1]
  BY <1>1 DEF Keeps
<1>4. 0 \in Good
  <2>1. r[0] = <<>>
    BY <1>2, <1>3
  <2>2. r[0] \in Seq(S)
    BY <2>1
  <2>3. 0 \in 0..Len(s)
    BY <1>2
  <2> QED
    BY <2>2, <2>3
<1>5. ASSUME NEW k \in 0..Len(s), r[k] \in Seq(S), k < Len(s) PROVE k + 1 \in 0..Len(s) /\ r[k + 1] \in Seq(S)
  <2>1. k + 1 \in 0..Len(s) /\ k + 1 # 0 /\ (k + 1) - 1 = k /\ s[k + 1] \in S
    BY <1>2, <1>5
  <2>2. r[k + 1] = IF Kind(s[k + 1]) = kind THEN Append(r[k], s[k + 1]) ELSE r[k]
    BY <1>3, <2>1
  <2> QED
    BY <1>5, <2>1, <2>2
<1>6. \A k \in 0..Len(s) : k \in Good /\ k < Len(s) => k + 1 \in Good
  BY <1>5
<1>7. Len(s) \in Good
  <2> HIDE DEF Good
  <2> QED
    BY <1>2, <1>4, <1>6, CountUp
<1> QED
  BY <1>1, <1>7, OfKindIs

\* What appending does to every place of a sequence.
LEMMA AppendIs ==
  ASSUME NEW S, NEW s \in Seq(S), NEW e \in S
  PROVE  /\ Append(s, e) \in Seq(S) /\ Len(s) \in Nat /\ Len(Append(s, e)) = Len(s) + 1
         /\ \A j \in 1..(Len(s) + 1) : Append(s, e)[j] = IF j <= Len(s) THEN s[j] ELSE e
<1>1. /\ Append(s, e) \in Seq(S) /\ Len(Append(s, e)) = Len(s) + 1 /\ Len(s) \in Nat
      /\ \A i \in 1..Len(s) : Append(s, e)[i] = s[i]
      /\ Append(s, e)[Len(s) + 1] = e
  OBVIOUS
<1>0. \A n \in Nat : \A j \in 1..(n + 1) : (j \in 1..n /\ j <= n) \/ (j = n + 1 /\ ~(j <= n))
  OBVIOUS
<1>2. ASSUME NEW j \in 1..(Len(s) + 1) PROVE Append(s, e)[j] = IF j <= Len(s) THEN s[j] ELSE e
  <2>1. (j \in 1..Len(s) /\ j <= Len(s)) \/ (j = Len(s) + 1 /\ ~(j <= Len(s)))
    BY <1>0, <1>1
  <2> QED
    BY <1>1, <2>1
<1> QED
  BY <1>1, <1>2

\* The rest of a sequence goes on with the element appended to it.
LEMMA RestMore ==
  ASSUME NEW S, NEW c \in Seq(S), NEW m \in S, NEW i \in 1..(Len(c) + 1)
  PROVE  SubSeq(Append(c, m), i, Len(c) + 1) = Append(SubSeq(c, i, Len(c)), m)
<1> DEFINE n == Len(c)
           d == Append(c, m)
           rest == SubSeq(c, i, n)
           all == SubSeq(d, i, n + 1)
<1>1. n \in Nat /\ d \in Seq(S) /\ Len(d) = n + 1 /\ d[n + 1] = m /\ \A j \in 1..n : d[j] = c[j]
  OBVIOUS
<1>2. rest \in Seq(S) /\ Len(rest) = n + 1 - i /\ \A j \in 1..(n + 1 - i) : rest[j] = c[i + j - 1]
  OBVIOUS
<1>3. i \in 1..(Len(d) + 1) /\ n + 1 \in 0..Len(d) /\ i <= n + 1
  BY <1>1
<1> HIDE DEF d
<1>4. all \in Seq(S) /\ Len(all) = n + 2 - i /\ \A j \in 1..(n + 2 - i) : all[j] = d[i + j - 1]
  <2>1. all \in Seq(S) /\ Len(all) = (n + 1) - i + 1 /\ \A j \in 1..((n + 1) - i + 1) : all[j] = d[i + j - 1]
    BY <1>1, <1>3, SubSeqProperties
  <2>2. (n + 1) - i + 1 = n + 2 - i
    BY <1>1
  <2> QED
    BY <2>1, <2>2
<1> HIDE DEF rest, all
<1>5. /\ Append(rest, m) \in Seq(S) /\ Len(Append(rest, m)) = n + 2 - i
      /\ \A j \in 1..(n + 2 - i) : Append(rest, m)[j] = IF j <= n + 1 - i THEN rest[j] ELSE m
  <2>1. /\ Append(rest, m) \in Seq(S) /\ Len(Append(rest, m)) = Len(rest) + 1
        /\ \A j \in 1..(Len(rest) + 1) : Append(rest, m)[j] = IF j <= Len(rest) THEN rest[j] ELSE m
    BY <1>2, AppendIs
  <2>2. Len(rest) + 1 = n + 2 - i
    BY <1>1, <1>2
  <2> QED
    BY <1>2, <2>1, <2>2
<1>6. ASSUME NEW j \in 1..(n + 2 - i) PROVE all[j] = Append(rest, m)[j]
  <2>1. CASE j <= n + 1 - i
    <3>1. j \in 1..(n + 1 - i) /\ i + j - 1 \in 1..n
      BY <1>1, <2>1
    <3> QED
      BY <1>1, <1>2, <1>4, <1>5, <2>1, <3>1
  <2>2. CASE ~(j <= n + 1 - i)
    <3>1. i + j - 1 = n + 1
      BY <1>1, <2>2
    <3> QED
      BY <1>1, <1>4, <1>5, <2>2, <3>1
  <2> QED
    BY <2>1, <2>2
<1>7. all = Append(rest, m)
  BY <1>4, <1>5, <1>6, SeqEqual
<1> QED
  BY <1>7 DEF d, rest, all

\* The last question is a place of the conversation.
LEMMA LastAsked ==
  ASSUME NEW S, NEW c \in Seq(S)
  PROVE  LET asked == {i \in DOMAIN c : c[i].role = "human"}
         IN  asked # {} => (CHOOSE i \in asked : \A j \in asked : j <= i) \in 1..Len(c)
<1> DEFINE asked == {i \in DOMAIN c : c[i].role = "human"}
<1>1. asked \in SUBSET (1..Len(c)) /\ Len(c) \in Nat
  OBVIOUS
<1> HIDE DEF asked
<1>2. asked # {} => \E i \in asked : \A j \in asked : j <= i
  BY <1>1, LastExists
<1> QED
  BY <1>1, <1>2 DEF asked

\* A turn is a sequence of messages.
LEMMA TurnType ==
  ASSUME NEW S, NEW c \in Seq(S)
  PROVE  CurrentTurn(c) \in Seq(S)
<1> DEFINE asked == {i \in DOMAIN c : c[i].role = "human"}
           last == CHOOSE i \in asked : \A j \in asked : j <= i
<1>1. CASE asked = {}
  BY <1>1 DEF CurrentTurn
<1>2. CASE asked # {}
  <2>1. last \in 1..Len(c)
    BY <1>2, LastAsked
  <2>2. CurrentTurn(c) = SubSeq(c, last + 1, Len(c))
    BY <1>2 DEF CurrentTurn
  <2> HIDE DEF last
  <2>3. SubSeq(c, last + 1, Len(c)) \in Seq(S)
    BY <2>1
  <2> QED
    BY <2>2, <2>3
<1> QED
  BY <1>1, <1>2

\* A message that is no question goes on with the turn.
LEMMA TurnMore ==
  ASSUME NEW S, NEW c \in Seq(S), NEW m \in S, m.role # "human"
  PROVE  CurrentTurn(Append(c, m)) = Append(CurrentTurn(c), m)
<1> DEFINE d == Append(c, m)
           asked == {i \in DOMAIN c : c[i].role = "human"}
           last == CHOOSE i \in asked : \A j \in asked : j <= i
<1>1. d \in Seq(S) /\ Len(d) = Len(c) + 1 /\ d[Len(c) + 1] = m /\ \A i \in 1..Len(c) : d[i] = c[i]
  OBVIOUS
<1>2. Len(c) \in Nat /\ DOMAIN c = 1..Len(c) /\ DOMAIN d = 1..(Len(c) + 1)
  BY <1>1
<1>3. {i \in DOMAIN d : d[i].role = "human"} = asked
  BY <1>1, <1>2
<1>4. CASE asked = {}
  BY <1>3, <1>4 DEF CurrentTurn
<1>5. CASE asked # {}
  <2>1. last \in 1..Len(c)
    BY <1>5, LastAsked
  <2>2. CurrentTurn(c) = SubSeq(c, last + 1, Len(c)) /\ CurrentTurn(d) = SubSeq(d, last + 1, Len(d))
    BY <1>3, <1>5 DEF CurrentTurn
  <2> HIDE DEF last, asked
  <2>3. last + 1 \in 1..(Len(c) + 1)
    BY <1>2, <2>1
  <2>4. SubSeq(d, last + 1, Len(d)) = Append(SubSeq(c, last + 1, Len(c)), m)
    BY <1>1, <2>3, RestMore
  <2> QED
    BY <2>2, <2>4
<1> QED
  BY <1>4, <1>5

\* A question begins another.
LEMMA TurnNew ==
  ASSUME NEW S, NEW c \in Seq(S), NEW m \in S, m.role = "human"
  PROVE  CurrentTurn(Append(c, m)) = <<>>
<1> DEFINE d == Append(c, m)
           asked == {i \in DOMAIN d : d[i].role = "human"}
           last == CHOOSE i \in asked : \A j \in asked : j <= i
<1>1. Len(c) \in Nat /\ Len(d) = Len(c) + 1 /\ d[Len(c) + 1] = m /\ DOMAIN d = 1..(Len(c) + 1) /\ d \in Seq(S)
  OBVIOUS
<1>2. Len(c) + 1 \in asked /\ asked \in SUBSET (1..(Len(c) + 1))
  BY <1>1
<1>3. last = Len(c) + 1
  <2> HIDE DEF asked
  <2>1. \E i \in asked : \A j \in asked : j <= i
    BY <1>1, <1>2
  <2>2. last \in asked /\ \A j \in asked : j <= last
    BY <2>1
  <2> HIDE DEF last, d
  <2> QED
    BY <1>1, <1>2, <2>2
<1>4. CurrentTurn(d) = SubSeq(d, last + 1, Len(d))
  BY <1>2 DEF CurrentTurn
<1> HIDE DEF last, d
<1>5. SubSeq(d, last + 1, Len(d)) = <<>>
  BY <1>1, <1>3
<1> QED
  BY <1>4, <1>5 DEF d

\* The calls of a turn with a message more.
LEMMA CallsMore ==
  ASSUME NEW S, NEW s \in Seq(S), NEW m \in S
  PROVE  CallsOf(Append(s, m)) = CallsOf(s) \cup IF m.role = "ai" THEN Range(m.calls) ELSE {}
<1>1. Range(Append(s, m)) = Range(s) \cup {m}
  <2> DEFINE t == Append(s, m)
  <2>1. DOMAIN s = 1..Len(s) /\ DOMAIN t = 1..(Len(s) + 1) /\ Len(s) \in Nat
    OBVIOUS
  <2>2. t[Len(s) + 1] = m /\ \A i \in 1..Len(s) : t[i] = s[i]
    OBVIOUS
  <2> HIDE DEF t
  <2>3. \A i \in DOMAIN t : i \in DOMAIN s \/ i = Len(s) + 1
    BY <2>1
  <2>4. Len(s) + 1 \in DOMAIN t /\ \A i \in DOMAIN s : i \in DOMAIN t
    BY <2>1
  <2>5. Range(t) = Range(s) \cup {m}
    BY <2>1, <2>2, <2>3, <2>4 DEF Range
  <2> QED
    BY <2>5 DEF t
<1>2. \A T : {x \in T \cup {m} : x.role = "ai"} = {x \in T : x.role = "ai"} \cup IF m.role = "ai" THEN {m} ELSE {}
  OBVIOUS
<1> QED
  BY <1>1, <1>2 DEF CallsOf

\* The tools of a turn with a message more.
LEMMA ToolsMore ==
  ASSUME NEW S, NEW s \in Seq(S), NEW m \in S
  PROVE  ToolsOf(Append(s, m)) = IF Kind(m) = "call" THEN Append(ToolsOf(s), m.calls[1].name) ELSE ToolsOf(s)
<1> DEFINE asking == OfKind(s, "call")
<1>1. asking \in Seq(S)
  BY OfKindType
<1>2. CASE Kind(m) = "call"
  <2>1. OfKind(Append(s, m), "call") = Append(asking, m)
    BY <1>2, OfKindMore
  <2> HIDE DEF asking
  <2> DEFINE name(x) == x.calls[1].name
             F == {name(x) : x \in S}
             before == [i \in DOMAIN asking |-> name(asking[i])]
             after == [i \in DOMAIN Append(asking, m) |-> name(Append(asking, m)[i])]
  <2>2. ToolsOf(s) = before /\ ToolsOf(Append(s, m)) = after
    BY <2>1 DEF ToolsOf, asking
  <2> HIDE DEF name
  <2>3. Len(asking) \in Nat /\ DOMAIN asking = 1..Len(asking) /\ before \in Seq(F) /\ Len(before) = Len(asking)
    BY <1>1
  <2>4. Append(before, name(m)) = [i \in 1..(Len(asking) + 1) |-> IF i <= Len(asking) THEN name(asking[i]) ELSE name(m)]
    BY <2>3
  <2>5. after = [i \in 1..(Len(asking) + 1) |-> IF i <= Len(asking) THEN name(asking[i]) ELSE name(m)]
    BY <1>1, <2>3
  <2>6. after = Append(before, name(m))
    BY <2>4, <2>5
  <2> HIDE DEF before, after
  <2> QED
    BY <1>2, <2>2, <2>6 DEF name
<1>3. CASE Kind(m) # "call"
  BY <1>3, OfKindMore DEF ToolsOf
<1> QED
  BY <1>2, <1>3

\* The kinds of the four messages, and that they are messages.
LEMMA HumanIs == Human \in Message /\ Human.role = "human"
BY DEF Message, Human
\* A request for a tool is a message with one call.
LEMMA AskForIs ==
  ASSUME NEW tool \in Tools, NEW id \in 0..MaxMessages
  PROVE  LET m == AskFor(tool, id)
             x == [id |-> id, name |-> tool]
         IN  /\ m \in Message /\ m.role = "ai" /\ Kind(m) = "call"
             /\ m.calls = <<x>> /\ m.calls[1] = x /\ Range(m.calls) = {x}
<1> DEFINE x == [id |-> id, name |-> tool]
           m == AskFor(tool, id)
<1>1. m.role = "ai" /\ m.calls = <<x>> /\ m = [role |-> "ai", calls |-> <<x>>]
  BY DEF AskFor
<1>2. x \in Requests
  BY DEF Requests
<1> HIDE DEF x, m
<1>3. m \in Message
  BY <1>1, <1>2 DEF Message
<1>4. <<x>>[1] = x /\ DOMAIN <<x>> = {1} /\ <<x>> # <<>>
  OBVIOUS
<1>5. Range(<<x>>) = {x}
  BY <1>4 DEF Range
<1> QED
  BY <1>1, <1>3, <1>4, <1>5 DEF Kind, m, x
\* The answer in text is a message without calls.
LEMMA FinalIs ==
  ASSUME NEW lines \in Seq(Tools)
  PROVE  LET m == Final(lines)
         IN  m \in Message /\ m.role = "ai" /\ Kind(m) = "ai" /\ m.calls = <<>> /\ Range(m.calls) = {} /\ m.lines = lines
<1>1. Final(lines).calls = <<>> /\ Final(lines).role = "ai" /\ Final(lines).lines = lines
  BY DEF Final
<1>2. Final(lines) \in Message
  BY DEF Final, Message
<1>3. Range(<<>>) = {}
  BY DEF Range
<1> QED
  BY <1>1, <1>2, <1>3 DEF Kind
\* A result is a message, with a tool's name or without.
LEMMA ToolMessageIs ==
  ASSUME NEW id \in 0..MaxMessages, NEW name \in Tools \cup {NoName}
  PROVE  LET m == ToolMessage(id, name)
         IN  m \in Message /\ m.role = "tool" /\ Kind(m) = "tool" /\ m.id = id /\ m.name = name
BY DEF ToolMessage, Message, Kind

\* A result is known by its own name or by the one call of its id.
LEMMA ResultsNamed ==
  ASSUME NEW tools \in Seq(Tools), NEW c \in Seq(Message), NEW at, InTurn(tools, c, at),
         NEW i \in DOMAIN CollectToolMessages(CurrentTurn(c))
  PROVE  ToolNameOf(CollectToolMessages(CurrentTurn(c))[i], CallsOf(CurrentTurn(c))) = tools[i]
<1> DEFINE calls == CallsOf(CurrentTurn(c))
           m == CollectToolMessages(CurrentTurn(c))[i]
<1>1. PICK x \in calls : x.id = m.id /\ x.name = tools[i] /\ m.name \in {NoName, x.name}
  BY DEF InTurn
<1>2. \A y \in calls : y.id = m.id => y = x
  BY <1>1 DEF InTurn
<1> HIDE DEF calls, m
<1>3. (CHOOSE y \in calls : y.id = m.id) = x
  BY <1>1, <1>2
<1>4. ToolNameOf(m, calls) = tools[i]
  BY <1>1, <1>3 DEF ToolNameOf
<1> QED
  BY <1>4 DEF calls, m

\* The next reply asks for the first tool without a result, or names them all.
LEMMA ReplyIs ==
  ASSUME NEW tools \in Seq(Tools), IsInjective(tools), NEW c \in Seq(Message), InTurn(tools, c, "call"), NEW n
  PROVE  LET k == Len(ToolsOf(CurrentTurn(c)))
             reply == MockResponse(tools, CurrentTurn(c), n)
         IN  /\ k \in 0..Len(tools)
             /\ k < Len(tools) => reply = AskFor(tools[k + 1], n)
             /\ k = Len(tools) => reply = Final(tools)
<1> DEFINE turn == CurrentTurn(c)
           k == Len(ToolsOf(turn))
           results == CollectToolMessages(turn)
           name(i) == ToolNameOf(results[i], CallsOf(turn))
<1>1. turn \in Seq(Message)
  BY TurnType
<1>2. results \in Seq(Message)
  BY <1>1, OfKindType DEF CollectToolMessages
<1>3. k \in Nat /\ k <= Len(tools) /\ Len(results) = k
  <2>1. k <= Len(tools) /\ Len(results) = k
    BY DEF InTurn
  <2> HIDE DEF k, results
  <2> QED
    BY <1>2, <2>1
<1>4. DOMAIN results = 1..k
  BY <1>2, <1>3
<1>5. \A i \in 1..k : name(i) = tools[i]
  <2> HIDE DEF k
  <2> QED
    BY <1>4, ResultsNamed
<1>6. Len(tools) \in Nat /\ DOMAIN tools = 1..Len(tools) /\ \A i \in 1..Len(tools) : tools[i] \in Tools /\ tools[i] # NoName
  BY AgentAssumption DEF AgentAssumption
<1>7. AnsweredToolNames(turn) = {tools[i] : i \in 1..k}
  <2>1. Range(results) = {results[i] : i \in 1..k}
    BY <1>4 DEF Range
  <2>2. AnsweredToolNames(turn) = {name(i) : i \in 1..k} \ {NoName}
    <3> HIDE DEF k
    <3> QED
      BY <2>1 DEF AnsweredToolNames
  <2> HIDE DEF name, k, turn
  <2>3. {name(i) : i \in 1..k} = {tools[i] : i \in 1..k}
    BY <1>5
  <2>4. NoName \notin {tools[i] : i \in 1..k}
    BY <1>3, <1>6
  <2> QED
    BY <2>2, <2>3, <2>4
<1> HIDE DEF k, name, results
<1>8. Uncalled(tools, turn) = (k + 1)..Len(tools)
  <2>1. \A i \in 1..Len(tools) : tools[i] \in {tools[j] : j \in 1..k} <=> i <= k
    BY <1>3, <1>6 DEF IsInjective
  <2>2. Uncalled(tools, turn) = {i \in 1..Len(tools) : ~(i <= k)}
    BY <1>6, <1>7, <2>1 DEF Uncalled
  <2> HIDE DEF turn
  <2> QED
    BY <1>3, <1>6, <2>2
<1>9. ASSUME k < Len(tools) PROVE MockResponse(tools, turn, n) = AskFor(tools[k + 1], n)
  <2>1. (k + 1)..Len(tools) # {} /\ Min((k + 1)..Len(tools)) = k + 1
    BY <1>3, <1>6, <1>9 DEF Min
  <2> QED
    BY <1>8, <2>1 DEF MockResponse
<1>10. ASSUME k = Len(tools) PROVE MockResponse(tools, turn, n) = Final(tools)
  <2>1. (k + 1)..Len(tools) = {}
    BY <1>3, <1>10
  <2>2. MockResponse(tools, turn, n) = Final([i \in DOMAIN results |-> name(i)])
    BY <1>8, <2>1 DEF MockResponse, results, name
  <2>3. [i \in DOMAIN results |-> name(i)] = tools
    <3>1. tools = [i \in 1..Len(tools) |-> tools[i]]
      BY <1>6
    <3> QED
      BY <1>4, <1>5, <1>10, <3>1
  <2> QED
    BY <2>2, <2>3
<1>11. k \in 0..Len(tools)
  BY <1>3, <1>6
<1> QED
  BY <1>9, <1>10, <1>11 DEF k

\* The facts of InTurn, one by one.
LEMMA InTurnIs ==
  ASSUME NEW tools, NEW c, NEW at, InTurn(tools, c, at)
  PROVE  LET turn == CurrentTurn(c)
             results == CollectToolMessages(turn)
             k == Len(ToolsOf(turn))
         IN  /\ k <= Len(tools) /\ ToolsOf(turn) = SubSeq(tools, 1, k) /\ Len(results) <= k
             /\ \A x \in CallsOf(turn) : x \in Requests /\ x.id < Len(c)
             /\ \A x, y \in CallsOf(turn) : x.id = y.id => x = y
             /\ \A i \in DOMAIN results : \E x \in CallsOf(turn) :
                  x.id = results[i].id /\ x.name = tools[i] /\ results[i].name \in {NoName, x.name}
BY DEF InTurn

\* A call keeps the turn, if it is the next tool's.
LEMMA AskKeeps ==
  ASSUME NEW tools \in Seq(Tools), NEW c \in Seq(Message), InTurn(tools, c, "call"), Len(c) < MaxMessages,
         Len(ToolsOf(CurrentTurn(c))) \in 0..Len(tools), Len(ToolsOf(CurrentTurn(c))) < Len(tools)
  PROVE  LET m == AskFor(tools[Len(ToolsOf(CurrentTurn(c))) + 1], Len(c))
         IN  m \in Message /\ m.calls # <<>> /\ InTurn(tools, Append(c, m), "run")
<1> DEFINE turn == CurrentTurn(c)
           results == CollectToolMessages(turn)
           k == Len(ToolsOf(turn))
           tool == tools[k + 1]
           x == [id |-> Len(c), name |-> tool]
           m == AskFor(tool, Len(c))
           d == Append(c, m)
<1>1. k \in Nat /\ k + 1 \in 1..Len(tools) /\ Len(c) \in 0..MaxMessages /\ Len(c) \in Nat /\ Len(tools) \in Nat
  <2>1. MaxMessages \in Nat
    BY AgentAssumption DEF AgentAssumption
  <2> HIDE DEF k
  <2> QED
    BY <2>1 DEF k
<1>2. tool \in Tools
  <2> HIDE DEF k
  <2> QED
    BY <1>1
<1>3. /\ ToolsOf(turn) = SubSeq(tools, 1, k) /\ Len(results) = k
      /\ \A y \in CallsOf(turn) : y \in Requests /\ y.id < Len(c)
      /\ \A y, z \in CallsOf(turn) : y.id = z.id => y = z
      /\ \A i \in DOMAIN results : \E y \in CallsOf(turn) :
           y.id = results[i].id /\ y.name = tools[i] /\ results[i].name \in {NoName, y.name}
  BY DEF InTurn
<1>4. m \in Message /\ m.role = "ai" /\ Kind(m) = "call" /\ m.calls = <<x>> /\ m.calls[1] = x /\ Range(m.calls) = {x}
  <2> HIDE DEF k, tool
  <2> QED
    BY <1>1, <1>2, AskForIs
<1>5. turn \in Seq(Message)
  BY TurnType
<1> HIDE DEF m, x
<1>6. CurrentTurn(d) = Append(turn, m)
  BY <1>4, TurnMore
<1> HIDE DEF turn
<1>7. CallsOf(CurrentTurn(d)) = CallsOf(turn) \cup {x}
  <2>1. CallsOf(Append(turn, m)) = CallsOf(turn) \cup Range(m.calls)
    BY <1>4, <1>5, CallsMore
  <2> QED
    BY <1>4, <1>6, <2>1
<1>8. ToolsOf(CurrentTurn(d)) = SubSeq(tools, 1, k + 1)
  <2>1. m.calls[1].name = tool
    BY <1>4 DEF x
  <2>2. ToolsOf(CurrentTurn(d)) = Append(SubSeq(tools, 1, k), tool)
    <3>1. ToolsOf(Append(turn, m)) = Append(ToolsOf(turn), m.calls[1].name)
      BY <1>4, <1>5, ToolsMore
    <3> HIDE DEF d, k, tool
    <3> QED
      BY <1>3, <1>6, <2>1, <3>1
  <2> HIDE DEF k
  <2> QED
    BY <1>1, <2>2
<1>9. CollectToolMessages(CurrentTurn(d)) = results
  BY <1>4, <1>5, <1>6, OfKindMore DEF CollectToolMessages
<1>10. Len(d) = Len(c) + 1 /\ Last(d) = m
  BY <1>4, AppendIs DEF Last
<1> HIDE DEF results, k
<1>11. Len(ToolsOf(CurrentTurn(d))) = k + 1
  BY <1>1, <1>8
<1>12. x.id = Len(c) /\ x.name = tools[k + 1] /\ x \in Requests
  BY <1>1, <1>2 DEF x, tool, Requests
<1> HIDE DEF d, tool
<1>13. \A y \in CallsOf(CurrentTurn(d)) : y \in Requests /\ y.id < Len(d)
  <2>1. ASSUME NEW y \in CallsOf(turn) PROVE y \in Requests /\ y.id < Len(d)
    <3>1. y \in Requests /\ y.id < Len(c) /\ y.id \in Nat
      BY <1>3 DEF Requests
    <3> QED
      BY <1>1, <1>10, <3>1
  <2> QED
    BY <1>1, <1>7, <1>10, <1>12, <2>1
<1>14. \A y, z \in CallsOf(CurrentTurn(d)) : y.id = z.id => y = z
  <2>1. \A y \in CallsOf(turn) : y.id # x.id
    BY <1>1, <1>3, <1>12 DEF Requests
  <2> QED
    BY <1>3, <1>7, <2>1
<1>15. InTurn(tools, d, "run")
  BY <1>1, <1>3, <1>4, <1>7, <1>8, <1>9, <1>10, <1>11, <1>12, <1>13, <1>14 DEF InTurn
<1> QED
  BY <1>4, <1>15 DEF d, m, tool, k, turn

\* An answer keeps the turn, with the tool's name or without.
LEMMA AnswerKeeps ==
  ASSUME NEW tools \in Seq(Tools), NEW c \in Seq(Message), InTurn(tools, c, "run"),
         NEW name \in {NoName, Last(c).calls[1].name}
  PROVE  LET m == ToolMessage(Last(c).calls[1].id, name)
         IN  m \in Message /\ InTurn(tools, Append(c, m), "call")
<1> DEFINE turn == CurrentTurn(c)
           results == CollectToolMessages(turn)
           k == Len(ToolsOf(turn))
           x == Last(c).calls[1]
           m == ToolMessage(x.id, name)
           d == Append(c, m)
<1>1. x \in CallsOf(turn) /\ x.name = tools[k] /\ k = Len(results) + 1
  <2>1. PICK y \in CallsOf(turn) : Last(c).calls = <<y>> /\ y.name = tools[k]
    BY DEF InTurn
  <2>2. x = y
    BY <2>1
  <2> QED
    BY <2>1, <2>2 DEF InTurn
<1>2. /\ k <= Len(tools) /\ ToolsOf(turn) = SubSeq(tools, 1, k)
      /\ \A y \in CallsOf(turn) : y \in Requests /\ y.id < Len(c)
      /\ \A y, z \in CallsOf(turn) : y.id = z.id => y = z
      /\ \A i \in DOMAIN results : \E y \in CallsOf(turn) :
           y.id = results[i].id /\ y.name = tools[i] /\ results[i].name \in {NoName, y.name}
  BY DEF InTurn
<1>3. x \in Requests /\ x.id \in 0..MaxMessages /\ name \in Tools \cup {NoName}
  BY <1>1, <1>2 DEF Requests
<1> HIDE DEF x
<1>4. m \in Message /\ m.role = "tool" /\ Kind(m) = "tool" /\ m.id = x.id /\ m.name = name
  BY <1>3, ToolMessageIs
<1>5. turn \in Seq(Message)
  BY TurnType
<1> HIDE DEF m
<1>6. CurrentTurn(d) = Append(turn, m)
  BY <1>4, TurnMore
<1>7. results \in Seq(Message)
  BY <1>5, OfKindType DEF CollectToolMessages
<1> HIDE DEF turn
<1>8. CallsOf(CurrentTurn(d)) = CallsOf(turn)
  <2>1. m.role # "ai"
    BY <1>4
  <2>2. CallsOf(Append(turn, m)) = CallsOf(turn) \cup {}
    BY <1>4, <1>5, <2>1, CallsMore
  <2> QED
    BY <1>6, <2>2
<1>9. ToolsOf(CurrentTurn(d)) = ToolsOf(turn)
  BY <1>4, <1>5, <1>6, ToolsMore
<1>10. CollectToolMessages(CurrentTurn(d)) = Append(results, m)
  BY <1>4, <1>5, <1>6, OfKindMore DEF CollectToolMessages
<1>11. Len(d) = Len(c) + 1 /\ Len(c) \in Nat
  BY <1>4, AppendIs
<1> HIDE DEF d, results, k
<1>12. /\ Len(results) \in Nat /\ Len(Append(results, m)) = k /\ DOMAIN Append(results, m) = 1..k
       /\ \A j \in 1..k : Append(results, m)[j] = IF j <= Len(results) THEN results[j] ELSE m
       /\ DOMAIN results = 1..Len(results)
  <2>1. Append(results, m) \in Seq(Message) /\ Len(Append(results, m)) = k
    BY <1>1, <1>4, <1>7, AppendIs
  <2>2. DOMAIN Append(results, m) = 1..k
    BY <2>1
  <2> QED
    BY <1>1, <1>4, <1>7, <2>1, <2>2, AppendIs
<1>13. \A y \in CallsOf(turn) : y \in Requests /\ y.id < Len(d)
  <2>1. ASSUME NEW y \in CallsOf(turn) PROVE y \in Requests /\ y.id < Len(d)
    <3>1. y \in Requests /\ y.id < Len(c) /\ y.id \in Nat
      BY <1>2 DEF Requests
    <3> QED
      BY <1>11, <3>1
  <2> QED
    BY <2>1
<1> DEFINE all == Append(results, m)
<1>14. ASSUME NEW i \in DOMAIN all
       PROVE  \E y \in CallsOf(turn) : y.id = all[i].id /\ y.name = tools[i] /\ all[i].name \in {NoName, y.name}
  <2>1. CASE i <= Len(results)
    <3>1. i \in DOMAIN results /\ all[i] = results[i]
      BY <1>1, <1>12, <2>1
    <3> QED
      BY <1>2, <3>1
  <2>2. CASE ~(i <= Len(results))
    <3>1. i = k /\ all[i] = m
      BY <1>1, <1>12, <2>2
    <3>2. x.id = all[i].id /\ x.name = tools[i] /\ all[i].name \in {NoName, x.name}
      BY <1>1, <1>4, <3>1 DEF x
    <3> QED
      BY <1>1, <3>2
  <2> QED
    BY <2>1, <2>2
<1> HIDE DEF all
<1>15. Len(all) = k /\ Len(all) <= k
  <2>1. k \in Nat
    BY <1>1, <1>12
  <2>2. Len(all) = k
    BY <1>12 DEF all
  <2> QED
    BY <2>1, <2>2
<1>16. CollectToolMessages(CurrentTurn(d)) = all
  BY <1>10 DEF all
<1>17. ToolsOf(CurrentTurn(d)) = SubSeq(tools, 1, k) /\ Len(ToolsOf(CurrentTurn(d))) = k
  BY <1>2, <1>9 DEF k
<1>18. InTurn(tools, d, "call")
  BY <1>2, <1>8, <1>13, <1>14, <1>15, <1>16, <1>17 DEF InTurn
<1> QED
  BY <1>4, <1>18 DEF d, m, x

\* The answer in text ends the turn.
LEMMA FinalKeeps ==
  ASSUME NEW tools \in Seq(Tools), NEW c \in Seq(Message), InTurn(tools, c, "call"),
         Len(ToolsOf(CurrentTurn(c))) = Len(tools)
  PROVE  LET m == Final(tools)
         IN  m \in Message /\ m.calls = <<>> /\ InTurn(tools, Append(c, m), "answered")
<1> DEFINE turn == CurrentTurn(c)
           results == CollectToolMessages(turn)
           k == Len(ToolsOf(turn))
           m == Final(tools)
           d == Append(c, m)
<1>1. /\ k <= Len(tools) /\ ToolsOf(turn) = SubSeq(tools, 1, k) /\ Len(results) <= k
      /\ \A y \in CallsOf(turn) : y \in Requests /\ y.id < Len(c)
      /\ \A y, z \in CallsOf(turn) : y.id = z.id => y = z
      /\ \A i \in DOMAIN results : \E y \in CallsOf(turn) :
           y.id = results[i].id /\ y.name = tools[i] /\ results[i].name \in {NoName, y.name}
  BY DEF InTurn
<1>2. m \in Message /\ m.role = "ai" /\ Kind(m) = "ai" /\ m.calls = <<>> /\ Range(m.calls) = {} /\ m.lines = tools
  BY FinalIs
<1>3. turn \in Seq(Message)
  BY TurnType
<1> HIDE DEF m
<1>4. CurrentTurn(d) = Append(turn, m)
  BY <1>2, TurnMore
<1> HIDE DEF turn
<1>5. CallsOf(CurrentTurn(d)) = CallsOf(turn)
  <2>1. CallsOf(CurrentTurn(d)) = CallsOf(turn) \cup {}
    BY <1>2, <1>3, <1>4, CallsMore
  <2> QED
    BY <2>1
<1>6. ToolsOf(CurrentTurn(d)) = ToolsOf(turn)
  BY <1>2, <1>3, <1>4, ToolsMore
<1>7. CollectToolMessages(CurrentTurn(d)) = results
  BY <1>2, <1>3, <1>4, OfKindMore DEF CollectToolMessages
<1>8. Len(d) = Len(c) + 1 /\ Len(c) \in Nat /\ Last(d) = m
  BY <1>2, AppendIs DEF Last
<1> HIDE DEF d, results
<1>9. \A y \in CallsOf(turn) : y \in Requests /\ y.id < Len(d)
  <2>1. ASSUME NEW y \in CallsOf(turn) PROVE y \in Requests /\ y.id < Len(d)
    <3>1. y \in Requests /\ y.id < Len(c) /\ y.id \in Nat
      BY <1>1 DEF Requests
    <3> QED
      BY <1>8, <3>1
  <2> QED
    BY <2>1
<1>10. k = Len(tools)
  BY DEF turn
<1>11. InTurn(tools, d, "answered")
  BY <1>1, <1>2, <1>5, <1>6, <1>7, <1>8, <1>9, <1>10 DEF InTurn
<1> QED
  BY <1>2, <1>11 DEF d, m

\* A turn that has nothing in it.
LEMMA EmptyTurn ==
  ASSUME NEW tools \in Seq(Tools), NEW c, CurrentTurn(c) = <<>>, NEW at \in {"idle", "call"}
  PROVE  InTurn(tools, c, at)
<1>1. ToolsOf(<<>>) = <<>> /\ CollectToolMessages(<<>>) = <<>>
  BY OfKindNone DEF ToolsOf, CollectToolMessages
<1>2. CallsOf(<<>>) = {}
  BY DEF CallsOf, Range
<1>3. Len(<<>>) = 0 /\ DOMAIN <<>> = {} /\ SubSeq(tools, 1, 0) = <<>> /\ Len(tools) \in Nat
  OBVIOUS
<1> QED
  <2>1. 0 <= Len(tools) /\ 0 <= 0
    BY <1>3
  <2> QED
    BY <1>1, <1>2, <1>3, <2>1 DEF InTurn

-----------------------------------------------------------------------------
\* The invariant at the start, and what each action keeps of it.
LEMMA TurnInitHolds == TurnInit => TurnInv
<1> SUFFICES ASSUME TurnInit PROVE TurnInv
  OBVIOUS
<1>1. TurnTypeOK
  BY AgentAssumption DEF AgentAssumption, TurnInit, TurnTypeOK
<1>2. Bindings
  BY DEF TurnInit, Bindings
<1>3. ASSUME NEW a \in Agents PROVE InTurn(Offered[a], conv[a], stage[a])
  <2>1. conv[a] = <<>> /\ stage[a] = "idle" /\ Offered[a] \in Seq(Tools)
    BY AgentAssumption DEF AgentAssumption, TurnInit
  <2>2. CurrentTurn(<<>>) = <<>>
    BY DEF CurrentTurn
  <2> QED
    BY <2>1, <2>2, EmptyTurn
<1> QED
  BY <1>1, <1>2, <1>3 DEF TurnInv

\* One agent's step that appends a message keeps the others' turns.
LEMMA OneAgentMoves ==
  ASSUME TurnInv, NEW a \in Agents, NEW m \in Message, NEW s \in {"idle", "call", "run", "answered"},
         conv' = [conv EXCEPT ![a] = Append(@, m)], stage' = [stage EXCEPT ![a] = s],
         bound[a] = "yes", UNCHANGED <<mockTools, bound, prompt>>, turns' \in [Agents -> 0..MaxTurns],
         InTurn(Offered[a], Append(conv[a], m), s)
  PROVE  TurnInv'
<1>1. conv[a] \in Seq(Message)
  BY DEF TurnInv, TurnTypeOK
<1>2. Append(conv[a], m) \in Seq(Message)
  BY <1>1
<1>3. TurnTypeOK'
  <2> HIDE DEF Message
  <2> QED
    BY <1>2 DEF TurnInv, TurnTypeOK
<1>4. Bindings'
  BY DEF TurnInv, TurnTypeOK, Bindings
<1>5. ASSUME NEW b \in Agents PROVE InTurn(Offered[b], conv'[b], stage'[b])
  <2>1. CASE b = a
    <3>1. conv'[b] = Append(conv[a], m) /\ stage'[b] = s
      BY <2>1 DEF TurnInv, TurnTypeOK
    <3> QED
      BY <2>1, <3>1
  <2>2. CASE b # a
    <3>1. conv'[b] = conv[b] /\ stage'[b] = stage[b]
      BY <2>2 DEF TurnInv, TurnTypeOK
    <3> QED
      BY <3>1 DEF TurnInv
  <2> QED
    BY <2>1, <2>2
<1>6. \A b \in Agents : InTurn(Offered[b], conv[b], stage[b])'
  BY <1>5 DEF InTurn
<1> QED
  BY <1>3, <1>4, <1>6 DEF TurnInv

\* Binding sets the agent's own tools, and no turn is under way yet.
LEMMA BindToolsStep ==
  ASSUME TurnInv, NEW a \in Agents, BindTools(a)
  PROVE  TurnInv'
<1>1. bound[a] = "no" /\ stage[a] = "idle" /\ a # "shared" /\ Offered[a] \in Seq(Tools)
  BY AgentAssumption DEF AgentAssumption, TurnInv, TurnTypeOK, Bindings, BindTools
<1>2. \/ bound' = [bound EXCEPT ![a] = "yes"] /\ mockTools' = [mockTools EXCEPT ![a] = Offered[a]]
      \/ bound' = [bound EXCEPT ![a] = "refused"] /\ mockTools' = mockTools
  BY DEF BindTools
<1>3. UNCHANGED <<conv, stage, turns, prompt>>
  BY DEF BindTools
<1>4. TurnTypeOK'
  <2>1. mockTools' \in [Agents \cup {"shared"} -> Seq(Tools)]
    BY <1>1, <1>2 DEF TurnInv, TurnTypeOK
  <2>2. bound' \in [Agents -> {"no", "yes", "refused"}]
    BY <1>2 DEF TurnInv, TurnTypeOK
  <2> QED
    BY <1>3, <2>1, <2>2, Zenon DEF TurnInv, TurnTypeOK
<1>5. Bindings'
  BY <1>1, <1>2, <1>3 DEF TurnInv, TurnTypeOK, Bindings
<1>6. \A b \in Agents : InTurn(Offered[b], conv[b], stage[b])'
  BY <1>3 DEF TurnInv, InTurn
<1> QED
  BY <1>4, <1>5, <1>6 DEF TurnInv

\* A question begins an empty turn.
LEMMA QuestionStep ==
  ASSUME TurnInv, NEW a \in Agents, Question(a)
  PROVE  TurnInv'
<1>1. conv[a] \in Seq(Message) /\ Offered[a] \in Seq(Tools)
  BY AgentAssumption DEF AgentAssumption, TurnInv, TurnTypeOK
<1>2. InTurn(Offered[a], Append(conv[a], Human), "call")
  <2>1. CurrentTurn(Append(conv[a], Human)) = <<>>
    BY <1>1, HumanIs, TurnNew
  <2> QED
    BY <1>1, <2>1, EmptyTurn
<1>3. turns' \in [Agents -> 0..MaxTurns]
  BY AgentAssumption DEF AgentAssumption, TurnInv, TurnTypeOK, Question
<1> QED
  BY <1>2, <1>3, HumanIs, OneAgentMoves DEF Question

\* A reply asks for the next tool or ends the turn.
LEMMA CallStep ==
  ASSUME TurnInv, NEW a \in Agents, Call(a)
  PROVE  TurnInv'
<1> DEFINE turn == CurrentTurn(conv[a])
           k == Len(ToolsOf(turn))
           reply == MockResponse(mockTools[a], turn, Len(conv[a]))
           next == IF reply.calls = <<>> THEN "answered" ELSE "run"
<1>1. /\ stage[a] = "call" /\ Len(conv[a]) < MaxMessages /\ UNCHANGED <<mockTools, bound, turns, prompt>>
      /\ conv' = [conv EXCEPT ![a] = Append(@, reply)] /\ stage' = [stage EXCEPT ![a] = next]
  BY DEF Call
<1>2. /\ conv[a] \in Seq(Message) /\ Offered[a] \in Seq(Tools) /\ IsInjective(Offered[a])
      /\ mockTools[a] = Offered[a] /\ bound[a] = "yes" /\ turns \in [Agents -> 0..MaxTurns]
  BY <1>1, AgentAssumption DEF AgentAssumption, TurnInv, TurnTypeOK, Bindings
<1>3. InTurn(Offered[a], conv[a], "call")
  BY <1>1 DEF TurnInv
<1>4. /\ k \in 0..Len(Offered[a])
      /\ k < Len(Offered[a]) => reply = AskFor(Offered[a][k + 1], Len(conv[a]))
      /\ k = Len(Offered[a]) => reply = Final(Offered[a])
  <2>1. LET other == MockResponse(Offered[a], turn, Len(conv[a]))
        IN  /\ k \in 0..Len(Offered[a])
            /\ k < Len(Offered[a]) => other = AskFor(Offered[a][k + 1], Len(conv[a]))
            /\ k = Len(Offered[a]) => other = Final(Offered[a])
    BY <1>2, <1>3, ReplyIs
  <2>2. reply = MockResponse(Offered[a], turn, Len(conv[a]))
    BY <1>2
  <2> HIDE DEF k, reply
  <2> QED
    BY <2>1, <2>2
<1>5. reply \in Message /\ InTurn(Offered[a], Append(conv[a], reply), next)
  <2>1. CASE k < Len(Offered[a])
    <3>1. LET m == AskFor(Offered[a][k + 1], Len(conv[a]))
          IN  m \in Message /\ m.calls # <<>> /\ InTurn(Offered[a], Append(conv[a], m), "run")
      BY <1>1, <1>2, <1>3, <1>4, <2>1, AskKeeps
    <3> HIDE DEF k, reply
    <3> QED
      BY <1>4, <2>1, <3>1
  <2>2. CASE k = Len(Offered[a])
    <3>1. LET m == Final(Offered[a])
          IN  m \in Message /\ m.calls = <<>> /\ InTurn(Offered[a], Append(conv[a], m), "answered")
      BY <1>2, <1>3, <2>2, FinalKeeps
    <3> HIDE DEF k, reply
    <3> QED
      BY <1>4, <2>2, <3>1
  <2>3. k < Len(Offered[a]) \/ k = Len(Offered[a])
    <3> HIDE DEF k
    <3>1. Len(Offered[a]) \in Nat
      BY <1>2
    <3> QED
      BY <1>4, <3>1
  <2> QED
    BY <2>1, <2>2, <2>3
<1>6. next \in {"idle", "call", "run", "answered"} /\ turns' \in [Agents -> 0..MaxTurns]
  BY <1>1, <1>2
<1> HIDE DEF reply, next
<1> QED
  BY <1>1, <1>2, <1>5, <1>6, OneAgentMoves

\* The loop hands back a result, or gives the turn up as it is.
LEMMA RunToolStep ==
  ASSUME TurnInv, NEW a \in Agents, RunTool(a)
  PROVE  TurnInv'
<1> DEFINE call == Last(conv[a]).calls[1]
           name == IF a \in Names THEN call.name ELSE NoName
           m == ToolMessage(call.id, name)
<1>1. stage[a] = "run" /\ UNCHANGED <<mockTools, bound, turns, prompt>>
  BY DEF RunTool
<1>2. /\ conv[a] \in Seq(Message) /\ Offered[a] \in Seq(Tools) /\ bound[a] = "yes"
      /\ turns \in [Agents -> 0..MaxTurns]
  BY <1>1, AgentAssumption DEF AgentAssumption, TurnInv, TurnTypeOK, Bindings
<1>3. InTurn(Offered[a], conv[a], "run")
  BY <1>1 DEF TurnInv
<1>4. \/ conv' = [conv EXCEPT ![a] = Append(@, m)] /\ stage' = [stage EXCEPT ![a] = "call"]
      \/ conv' = conv /\ stage' = [stage EXCEPT ![a] = "idle"]
  BY DEF RunTool
<1>5. CASE conv' = [conv EXCEPT ![a] = Append(@, m)] /\ stage' = [stage EXCEPT ![a] = "call"]
  <2>1. m \in Message /\ InTurn(Offered[a], Append(conv[a], m), "call")
    <3>1. name \in {NoName, Last(conv[a]).calls[1].name}
      OBVIOUS
    <3> HIDE DEF name
    <3> QED
      BY <1>2, <1>3, <3>1, AnswerKeeps
  <2> HIDE DEF m
  <2> QED
    BY <1>1, <1>2, <1>5, <2>1, OneAgentMoves
<1>6. CASE conv' = conv /\ stage' = [stage EXCEPT ![a] = "idle"]
  <2>1. TurnTypeOK'
    BY <1>1, <1>6 DEF TurnInv, TurnTypeOK
  <2>2. Bindings'
    BY <1>1, <1>6 DEF TurnInv, TurnTypeOK, Bindings
  <2>3. ASSUME NEW b \in Agents PROVE InTurn(Offered[b], conv'[b], stage'[b])
    <3>1. stage'[b] = IF b = a THEN "idle" ELSE stage[b]
      BY <1>6 DEF TurnInv, TurnTypeOK
    <3>2. InTurn(Offered[b], conv[b], stage[b])
      BY DEF TurnInv
    <3> QED
      BY <1>6, <3>1, <3>2 DEF InTurn
  <2>4. \A b \in Agents : InTurn(Offered[b], conv[b], stage[b])'
    BY <2>3 DEF InTurn
  <2> QED
    BY <2>1, <2>2, <2>4 DEF TurnInv
<1> QED
  BY <1>4, <1>5, <1>6

\* The adapter changes no conversation.
LEMMA PromptStep == TurnInv /\ Prompt => TurnInv'
<1> SUFFICES ASSUME TurnInv, Prompt PROVE TurnInv'
  OBVIOUS
<1>1. UNCHANGED <<mockTools, bound, conv, stage, turns>> /\ prompt' \in {"text", "empty"}
  BY DEF Prompt
<1>2. TurnTypeOK'
  BY <1>1, Zenon DEF TurnInv, TurnTypeOK
<1>3. Bindings'
  BY <1>1 DEF TurnInv, Bindings
<1>4. \A b \in Agents : InTurn(Offered[b], conv[b], stage[b])'
  BY <1>1 DEF TurnInv, InTurn
<1> QED
  BY <1>2, <1>3, <1>4 DEF TurnInv

\* Every step keeps the invariant.
LEMMA TurnStep == TurnInv /\ [TurnNext]_turnVars => TurnInv'
<1>1. TurnInv /\ UNCHANGED turnVars => TurnInv'
  <2> SUFFICES ASSUME TurnInv, UNCHANGED turnVars PROVE TurnInv'
    OBVIOUS
  <2>1. UNCHANGED <<mockTools, bound, conv, stage, turns, prompt>>
    BY DEF turnVars
  <2>2. TurnTypeOK'
    BY <2>1, Zenon DEF TurnInv, TurnTypeOK
  <2>3. Bindings'
    BY <2>1 DEF TurnInv, Bindings
  <2>4. \A b \in Agents : InTurn(Offered[b], conv[b], stage[b])'
    BY <2>1 DEF TurnInv, InTurn
  <2> QED
    BY <2>2, <2>3, <2>4 DEF TurnInv
<1> QED
  BY <1>1, BindToolsStep, QuestionStep, CallStep, RunToolStep, PromptStep DEF TurnNext

(* Every conversation is what its loop and the model have made of it: its      *)
(* turn holds the first of the agent's own tools, and the shared service none. *)
THEOREM TurnsAreKept == TurnSpec => []TurnInv
BY TurnInitHolds, TurnStep, PTL DEF TurnSpec

(* Within one question each of an agent's own tools is asked for once and in   *)
(* binding order, and the answer comes after all of them: for any agents,      *)
(* tools and number of questions.                                              *)
THEOREM EachToolOnce == TurnSpec => []EachToolOncePerTurn
<1>1. TurnInv => EachToolOncePerTurn
  <2> SUFFICES ASSUME TurnInv, NEW a \in Agents
               PROVE  /\ IsPrefix(Asked(a), Offered[a])
                      /\ stage[a] = "answered" => Asked(a) = Offered[a] /\ Last(conv[a]).lines = Offered[a]
    BY DEF EachToolOncePerTurn
  <2> DEFINE k == Len(Asked(a))
  <2>1. InTurn(Offered[a], conv[a], stage[a]) /\ Offered[a] \in Seq(Tools)
    BY AgentAssumption DEF AgentAssumption, TurnInv
  <2>2. k <= Len(Offered[a]) /\ Asked(a) = SubSeq(Offered[a], 1, k)
    BY <2>1 DEF InTurn, Asked
  <2>3. stage[a] = "answered" => k = Len(Offered[a]) /\ Last(conv[a]).lines = Offered[a]
    BY <2>1 DEF InTurn, Asked
  <2>4. SubSeq(Offered[a], 1, Len(Offered[a])) = Offered[a]
    BY <2>1
  <2>5. k \in Nat
    <3>1. ToolsOf(CurrentTurn(conv[a])) = [i \in DOMAIN OfKind(CurrentTurn(conv[a]), "call") |->
                                              OfKind(CurrentTurn(conv[a]), "call")[i].calls[1].name]
      BY DEF ToolsOf
    <3>2. OfKind(CurrentTurn(conv[a]), "call") \in Seq(Message)
      BY TurnType, OfKindType DEF TurnInv, TurnTypeOK
    <3> QED
      BY <3>1, <3>2 DEF Asked
  <2> HIDE DEF k
  <2>6. SubSeq(Asked(a), 1, k) = Asked(a)
    <3>1. Asked(a) \in Seq(Tools)
      BY <2>1, <2>2, <2>5
    <3> QED
      BY <3>1 DEF k
  <2> QED
    BY <2>2, <2>3, <2>4, <2>6 DEF IsPrefix, k
<1> QED
  BY TurnsAreKept, <1>1, PTL

(* The shared service has no tools, so a prompt sent through the adapter is    *)
(* never answered with a call: for any agents that bind and call beside it.    *)
THEOREM PromptIsText == TurnSpec => []PromptGetsText
<1>1. TurnInit => PromptGetsText
  BY DEF TurnInit, PromptGetsText
<1>2. TurnInv /\ PromptGetsText /\ [TurnNext]_turnVars => PromptGetsText'
  <2> SUFFICES ASSUME TurnInv, PromptGetsText, [TurnNext]_turnVars PROVE PromptGetsText'
    OBVIOUS
  <2>1. CASE Prompt
    <3>1. Uncalled(<<>>, CurrentTurn(<<Human>>)) = {}
      BY DEF Uncalled
    <3>2. MockResponse(<<>>, CurrentTurn(<<Human>>), 1).calls = <<>>
      BY <3>1 DEF MockResponse, Final
    <3> QED
      BY <2>1, <3>2 DEF TurnInv, Bindings, Prompt, PromptGetsText
  <2>2. CASE UNCHANGED turnVars
    BY <2>2 DEF turnVars, PromptGetsText
  <2>3. ASSUME NEW a \in Agents, BindTools(a) \/ Question(a) \/ Call(a) \/ RunTool(a) PROVE PromptGetsText'
    BY <2>3 DEF BindTools, Question, Call, RunTool, PromptGetsText
  <2> QED
    BY <2>1, <2>2, <2>3 DEF TurnNext
<1> QED
  BY <1>1, <1>2, TurnsAreKept, PTL DEF TurnSpec

=============================================================================
