------------------------- MODULE EmailQueue_proofs -------------------------
(* Theorems about EmailQueue, for any number of jobs and workers, any       *)
(* max_attempts and any number of losses.                                   *)
EXTENDS EmailQueue, TLAPS

(* A worker remembers the number of attempts its job was claimed with.      *)
HolderKnows ==
    \A w \in Workers : worker[w].phase # "free"
        => worker[w].attempts = jobs[worker[w].job].attempts

(* The column attempts never counts too few tries.                          *)
TriesCounted == \A j \in Jobs : tries[j] <= jobs[j].attempts

(* The try under way has sent nothing yet.                                  *)
SendingUnsent ==
    \A w \in Workers : worker[w].phase = "sending"
        => sent[worker[w].job] < tries[worker[w].job]

(* The job a worker has was claimed, so it counts as tried.                 *)
HeldIsTried == \A w \in Workers : worker[w].phase # "free" => tries[worker[w].job] > 0

(* A job is enqueued with its whole budget.                                 *)
AbsentUntried == \A j \in Jobs : jobs[j].status = "absent" => jobs[j].attempts = 0

IInv ==
    /\ TypeOK
    /\ AbsentUntried
    /\ OneHolder
    /\ HolderKnows
    /\ HeldIsTried
    /\ TriesCounted
    /\ BudgetKept
    /\ SendingUnsent
    /\ PendingHasBudget

(* Two workers never have one job.                                          *)
LEMMA HoldersDiffer ==
    ASSUME OneHolder, NEW v \in Workers, NEW w \in Workers,
           worker[v].phase # "free", worker[w].phase # "free",
           worker[v].job = worker[w].job
    PROVE  v = w
  BY DEF OneHolder

LEMMA InitIInv == Init => IInv
  <1> SUFFICES ASSUME Init PROVE IInv
    OBVIOUS
  <1>1. TypeOK
    BY QueueConstantsOK DEF Init, TypeOK, Free
  <1> QED
    BY <1>1, QueueConstantsOK
       DEF Init, Free, IInv, OneHolder, HolderKnows, HeldIsTried, TriesCounted, BudgetKept,
           SendingUnsent, PendingHasBudget, AbsentUntried

LEMMA StepIInv == IInv /\ [Next]_vars => IInv'
  <1> SUFFICES ASSUME IInv, [Next]_vars PROVE IInv'
    OBVIOUS
  <1> USE QueueConstantsOK
  <1>1. ASSUME NEW j \in Jobs, Enqueue(j) PROVE IInv'
    <2>1. TypeOK'
      BY <1>1 DEF IInv, TypeOK, Enqueue
    <2> QED
      BY <2>1, <1>1
         DEF IInv, TypeOK, OneHolder, HolderKnows, HeldIsTried, TriesCounted, BudgetKept,
             SendingUnsent, PendingHasBudget, AbsentUntried, Enqueue
  <1>2. ASSUME NEW w \in Workers, NEW j \in Jobs, NextJob(w, j) PROVE IInv'
    <2>1. TypeOK'
      BY <1>2 DEF IInv, TypeOK, NextJob
    <2>2. \A v \in Workers : v # w => worker'[v] = worker[v]
      BY <1>2 DEF NextJob
    <2>3. \A v \in Workers : worker[v].phase # "free" => worker[v].job # j
      BY <1>2 DEF IInv, OneHolder, NextJob
    <2> QED
      BY <2>1, <2>2, <2>3, <1>2
         DEF IInv, TypeOK, OneHolder, HolderKnows, HeldIsTried, TriesCounted, BudgetKept,
             SendingUnsent, PendingHasBudget, AbsentUntried, NextJob
  <1>3. ASSUME NEW w \in Workers, ProcessJob(w) \/ ProcessJobFails(w) PROVE IInv'
    <2> DEFINE job == worker[w].job
    <2>1. worker[w].phase = "sending" /\ job \in Jobs
      BY <1>3 DEF IInv, TypeOK, ProcessJob, ProcessJobFails
    <2>2. PICK emails \in 0..1 : sent' = [sent EXCEPT ![job] = @ + emails]
      BY <1>3 DEF ProcessJob, ProcessJobFails
    <2>3. PICK phase \in {"sent", "refused"} : worker' = [worker EXCEPT ![w].phase = phase]
      BY <1>3 DEF ProcessJob, ProcessJobFails
    <2>4. UNCHANGED <<jobs, tries, losses>>
      BY <1>3 DEF ProcessJob, ProcessJobFails
    <2>5. \A v \in Workers : v # w /\ worker[v].phase # "free" => worker[v].job # job
      BY <2>1, HoldersDiffer DEF IInv
    <2>6. /\ sent' \in [Jobs -> Nat]
          /\ sent'[job] <= tries[job]
          /\ \A j \in Jobs : j # job => sent'[j] = sent[j]
      BY <2>1, <2>2 DEF IInv, TypeOK, SendingUnsent
    <2>7. /\ worker'[w].job = job /\ worker'[w].attempts = worker[w].attempts
          /\ worker'[w].phase = phase
          /\ \A v \in Workers : v # w => worker'[v] = worker[v]
      BY <2>3 DEF IInv, TypeOK
    <2>8. TypeOK'
      BY <2>1, <2>3, <2>4, <2>6 DEF IInv, TypeOK
    <2>9. OneHolder' /\ HolderKnows' /\ HeldIsTried'
      BY <2>1, <2>4, <2>7 DEF IInv, OneHolder, HolderKnows, HeldIsTried
    <2>10. BudgetKept' /\ SendingUnsent'
      <3>1. TypeOK /\ BudgetKept /\ SendingUnsent
        BY DEF IInv
      <3>2. BudgetKept'
        BY <3>1, <2>1, <2>4, <2>6 DEF TypeOK, BudgetKept
      <3>3. SendingUnsent'
        BY <3>1, <2>1, <2>4, <2>5, <2>6, <2>7 DEF TypeOK, SendingUnsent
      <3> QED
        BY <3>2, <3>3
    <2>11. TriesCounted' /\ PendingHasBudget' /\ AbsentUntried'
      BY <2>4 DEF IInv, TriesCounted, PendingHasBudget, AbsentUntried
    <2> QED
      BY <2>8, <2>9, <2>10, <2>11 DEF IInv
  <1>4. ASSUME NEW w \in Workers, Complete(w) PROVE IInv'
    <2>1. TypeOK'
      BY <1>4 DEF IInv, TypeOK, Complete, Free
    <2>2. worker[w].phase # "free" /\ worker[w].job \in Jobs
      BY <1>4 DEF IInv, TypeOK, Complete
    <2>3. \A v \in Workers : v # w /\ worker[v].phase # "free" => worker[v].job # worker[w].job
      BY <2>2, HoldersDiffer DEF IInv
    <2> QED
      BY <2>1, <2>2, <2>3, <1>4
         DEF IInv, TypeOK, OneHolder, HolderKnows, HeldIsTried, TriesCounted, BudgetKept,
             SendingUnsent, PendingHasBudget, AbsentUntried, Complete, Free
  <1>5. ASSUME NEW w \in Workers, RetryOrFail(w) PROVE IInv'
    <2>1. TypeOK'
      BY <1>5 DEF IInv, TypeOK, RetryOrFail, Free
    <2>2. worker[w].phase # "free" /\ worker[w].job \in Jobs
      BY <1>5 DEF IInv, TypeOK, RetryOrFail
    <2>3. \A v \in Workers : v # w /\ worker[v].phase # "free" => worker[v].job # worker[w].job
      BY <2>2, HoldersDiffer DEF IInv
    <2> QED
      BY <2>1, <2>2, <2>3, <1>5
         DEF IInv, TypeOK, OneHolder, HolderKnows, HeldIsTried, TriesCounted, BudgetKept,
             SendingUnsent, PendingHasBudget, AbsentUntried, RetryOrFail, Free
  <1>6. ASSUME NEW w \in Workers, Lose(w) PROVE IInv'
    <2>1. TypeOK'
      BY <1>6 DEF IInv, TypeOK, Lose, Free
    <2> QED
      BY <2>1, <1>6
         DEF IInv, TypeOK, OneHolder, HolderKnows, HeldIsTried, TriesCounted, BudgetKept,
             SendingUnsent, PendingHasBudget, AbsentUntried, Lose, Free
  <1>7. CASE UNCHANGED vars
    BY <1>7 DEF IInv, TypeOK, OneHolder, HolderKnows, HeldIsTried, TriesCounted, BudgetKept,
                SendingUnsent, PendingHasBudget, AbsentUntried, vars
  <1> QED
    BY <1>1, <1>2, <1>3, <1>4, <1>5, <1>6, <1>7 DEF Next, Work

LEMMA Inductive == Spec => []IInv
  BY InitIInv, StepIInv, PTL DEF Spec

(* Every state of the queue is well formed (the jobs table and the workers  *)
(* of emailWorker.ts).                                                      *)
THEOREM QueueTyped == Spec => []TypeOK
  <1>1. IInv => TypeOK
    BY DEF IInv
  <1> QED
    BY <1>1, Inductive, PTL

(* next_job never gives one job to two workers.                             *)
THEOREM ClaimsAreExclusive == Spec => []OneHolder
  <1>1. IInv => OneHolder
    BY DEF IInv
  <1> QED
    BY <1>1, Inductive, PTL

(* No job is tried, and no recipient is written to, more than max_attempts  *)
(* times, although the worker counts attempts a second time.                *)
THEOREM RetriesAreBounded == Spec => []BudgetKept
  <1>1. IInv => BudgetKept
    BY DEF IInv
  <1> QED
    BY <1>1, Inductive, PTL

(* A pending job is always one next_job will still hand out.                *)
THEOREM NoJobStarves == Spec => []PendingHasBudget
  <1>1. IInv => PendingHasBudget
    BY DEF IInv
  <1> QED
    BY <1>1, Inductive, PTL

(* Completed and failed are final: no later step sends or claims.           *)
THEOREM SettledForGood == Spec => SettledIsFinal
  <1>1. IInv /\ [Next]_vars =>
          [\A j \in Jobs : jobs[j].status \in {"completed", "failed"} =>
             jobs'[j].status = jobs[j].status /\ tries'[j] = tries[j] /\ sent'[j] = sent[j]]_vars
    <2> SUFFICES ASSUME IInv, Next, NEW j \in Jobs, jobs[j].status \in {"completed", "failed"}
                 PROVE  jobs'[j].status = jobs[j].status /\ tries'[j] = tries[j]
                        /\ sent'[j] = sent[j]
      OBVIOUS
    <2>1. \A w \in Workers : worker[w].phase # "free" => worker[w].job # j
      BY DEF IInv, OneHolder
    <2>2. ASSUME NEW i \in Jobs, Enqueue(i) PROVE i # j
      BY <2>2 DEF Enqueue
    <2>3. ASSUME NEW w \in Workers, NEW i \in Jobs, NextJob(w, i) PROVE i # j
      BY <2>3 DEF NextJob
    <2>4. CASE \E i \in Jobs : Enqueue(i)
      BY <2>2, <2>4 DEF Enqueue, IInv, TypeOK
    <2>5. CASE \E w \in Workers, i \in Jobs : NextJob(w, i)
      BY <2>3, <2>5 DEF NextJob, IInv, TypeOK
    <2>6. CASE \E w \in Workers : \/ ProcessJob(w) \/ ProcessJobFails(w) \/ Complete(w)
                                  \/ RetryOrFail(w) \/ Lose(w)
      BY <2>1, <2>6 DEF ProcessJob, ProcessJobFails, Complete, RetryOrFail, Lose, IInv, TypeOK
    <2> QED
      BY <2>4, <2>5, <2>6 DEF Next, Work
  <1> QED
    BY <1>1, Inductive, PTL DEF Spec, SettledIsFinal

-----------------------------------------------------------------------------
(* The queue is one of bounded delivery.  Every step leaves all but one job *)
(* alone; NextJob is a try, a call of the provider is a delivery if an      *)
(* email goes out, and the worker's update settles the job if it completes  *)
(* or fails it.  A retry and a loss are stutters.                           *)

standings == [j \in Jobs |-> Standing(j)]

LEMMA StandingKept ==
    ASSUME IInv, UNCHANGED jobs
    PROVE  standings' = standings
  BY DEF standings, Standing

(* Only the status of a job decides where it stands.                        *)
LEMMA StandingChanges ==
    ASSUME IInv, NEW j \in Jobs, NEW status \in {"pending", "processing", "completed", "failed"},
           jobs' \in [Jobs -> [status: {"absent", "pending", "processing", "completed", "failed"},
                               attempts: 0..(MAX_ATTEMPTS + 1), locked_by: Workers \cup {None}]],
           jobs'[j].status = status,
           \A i \in Jobs \ {j} : jobs'[i] = jobs[i]
    PROVE  standings' = [standings EXCEPT ![j] =
                            IF status \in {"completed", "failed"} THEN "settled" ELSE "open"]
  <1>1. \A i \in Jobs \ {j} : standings'[i] = standings[i]
    BY DEF standings, Standing
  <1>2. standings'[j] = IF status \in {"completed", "failed"} THEN "settled" ELSE "open"
    BY DEF standings, Standing
  <1>3. standings = [i \in Jobs |-> standings[i]] /\ standings' = [i \in Jobs |-> standings'[i]]
    BY DEF standings
  <1> HIDE DEF standings
  <1> QED
    BY <1>1, <1>2, <1>3

LEMMA DeliveryInitially == Init => Delivery!Init
  BY DEF Init, Delivery!Init, Standing

LEMMA DeliveryStep == IInv /\ [Next]_vars => [Delivery!Next]_(Delivery!vars)
  <1> SUFFICES ASSUME IInv, [Next]_vars PROVE [Delivery!Next]_(Delivery!vars)
    OBVIOUS
  <1> USE QueueConstantsOK
  <1>a. TypeOK
    BY DEF IInv
  <1>b. TypeOK'
    BY StepIInv DEF IInv
  <1>1. ASSUME NEW j \in Jobs, Enqueue(j) PROVE Delivery!Accept(j)
    <2>1. standings[j] = "absent"
      BY <1>1 DEF Enqueue, standings, Standing
    <2>2. standings' = [standings EXCEPT ![j] = "open"]
      <3>1. jobs'[j].status = "pending" /\ \A i \in Jobs \ {j} : jobs'[i] = jobs[i]
        BY <1>1, <1>a DEF Enqueue, TypeOK
      <3> QED
        BY <3>1, <1>b, StandingChanges DEF TypeOK
    <2> QED
      BY <2>1, <2>2, <1>1 DEF Delivery!Accept, Enqueue, standings
  <1>2. ASSUME NEW w \in Workers, NEW j \in Jobs, NextJob(w, j) PROVE Delivery!Try(j)
    <2>1. standings[j] = "open"
      BY <1>2 DEF NextJob, standings, Standing
    <2>2. standings' = [standings EXCEPT ![j] = "open"]
      <3>1. jobs'[j].status = "processing" /\ \A i \in Jobs \ {j} : jobs'[i] = jobs[i]
        BY <1>2, <1>a DEF NextJob, TypeOK
      <3> QED
        BY <3>1, <1>b, StandingChanges DEF TypeOK
    <2>3. standings' = standings
      BY <2>1, <2>2 DEF standings
    <2>4. tries[j] < MAX_ATTEMPTS
      BY <1>2, <1>a DEF NextJob, IInv, TriesCounted, TypeOK
    <2> QED
      BY <2>1, <2>3, <2>4, <1>2 DEF Delivery!Try, NextJob, standings
  <1>3. ASSUME NEW w \in Workers, ProcessJob(w) \/ ProcessJobFails(w)
        PROVE  [Delivery!Deliver(worker[w].job)]_(Delivery!vars) /\ worker[w].job \in Jobs
    <2> DEFINE job == worker[w].job
    <2>1. worker[w].phase = "sending" /\ job \in Jobs
      BY <1>3, <1>a DEF TypeOK, ProcessJob, ProcessJobFails
    <2>2. PICK emails \in 0..1 : sent' = [sent EXCEPT ![job] = @ + emails]
      BY <1>3 DEF ProcessJob, ProcessJobFails
    <2>3. UNCHANGED <<jobs, tries>>
      BY <1>3 DEF ProcessJob, ProcessJobFails
    <2>4. standings' = standings
      BY <2>3, StandingKept
    <2>5. standings[job] = "open" /\ sent[job] < tries[job]
      BY <2>1 DEF IInv, OneHolder, SendingUnsent, standings, Standing
    <2>6. CASE emails = 1
      BY <2>1, <2>2, <2>3, <2>4, <2>5, <2>6 DEF Delivery!Deliver, standings
    <2>7. CASE emails = 0
      <3>1. sent' = sent
        BY <2>1, <2>2, <2>7, <1>a DEF TypeOK
      <3> QED
        BY <3>1, <2>1, <2>3, <2>4 DEF Delivery!vars, standings
    <2> QED
      BY <2>2, <2>6, <2>7
  <1>4. ASSUME NEW w \in Workers, Complete(w) \/ RetryOrFail(w)
        PROVE  [Delivery!Settle(worker[w].job)]_(Delivery!vars) /\ worker[w].job \in Jobs
    <2> DEFINE job == worker[w].job
    <2>1. worker[w].phase # "free" /\ job \in Jobs
      BY <1>4, <1>a DEF TypeOK, Complete, RetryOrFail
    <2>2. standings[job] = "open" /\ tries[job] > 0
      BY <2>1 DEF IInv, OneHolder, HeldIsTried, standings, Standing
    <2>3. UNCHANGED <<tries, sent>>
      BY <1>4 DEF Complete, RetryOrFail
    <2>4. /\ jobs'[job].status \in {"pending", "completed", "failed"}
          /\ \A i \in Jobs \ {job} : jobs'[i] = jobs[i]
      BY <1>4, <1>a, <2>1 DEF TypeOK, Complete, RetryOrFail
    <2>5. standings' = [standings EXCEPT ![job] =
                           IF jobs'[job].status \in {"completed", "failed"}
                           THEN "settled" ELSE "open"]
      BY <2>1, <2>4, <1>b, StandingChanges DEF TypeOK
    <2>6. CASE jobs'[job].status = "pending"
      <3>1. standings' = standings
        BY <2>2, <2>5, <2>6 DEF standings
      <3> QED
        BY <3>1, <2>1, <2>3 DEF Delivery!vars, standings
    <2>7. CASE jobs'[job].status # "pending"
      <3>1. standings' = [standings EXCEPT ![job] = "settled"]
        BY <2>4, <2>5, <2>7
      <3> QED
        BY <3>1, <2>1, <2>2, <2>3 DEF Delivery!Settle, standings
    <2> QED
      BY <2>6, <2>7
  <1>5. ASSUME NEW w \in Workers, Lose(w) PROVE UNCHANGED Delivery!vars
    BY <1>5, StandingKept DEF Lose, Delivery!vars, standings
  <1>6. CASE UNCHANGED vars
    BY <1>6, StandingKept DEF vars, Delivery!vars, standings
  <1> QED
    BY <1>1, <1>2, <1>3, <1>4, <1>5, <1>6 DEF Next, Work, Delivery!Next

(* The jobs table and its workers implement bounded delivery, for any       *)
(* number of either and however often a worker dies or loses an update.     *)
THEOREM QueueImplementsDelivery == Spec => ImplementsDelivery
  <1> QED
    BY DeliveryInitially, DeliveryStep, Inductive, PTL DEF Spec, ImplementsDelivery, Delivery!Spec
=============================================================================
