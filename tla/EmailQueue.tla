----------------------------- MODULE EmailQueue -----------------------------
(***************************************************************************)
(* The send_email jobs of the table `jobs': enqueued by the API routes,    *)
(* claimed through the function next_job and processed by the workers of   *)
(* frontend/scripts/emailWorker.ts.                                        *)
(*                                                                         *)
(* A worker makes three awaited calls per job: next_job, the mail provider,*)
(* and an update of the job whose result it does not look at.  It may die  *)
(* between any two of them.  The provider is external: what it answers is  *)
(* not always what it did, for an answer may be lost after it has sent the *)
(* email.                                                                  *)
(***************************************************************************)
EXTENDS Integers, FiniteSets

CONSTANTS
    Jobs,
    Workers,
    MAX_ATTEMPTS,     \* jobs.max_attempts, 3 by default
    MaxLosses,        \* bound on the workers' deaths and lost updates
    None

ASSUME QueueConstantsOK == MAX_ATTEMPTS \in Nat \ {0} /\ MaxLosses \in Nat /\ None \notin Jobs

VARIABLES
    jobs,      \* the table; a job that is not enqueued yet is "absent"
    worker,    \* what each worker is doing
    tries,     \* how often each job was claimed
    sent,      \* how many emails each job has caused
    losses

vars == <<jobs, worker, tries, sent, losses>>

Free == [phase |-> "free", job |-> None, attempts |-> 0]

TypeOK ==
    /\ jobs \in [Jobs -> [status: {"absent", "pending", "processing", "completed", "failed"},
                          attempts: 0..(MAX_ATTEMPTS + 1), locked_by: Workers \cup {None}]]
    /\ worker \in [Workers -> [phase: {"free", "sending", "sent", "refused"},
                               job: Jobs \cup {None}, attempts: 0..MAX_ATTEMPTS]]
    /\ \A w \in Workers : worker[w].phase = "free" <=> worker[w].job = None
    /\ tries \in [Jobs -> Nat]
    /\ sent \in [Jobs -> Nat]
    /\ losses \in 0..MaxLosses

Init ==
    /\ jobs = [j \in Jobs |-> [status |-> "absent", attempts |-> 0, locked_by |-> None]]
    /\ worker = [w \in Workers |-> Free]
    /\ tries = [j \in Jobs |-> 0]
    /\ sent = [j \in Jobs |-> 0]
    /\ losses = 0

-----------------------------------------------------------------------------

\* A route inserts the job: status, attempts and max_attempts by default.
Enqueue(j) ==
    /\ jobs[j].status = "absent"
    /\ jobs' = [jobs EXCEPT ![j].status = "pending"]
    /\ UNCHANGED <<worker, tries, sent, losses>>

\* The claim leaves the job pending.
NextJobUnmarked(w, j) ==
    /\ worker[w].phase = "free"
    /\ jobs[j].status = "pending"
    /\ jobs[j].attempts < MAX_ATTEMPTS
    /\ jobs' = [jobs EXCEPT ![j].attempts = @ + 1, ![j].locked_by = w]
    /\ worker' = [worker EXCEPT ![w] = [phase |-> "sending", job |-> j,
                                        attempts |-> jobs[j].attempts + 1]]
    /\ tries' = [tries EXCEPT ![j] = @ + 1]
    /\ UNCHANGED <<sent, losses>>

\* Which of the pending jobs is the oldest is left open.
NextJob(w, j) ==
    /\ worker[w].phase = "free"
    /\ jobs[j].status = "pending"
    /\ jobs[j].attempts < MAX_ATTEMPTS
    /\ jobs' = [jobs EXCEPT ![j] = [status |-> "processing", attempts |-> @.attempts + 1,
                                    locked_by |-> w]]
    /\ worker' = [worker EXCEPT ![w] = [phase |-> "sending", job |-> j,
                                        attempts |-> jobs[j].attempts + 1]]
    /\ tries' = [tries EXCEPT ![j] = @ + 1]
    /\ UNCHANGED <<sent, losses>>

\* processJob: the recipient has opted out, or the provider confirms.
ProcessJob(w) ==
    /\ worker[w].phase = "sending"
    /\ worker' = [worker EXCEPT ![w].phase = "sent"]
    /\ \E emails \in 0..1 : sent' = [sent EXCEPT ![worker[w].job] = @ + emails]
    /\ UNCHANGED <<jobs, tries, losses>>

\* processJob fails: the email may have been sent all the same.
ProcessJobFails(w) ==
    /\ worker[w].phase = "sending"
    /\ worker' = [worker EXCEPT ![w].phase = "refused"]
    /\ \E emails \in 0..1 : sent' = [sent EXCEPT ![worker[w].job] = @ + emails]
    /\ UNCHANGED <<jobs, tries, losses>>

Complete(w) ==
    /\ worker[w].phase = "sent"
    /\ jobs' = [jobs EXCEPT ![worker[w].job].status = "completed"]
    /\ worker' = [worker EXCEPT ![w] = Free]
    /\ UNCHANGED <<tries, sent, losses>>

\* A failed attempt puts the job back without a look at the budget.
RetryAlways(w) ==
    /\ worker[w].phase = "refused"
    /\ jobs' = [jobs EXCEPT ![worker[w].job] =
                  [status |-> "pending", attempts |-> worker[w].attempts + 1,
                   locked_by |-> None]]
    /\ worker' = [worker EXCEPT ![w] = Free]
    /\ UNCHANGED <<tries, sent, losses>>

\* A failed attempt puts the job back and gives its attempt back too.
RetryUncounted(w) ==
    /\ worker[w].phase = "refused"
    /\ LET attempts == worker[w].attempts
       IN  jobs' = [jobs EXCEPT ![worker[w].job] =
                      [status |-> IF attempts >= MAX_ATTEMPTS THEN "failed" ELSE "pending",
                       attempts |-> attempts - 1,
                       locked_by |-> None]]
    /\ worker' = [worker EXCEPT ![w] = Free]
    /\ UNCHANGED <<tries, sent, losses>>

\* The attempt that next_job has counted is counted again.
RetryOrFail(w) ==
    /\ worker[w].phase = "refused"
    /\ LET attempts == worker[w].attempts + 1
       IN  jobs' = [jobs EXCEPT ![worker[w].job] =
                      [status |-> IF attempts >= MAX_ATTEMPTS THEN "failed" ELSE "pending",
                       attempts |-> attempts,
                       locked_by |-> None]]
    /\ worker' = [worker EXCEPT ![w] = Free]
    /\ UNCHANGED <<tries, sent, losses>>

\* The worker dies (and another starts in its place), or its update is lost.
Lose(w) ==
    /\ worker[w].phase # "free"
    /\ losses < MaxLosses
    /\ losses' = losses + 1
    /\ worker' = [worker EXCEPT ![w] = Free]
    /\ UNCHANGED <<jobs, tries, sent>>

Work(w) ==
    \/ \E j \in Jobs : NextJob(w, j)
    \/ ProcessJob(w)
    \/ ProcessJobFails(w)
    \/ Complete(w)
    \/ RetryOrFail(w)

Next ==
    \/ \E j \in Jobs : Enqueue(j)
    \/ \E w \in Workers : Work(w) \/ Lose(w)

Spec == Init /\ [][Next]_vars

(* A worker polls for ever and awaits each call, every one of which returns.*)
FairSpec == Spec /\ \A w \in Workers : WF_vars(Work(w))

-----------------------------------------------------------------------------
(* Safety.                                                                  *)

(* A worker that deals with a job is its one holder: next_job hands no job  *)
(* to a second worker, nor to a new one while a slow one still has it.      *)
OneHolder ==
    \A w \in Workers : worker[w].phase # "free" =>
        /\ jobs[worker[w].job].status = "processing"
        /\ jobs[worker[w].job].locked_by = w

(* A job is tried at most max_attempts times, whatever is lost, and each    *)
(* try sends at most one email.                                             *)
BudgetKept == \A j \in Jobs : tries[j] <= MAX_ATTEMPTS /\ sent[j] <= tries[j]

(* No job is left pending with its budget used up, where next_job would     *)
(* never find it and nothing would ever mark it failed.                     *)
PendingHasBudget ==
    \A j \in Jobs : jobs[j].status = "pending" => jobs[j].attempts < MAX_ATTEMPTS

(* Nothing is sent for a completed or a failed job, and it stays so.        *)
SettledIsFinal ==
    [][\A j \in Jobs : jobs[j].status \in {"completed", "failed"} =>
           jobs'[j].status = jobs[j].status /\ tries'[j] = tries[j] /\ sent'[j] = sent[j]]_vars

\* A job is settled when it is completed or failed, and open until then.
Standing(j) ==
    CASE jobs[j].status = "absent" -> "absent"
      [] jobs[j].status \in {"pending", "processing"} -> "open"
      [] jobs[j].status \in {"completed", "failed"} -> "settled"

Delivery == INSTANCE BoundedDelivery WITH
    MaxTries <- MAX_ATTEMPTS,
    standing <- [j \in Jobs |-> Standing(j)],
    delivered <- sent

(* Whoever enqueues an email sees a queue of bounded delivery, however the  *)
(* workers interleave and die: no step tries, delivers or settles twice at  *)
(* once, and none does so for a job that is settled or was never enqueued.  *)
ImplementsDelivery == Delivery!Spec

-----------------------------------------------------------------------------
(* Liveness.                                                                *)

\* Nobody will ever take the job up: nothing looks at a job that is being
\* processed, and the worker that had it is gone.
Orphaned(j) ==
    /\ jobs[j].status = "processing"
    /\ \A w \in Workers : worker[w].job # j

(* Every enqueued job is completed or failed in the end, or was orphaned.   *)
EveryJobSettles ==
    \A j \in Jobs :
        jobs[j].status = "pending"
            ~> (jobs[j].status \in {"completed", "failed"} \/ Orphaned(j))
=============================================================================
