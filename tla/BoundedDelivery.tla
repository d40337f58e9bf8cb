--------------------------- MODULE BoundedDelivery ---------------------------
(***************************************************************************)
(* What a job queue promises to those who enqueue jobs, without a word of  *)
(* the workers: a job is tried a bounded number of times, a try delivers   *)
(* at most once, and a settled job, one that was tried at least once, is   *)
(* never touched again.  A try that delivers nothing, and a job nobody     *)
(* settles, are allowed: this is no promise that anything is delivered.    *)
(***************************************************************************)
EXTENDS Integers

CONSTANTS Jobs, MaxTries

VARIABLES
    standing,     \* of each job: "absent", then "open", then "settled"
    tries,
    delivered

vars == <<standing, tries, delivered>>

Init ==
    /\ standing = [j \in Jobs |-> "absent"]
    /\ tries = [j \in Jobs |-> 0]
    /\ delivered = [j \in Jobs |-> 0]

Accept(j) ==
    /\ standing[j] = "absent"
    /\ standing' = [standing EXCEPT ![j] = "open"]
    /\ UNCHANGED <<tries, delivered>>

Try(j) ==
    /\ standing[j] = "open"
    /\ tries[j] < MaxTries
    /\ tries' = [tries EXCEPT ![j] = @ + 1]
    /\ UNCHANGED <<standing, delivered>>

Deliver(j) ==
    /\ standing[j] = "open"
    /\ delivered[j] < tries[j]
    /\ delivered' = [delivered EXCEPT ![j] = @ + 1]
    /\ UNCHANGED <<standing, tries>>

Settle(j) ==
    /\ standing[j] = "open"
    /\ tries[j] > 0
    /\ standing' = [standing EXCEPT ![j] = "settled"]
    /\ UNCHANGED <<tries, delivered>>

Next == \E j \in Jobs : Accept(j) \/ Try(j) \/ Deliver(j) \/ Settle(j)

Spec == Init /\ [][Next]_vars
=============================================================================
