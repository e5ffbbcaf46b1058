--------------------------- MODULE OneWorkerQueue ---------------------------
(***************************************************************************)
(* What jobs.py promises of its queue, whoever crashes: jobs run one at a  *)
(* time, oldest first; one that is done or failed stays so; one that a     *)
(* worker left running is queued again in its old place; and while a job   *)
(* waits, jobs go on being run.                                            *)
(***************************************************************************)
EXTENDS Integers

CONSTANT MaxJobs     \* bound: jobs ever queued

VARIABLE status      \* of every job, in the order they were queued

States == {"absent", "queued", "running", "done", "failed"}

Init == status = [j \in 1..MaxJobs |-> "absent"]

In(state) == {j \in 1..MaxJobs : status[j] = state}

Add(j) ==
    /\ j \in In("absent")
    /\ \A other \in In("absent") : j <= other
    /\ status' = [status EXCEPT ![j] = "queued"]

Claim(j) ==
    /\ In("running") = {}
    /\ j \in In("queued")
    /\ \A other \in In("queued") : j <= other
    /\ status' = [status EXCEPT ![j] = "running"]

Settle(j) ==
    /\ j \in In("running")
    /\ \E outcome \in {"done", "failed"} : status' = [status EXCEPT ![j] = outcome]

Requeue(j) ==
    /\ j \in In("running")
    /\ status' = [status EXCEPT ![j] = "queued"]

Next == \E j \in 1..MaxJobs : Add(j) \/ Claim(j) \/ Settle(j) \/ Requeue(j)

Work == \E j \in 1..MaxJobs : Claim(j) \/ Settle(j)

Safe == Init /\ [][Next]_status

Spec == Safe /\ WF_status(Work)
=============================================================================
