----------------------------- MODULE JobContract -----------------------------
(***************************************************************************)
(* What both in-memory job managers (lab_jobs.LabJobManager and            *)
(* automation.JobManager) promise the clients of the loopback API: one job *)
(* at a time, a job ends once and for good, a cancelled job never shows a  *)
(* result, and what a finished job shows does not change.                  *)
(***************************************************************************)
CONSTANT Jobs

VARIABLES
    status,       \* of every job identifier
    published     \* the jobs whose public payload carries a result

contractVars == <<status, published>>

Status == {"new", "live", "cancelling", "closed"}
Open(j) == status[j] \in {"live", "cancelling"}

ContractInit ==
    /\ status = [j \in Jobs |-> "new"]
    /\ published = {}

\* A job is accepted when no other is open.
Submit(j) ==
    /\ status[j] = "new" /\ \A k \in Jobs : ~Open(k)
    /\ status' = [status EXCEPT ![j] = "live"]
    /\ UNCHANGED published

AskCancel(j) ==
    /\ status[j] = "live"
    /\ status' = [status EXCEPT ![j] = "cancelling"]
    /\ UNCHANGED published

\* A job ends; only one that nobody cancelled may show a result.
Close(j) ==
    /\ Open(j)
    /\ status' = [status EXCEPT ![j] = "closed"]
    /\ \/ UNCHANGED published
       \/ status[j] = "live" /\ published' = published \cup {j}

ContractNext == \E j \in Jobs : Submit(j) \/ AskCancel(j) \/ Close(j)

ContractSafety == ContractInit /\ [][ContractNext]_contractVars

=============================================================================
