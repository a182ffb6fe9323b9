------------------------- MODULE SubmissionContract -------------------------
(***************************************************************************)
(* What the judging pipeline promises of a submission, without its queue,  *)
(* slots and awaits: it is judged in at most MaxTries tries, each of which *)
(* runs it and ends in a verdict, in an error or in nothing at all; a      *)
(* verdict stands unless the process died under the job, and once the      *)
(* submission is closed its status is final and stays.                     *)
(***************************************************************************)
EXTENDS Naturals

CONSTANTS Submission, MaxTries

VARIABLES
    status,  \* Submission.status
    tries,   \* tries so far
    closed,  \* no try will follow
    torn     \* a try died with its process

contractVars == <<status, tries, closed, torn>>

ContractInit ==
    /\ status = [s \in Submission |-> "none"]
    /\ tries = [s \in Submission |-> 0]
    /\ closed = [s \in Submission |-> FALSE]
    /\ torn = [s \in Submission |-> FALSE]

Becomes(s, st) ==
    /\ status' = [status EXCEPT ![s] = st]
    /\ UNCHANGED <<tries, closed, torn>>

\* A verdict is replaced only when its try was interrupted after storing it.
Open(s) ==
    /\ tries[s] > 0 /\ ~closed[s]
    /\ status[s] \in {"accepted", "wrong"} => torn[s]

Submit(s) == status[s] = "none" /\ Becomes(s, "pending")

Try(s) ==
    /\ status[s] # "none" /\ ~closed[s]
    /\ tries[s] < MaxTries
    /\ tries' = [tries EXCEPT ![s] = @ + 1]
    /\ UNCHANGED <<status, closed, torn>>

Judge(s) == Open(s) /\ Becomes(s, "running")

Decide(s) ==
    /\ status[s] = "running" /\ Open(s)
    /\ \E verdict \in {"accepted", "wrong"} : Becomes(s, verdict)

Fail(s) == Open(s) /\ Becomes(s, "runtime_error")

Interrupt(s) ==
    /\ ~closed[s]
    /\ torn' = [torn EXCEPT ![s] = TRUE]
    /\ UNCHANGED <<status, tries, closed>>

CloseIt(s) ==
    /\ status[s] \in {"accepted", "wrong", "runtime_error"}
    /\ closed' = [closed EXCEPT ![s] = TRUE]
    /\ UNCHANGED <<status, tries, torn>>

ContractNext ==
    \E s \in Submission :
        \/ Submit(s) \/ Try(s) \/ Judge(s) \/ Decide(s) \/ Fail(s)
        \/ Interrupt(s) \/ CloseIt(s)

ContractSafety == ContractInit /\ [][ContractNext]_contractVars

Contract == ContractSafety /\ \A s \in Submission : tries[s] > 0 ~> closed[s]
=============================================================================
