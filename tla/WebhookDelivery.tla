--------------------------- MODULE WebhookDelivery ---------------------------
(***************************************************************************)
(* The delivery of webhooks: WebhookDeliveryProcessor.process POSTs the    *)
(* payload, records the answer and, up to the third attempt, enqueues the  *)
(* next attempt as a job of its own, <id>_<attempt>.  BullMQ retries and   *)
(* recovers each of these jobs by itself, as it does those of submissions. *)
(*                                                                         *)
(* The behaviour starts where ContestFinishedListener has created the      *)
(* deliveries and enqueued their first jobs; the webhooks worker has one   *)
(* slot (its default concurrency).                                         *)
(***************************************************************************)
EXTENDS Naturals

CONSTANTS
    Delivery,         \* WebhookDelivery rows
    MaxAttempts,      \* the limit in process: attempt >= 3
    JobAttempts,      \* defaultJobOptions.attempts
    MaxStalledCount,  \* BullMQ's default maxStalledCount
    MaxRejects,       \* bound: database or Redis calls that fail
    MaxCrashes        \* bound: process crashes

ASSUME LimitsAssumption ==
    /\ Delivery # {}
    /\ MaxAttempts \in Nat \ {0}
    /\ JobAttempts \in Nat \ {0}
    /\ {MaxStalledCount, MaxRejects, MaxCrashes} \subseteq Nat

VARIABLES
    row,       \* status and attempts of each WebhookDelivery
    job,       \* job[d][n]: the job of attempt n of d
    slot,      \* the run of the worker's slot
    accepted,  \* POSTs the receiver answered with 2xx (auxiliary)
    refused,   \* the other POSTs (auxiliary)
    torn,      \* deliveries with a run that a crash ended, or that stored SENT or
               \* enqueued the next attempt and was told neither (auxiliary)
    used       \* faults so far

vars == <<row, job, slot, accepted, refused, torn, used>>
receiver == <<accepted, refused, torn>>

Attempt == 1 .. MaxAttempts

\* A job that was completed is removed, so that its id may be added again; one
\* that failed for good is kept, and adding its id again has no effect.
JobState == {"none", "waiting", "delayed", "active", "failed"}
Job == [state: JobState, made: Nat, stalls: Nat]
NoJob == [state |-> "none", made |-> 0, stalls |-> 0]

Calling == {"find", "record", "fail", "retry", "enqueue"}
PC == {"idle", "post", "return", "throw"} \cup Calling
IdleSlot == [pc |-> "idle", d |-> CHOOSE d \in Delivery : TRUE, n |-> 1,
             attempts |-> 0, ok |-> FALSE]

TypeOK ==
    /\ row \in [Delivery -> [status: {"pending", "sent", "failed"}, attempts: 0 .. MaxAttempts]]
    /\ job \in [Delivery -> [Attempt -> Job]]
    /\ slot \in [pc: PC, d: Delivery, n: Attempt, attempts: 0 .. MaxAttempts, ok: BOOLEAN]
    /\ accepted \in [Delivery -> Nat]
    /\ refused \in [Delivery -> Nat]
    /\ torn \subseteq Delivery
    /\ used \in [{"reject", "crash"} -> Nat]

Init ==
    /\ row = [d \in Delivery |-> [status |-> "pending", attempts |-> 0]]
    /\ job = [d \in Delivery |-> [n \in Attempt |->
                 IF n = 1 THEN [NoJob EXCEPT !.state = "waiting"] ELSE NoJob]]
    /\ slot = IdleSlot
    /\ accepted = [d \in Delivery |-> 0]
    /\ refused = [d \in Delivery |-> 0]
    /\ torn = {}
    /\ used = [f \in {"reject", "crash"} |-> 0]

-----------------------------------------------------------------------------
(* The queue (BullMQ, external) *)

Take(d, n) ==
    /\ slot.pc = "idle"
    /\ job[d][n].state = "waiting"
    /\ job' = [job EXCEPT ![d][n].state = "active"]
    /\ slot' = [IdleSlot EXCEPT !.pc = "find", !.d = d, !.n = n]
    /\ UNCHANGED <<row, receiver, used>>

\* The delay of a job, its own or that of BullMQ's backoff, is over.
Promote(d, n) ==
    /\ job[d][n].state = "delayed"
    /\ job' = [job EXCEPT ![d][n].state = "waiting"]
    /\ UNCHANGED <<row, slot, receiver, used>>

Requeue(j) ==
    [j EXCEPT !.state = IF j.stalls < MaxStalledCount THEN "waiting" ELSE "failed",
              !.stalls = @ + 1]

\* A crash left the job active; the stalled-job checker finds it.
Stall(d, n) ==
    /\ job[d][n].state = "active"
    /\ slot.pc = "idle" \/ slot.d # d \/ slot.n # n
    /\ job' = [job EXCEPT ![d][n] = Requeue(@)]
    /\ UNCHANGED <<row, slot, receiver, used>>

Retry(j) ==
    [j EXCEPT !.state = IF j.made + 1 < JobAttempts THEN "delayed" ELSE "failed",
              !.made = @ + 1]

\* The run is over: a completed job is removed.
Settle ==
    /\ slot.pc \in {"return", "throw"}
    /\ job' = [job EXCEPT ![slot.d][slot.n] = IF slot.pc = "return" THEN NoJob ELSE Retry(@)]
    /\ slot' = IdleSlot
    /\ UNCHANGED <<row, receiver, used>>

-----------------------------------------------------------------------------
(* WebhookDeliveryProcessor.process and WebhooksService *)

Max2(a, b) == IF a < b THEN b ELSE a

Find ==
    /\ slot.pc = "find"
    /\ slot' = [slot EXCEPT !.pc = "post", !.attempts = row[slot.d].attempts]
    /\ UNCHANGED <<row, job, receiver, used>>

\* tryDeliver: the receiver gets the POST and answers, or not.
Post(ok) ==
    /\ slot.pc = "post"
    /\ slot' = [slot EXCEPT !.pc = "record", !.ok = ok]
    /\ accepted' = [accepted EXCEPT ![slot.d] = IF ok THEN @ + 1 ELSE @]
    /\ refused' = [refused EXCEPT ![slot.d] = IF ok THEN @ ELSE @ + 1]
    /\ UNCHANGED <<row, job, torn, used>>

\* A variant the checks must reject: one attempt fewer.
AfterRecordShort(r) ==
    IF r.ok THEN "return" ELSE IF r.n + 1 >= MaxAttempts THEN "fail" ELSE "retry"

\* A variant the checks must reject: a delivery that was sent is retried.
AfterRecordAlways(r) == IF r.n >= MaxAttempts THEN "fail" ELSE "retry"

\* What process does with the answer.
AfterRecord(r) ==
    IF r.ok THEN "return" ELSE IF r.n >= MaxAttempts THEN "fail" ELSE "retry"

\* tryDeliver stores the answer, FAILED also when another attempt follows.
StoreAnswer ==
    row' = [row EXCEPT ![slot.d] =
               [status |-> IF slot.ok THEN "sent" ELSE "failed",
                attempts |-> Max2(slot.attempts, 1)]]

StoreFailed == row' = [row EXCEPT ![slot.d].status = "failed"]

StoreRetrying ==
    row' = [row EXCEPT ![slot.d] = [status |-> "pending", attempts |-> slot.n + 1]]

\* Queue.add with the id of the next attempt and a delay, whose length nothing
\* depends on: no effect when that id exists.
AddNext ==
    job' = IF job[slot.d][slot.n + 1].state # "none" THEN job
           ELSE [job EXCEPT ![slot.d][slot.n + 1] = [NoJob EXCEPT !.state = "delayed"]]

Record ==
    /\ slot.pc = "record"
    /\ StoreAnswer
    /\ slot' = [slot EXCEPT !.pc = AfterRecord(slot)]
    /\ UNCHANGED <<job, receiver, used>>

MarkDeliveryFailed ==
    /\ slot.pc = "fail"
    /\ StoreFailed
    /\ slot' = [slot EXCEPT !.pc = "return"]
    /\ UNCHANGED <<job, receiver, used>>

MarkDeliveryRetrying ==
    /\ slot.pc = "retry"
    /\ StoreRetrying
    /\ slot' = [slot EXCEPT !.pc = "enqueue"]
    /\ UNCHANGED <<job, receiver, used>>

\* A variant the checks must reject: a refusal also fails the job, so that
\* BullMQ retries it beside the job of the next attempt.
AfterEnqueueThrow == "throw"

\* process returns once the next attempt is enqueued.
AfterEnqueue == "return"

EnqueueNext ==
    /\ slot.pc = "enqueue"
    /\ AddNext
    /\ slot' = [slot EXCEPT !.pc = AfterEnqueue]
    /\ UNCHANGED <<row, receiver, used>>

Reject ==
    /\ used["reject"] < MaxRejects
    /\ used' = [used EXCEPT !["reject"] = @ + 1]
    /\ slot' = [slot EXCEPT !.pc = "throw"]

\* A call of the database or of Redis rejects without effect: process throws.
CallFails ==
    /\ slot.pc \in Calling
    /\ Reject
    /\ UNCHANGED <<row, job, receiver>>

\* The call was carried out, but its answer is lost: process throws all the same.
AnswerLost ==
    /\ Reject
    /\ \/ slot.pc = "record" /\ StoreAnswer /\ UNCHANGED job
       \/ slot.pc = "fail" /\ StoreFailed /\ UNCHANGED job
       \/ slot.pc = "retry" /\ StoreRetrying /\ UNCHANGED job
       \/ slot.pc = "enqueue" /\ AddNext /\ UNCHANGED row
    /\ torn' = IF slot.pc = "enqueue" \/ (slot.pc = "record" /\ slot.ok)
               THEN torn \cup {slot.d} ELSE torn
    /\ UNCHANGED <<accepted, refused>>

Crash ==
    /\ used["crash"] < MaxCrashes
    /\ used' = [used EXCEPT !["crash"] = @ + 1]
    /\ torn' = IF slot.pc = "idle" THEN torn ELSE torn \cup {slot.d}
    /\ slot' = IdleSlot
    /\ UNCHANGED <<row, job, accepted, refused>>

-----------------------------------------------------------------------------
Process ==
    \/ Find \/ (\E ok \in BOOLEAN : Post(ok)) \/ Record \/ MarkDeliveryFailed
    \/ MarkDeliveryRetrying \/ EnqueueNext \/ Settle

Next ==
    \/ Process \/ CallFails \/ AnswerLost \/ Crash
    \/ \E d \in Delivery, n \in Attempt : Take(d, n) \/ Promote(d, n) \/ Stall(d, n)

Spec == Init /\ [][Next]_vars

\* The slot works while its process lives and takes waiting jobs in turn; Redis
\* promotes delayed jobs and finds stalled ones.
Fairness ==
    /\ WF_vars(Process)
    /\ \A d \in Delivery, n \in Attempt :
          WF_vars(Promote(d, n)) /\ WF_vars(Stall(d, n)) /\ SF_vars(Take(d, n))

FairSpec == Spec /\ Fairness

-----------------------------------------------------------------------------
(* Properties *)

Over(d) == \A n \in Attempt : job[d][n].state \in {"none", "failed"}

Faults == used["reject"] + used["crash"]

\* One fault makes BullMQ run one job again, and with it the chain of attempts
\* behind that job: the receiver is called at most MaxAttempts times, and
\* MaxAttempts more for every fault (webhook-delivery.processor.ts:29-46).
PostsBounded ==
    \A d \in Delivery : accepted[d] + refused[d] <= MaxAttempts * (1 + Faults)

\* The job of attempt n exists only after n - 1 refusals, also when a crash made
\* two jobs of one delivery run (webhook-delivery.processor.ts:31-46).
ChainEarned ==
    \A d \in Delivery : \A n \in Attempt : job[d][n].state # "none" => refused[d] >= n - 1

\* The FAILED that tryDeliver stores before another attempt is not a decision.
Outcome ==
    [d \in Delivery |-> CASE row[d].status = "sent" -> "sent"
                          [] row[d].status = "failed" /\ Over(d) -> "failed"
                          [] OTHER -> "undecided"]

Promised == INSTANCE DeliveryContract WITH outcome <- Outcome

\* The processor keeps the contract: SENT is earned, FAILED comes after
\* MaxAttempts refusals, and one of them comes, whatever interrupts a run.  Either
\* is for good and no call follows it, unless the process died in a run of the
\* delivery, or the call that stored SENT (webhooks.service.ts:105-110) or the one
\* that enqueued the next attempt (queue.service.ts:102) took effect and its answer
\* was lost: then BullMQ makes the processor POST again, and a refusal takes SENT
\* back (webhook-delivery.processor.ts:19-47).
Contract == Promised!Contract
=============================================================================
