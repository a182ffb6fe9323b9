------------------------- MODULE WebhookDeliveryProofs -------------------------
(***************************************************************************)
(* Proofs about the delivery of webhooks, for any number of deliveries,    *)
(* attempts and faults.                                                    *)
(***************************************************************************)
EXTENDS WebhookDelivery, FiniteSetTheorems, TLAPS

On(d, n) == slot.pc # "idle" /\ slot.d = d /\ slot.n = n

\* What a run knows of the attempt it makes: its job is active, only one that has
\* another behind it is retried, and the receiver has answered as ok says.
SlotFits ==
    /\ slot.pc # "idle" => job[slot.d][slot.n].state = "active"
    /\ slot.pc \in {"retry", "enqueue"} => slot.n < MaxAttempts
    /\ slot.pc = "fail" => slot.n = MaxAttempts
    /\ slot.pc = "record" /\ slot.ok => accepted[slot.d] > 0
    /\ slot.pc = "record" /\ ~slot.ok => refused[slot.d] >= slot.n
    /\ slot.pc \in {"fail", "retry", "enqueue"} => refused[slot.d] >= slot.n

ChainInv == TypeOK /\ SlotFits /\ ChainEarned

\* The POSTs the jobs of a delivery may still make, if no fault interrupts them:
\* job n and those behind it POST the attempts from First(d, n) on.
First(d, n) ==
    IF job[d][n].state \in {"none", "failed"} THEN MaxAttempts + 1
    ELSE IF ~On(d, n) \/ slot.pc \in {"find", "post", "throw"} THEN n
    ELSE IF slot.pc = "return" THEN MaxAttempts + 1
    ELSE n + 1

Owed(d) == {p \in Attempt \X Attempt : First(d, p[1]) <= p[2]}

\* Every POST made or still to be made is paid by the delivery or by a fault.
Paid ==
    \A d \in Delivery :
        accepted[d] + refused[d] + Cardinality(Owed(d)) <= MaxAttempts * (1 + Faults)

\* The bounds under which BullMQ gives no job up.
EnoughAttempts == MaxRejects < JobAttempts /\ MaxCrashes <= MaxStalledCount

\* Every attempt and every stall of a job is paid by a fault of its own.
Spared(d, n) ==
    /\ job[d][n].state # "failed"
    /\ job[d][n].made <= used["reject"]
    /\ On(d, n) /\ slot.pc = "throw" => job[d][n].made < used["reject"]
    /\ job[d][n].stalls <= used["crash"]
    /\ job[d][n].state = "active" /\ ~On(d, n) => job[d][n].stalls < used["crash"]

NoneGivenUp ==
    /\ used["reject"] <= MaxRejects /\ used["crash"] <= MaxCrashes
    /\ \A d \in Delivery, n \in Attempt : Spared(d, n)

\* A job that may still change its delivery.
Working(d, n) ==
    job[d][n].state \notin {"none", "failed"} /\ ~(On(d, n) /\ slot.pc = "return")

\* One job of a delivery that was not interrupted works, and none once it is SENT.
Alone(d) ==
    \A m, n \in Attempt : Working(d, m) => /\ row[d].status # "sent"
                                           /\ Working(d, n) => m = n

\* FAILED is the last word only when all attempts were refused.
Earned(d) ==
    row[d].status = "failed" =>
        refused[d] >= MaxAttempts \/ \E n \in Attempt : Working(d, n)

OneWorks ==
    /\ \A d \in Delivery \ torn : Alone(d)
    /\ \A d \in Delivery : Earned(d)
    /\ slot.pc = "enqueue" => row[slot.d].status = "pending"

KeepsInv == ChainInv /\ NoneGivenUp /\ OneWorks

-----------------------------------------------------------------------------
(* Type correctness and the chain of attempts *)

LEMMA AttemptsEnd ==
    \A n \in 1 .. MaxAttempts :
        /\ n >= MaxAttempts => n = MaxAttempts
        /\ n >= MaxAttempts \/ n < MaxAttempts
BY LimitsAssumption

LEMMA NextAttempt == \A n \in Attempt : n < MaxAttempts => n + 1 \in Attempt
BY LimitsAssumption DEF Attempt

LEMMA NoJobTyped == NoJob \in Job
BY DEF NoJob, Job, JobState

LEMMA IdleSlotTyped ==
    IdleSlot \in [pc: PC, d: Delivery, n: Attempt, attempts: 0 .. MaxAttempts, ok: BOOLEAN]
<1>1. (CHOOSE d \in Delivery : TRUE) \in Delivery
  BY LimitsAssumption
<1> QED
  BY <1>1, LimitsAssumption DEF IdleSlot, PC, Calling, Attempt

\* What BullMQ makes of a job that stalls or throws is a job.
LEMMA JobTyped ==
    ASSUME NEW j \in Job
    PROVE  Requeue(j) \in Job /\ Retry(j) \in Job
<1>1. j.made + 1 \in Nat /\ j.stalls + 1 \in Nat
  BY DEF Job
<1>2. \A st \in JobState, k \in Nat : /\ [j EXCEPT !.state = st, !.stalls = k] \in Job
                                      /\ [j EXCEPT !.state = st, !.made = k] \in Job
  BY DEF Job
<1>3. /\ (IF j.stalls < MaxStalledCount THEN "waiting" ELSE "failed") \in JobState
      /\ (IF j.made + 1 < JobAttempts THEN "delayed" ELSE "failed") \in JobState
  BY DEF JobState
<1> QED
  BY <1>1, <1>2, <1>3 DEF Requeue, Retry

LEMMA InitChain == Init => ChainInv
<1> SUFFICES ASSUME Init PROVE ChainInv
  OBVIOUS
<1>0. 1 \in Attempt /\ 0 \in 0 .. MaxAttempts
  BY LimitsAssumption DEF Attempt
<1>1. [NoJob EXCEPT !.state = "waiting"] \in Job
  BY DEF NoJob, Job, JobState
<1>2. job \in [Delivery -> [Attempt -> Job]]
  BY <1>1, NoJobTyped DEF Init
<1>3. slot.pc = "idle" /\ slot = IdleSlot
  BY DEF Init, IdleSlot
<1>4. row \in [Delivery -> [status: {"pending", "sent", "failed"}, attempts: 0 .. MaxAttempts]]
  BY <1>0 DEF Init
<1>5. used \in [{"reject", "crash"} -> Nat]
  BY DEF Init
<1>6. TypeOK
  BY <1>2, <1>3, <1>4, <1>5, IdleSlotTyped DEF Init, TypeOK
<1>7. ChainEarned
  BY <1>0, LimitsAssumption DEF Init, ChainEarned, Attempt, NoJob
<1> QED
  BY <1>3, <1>6, <1>7 DEF ChainInv, SlotFits

\* What BullMQ does to a job keeps the chain: no job comes to be, and none that a
\* run works on is touched.
LEMMA QueueChain ==
    ASSUME ChainInv, NEW d \in Delivery, NEW n \in Attempt,
           Take(d, n) \/ Promote(d, n) \/ Stall(d, n)
    PROVE  ChainInv'
<1> USE DEF ChainInv, TypeOK, receiver
<1>0. job[d][n] \in Job /\ job[d][n].state # "none"
  BY DEF Take, Promote, Stall
<1>1. PICK j \in Job : job' = [job EXCEPT ![d][n] = j]
  <2>1. CASE Take(d, n)
    <3> DEFINE j == [job[d][n] EXCEPT !.state = "active"]
    <3>1. j \in Job
      BY <1>0 DEF Job, JobState
    <3> QED
      BY <2>1, <3>1 DEF Take
  <2>2. CASE Promote(d, n)
    <3> DEFINE j == [job[d][n] EXCEPT !.state = "waiting"]
    <3>1. j \in Job
      BY <1>0 DEF Job, JobState
    <3> QED
      BY <2>2, <3>1 DEF Promote
  <2>3. CASE Stall(d, n)
    BY <1>0, <2>3, JobTyped DEF Stall
  <2> QED
    BY <2>1, <2>2, <2>3
<1>2. /\ job' \in [Delivery -> [Attempt -> Job]] /\ job'[d][n] = j
      /\ \A e \in Delivery, m \in Attempt : e # d \/ m # n => job'[e][m] = job[e][m]
  BY <1>1
<1>3. UNCHANGED <<row, accepted, refused, torn, used>>
  BY DEF Take, Promote, Stall
<1>4. ChainEarned'
  BY <1>0, <1>2, <1>3 DEF ChainEarned
<1>5. CASE Take(d, n)
  <2>1. slot' = [IdleSlot EXCEPT !.pc = "find", !.d = d, !.n = n]
    BY <1>5 DEF Take
  <2>2. /\ slot' \in [pc: PC, d: Delivery, n: Attempt, attempts: 0 .. MaxAttempts, ok: BOOLEAN]
        /\ slot'.pc = "find" /\ slot'.d = d /\ slot'.n = n
    BY <2>1, IdleSlotTyped DEF PC, Calling
  <2>3. job'[d][n].state = "active"
    BY <1>0, <1>5 DEF Take, Job
  <2> QED
    BY <1>2, <1>3, <1>4, <2>2, <2>3 DEF SlotFits
<1>6. CASE ~Take(d, n)
  <2>1. slot' = slot /\ (slot.pc # "idle" => slot.d # d \/ slot.n # n)
    BY <1>6 DEF Promote, Stall, SlotFits
  <2> QED
    BY <1>2, <1>3, <1>4, <2>1 DEF SlotFits
<1> QED
  BY <1>5, <1>6

SlotType == [pc: PC, d: Delivery, n: Attempt, attempts: 0 .. MaxAttempts, ok: BOOLEAN]

\* The steps of a run that touch no job.
LEMMA RunChain ==
    ASSUME ChainInv,
           Find \/ (\E ok \in BOOLEAN : Post(ok)) \/ Record \/ MarkDeliveryFailed
               \/ MarkDeliveryRetrying \/ CallFails
    PROVE  ChainInv'
<1> USE DEF ChainInv, TypeOK, receiver, SlotType
<1>0. slot \in SlotType /\ slot.d \in Delivery /\ slot.n \in 1 .. MaxAttempts
  BY DEF Attempt
<1>1. CASE Find
  <2>1. /\ slot' = [slot EXCEPT !.pc = "post", !.attempts = row[slot.d].attempts]
        /\ row[slot.d].attempts \in 0 .. MaxAttempts
    BY <1>0, <1>1 DEF Find
  <2>2. slot' \in SlotType
    BY <1>0, <2>1 DEF PC
  <2> QED
    BY <1>0, <1>1, <2>1, <2>2 DEF Find, SlotFits, ChainEarned
<1>2. ASSUME NEW ok \in BOOLEAN, Post(ok) PROVE ChainInv'
  <2>1. /\ slot' = [slot EXCEPT !.pc = "record", !.ok = ok] /\ slot.pc = "post"
        /\ job[slot.d][slot.n].state = "active"
    BY <1>2 DEF Post, SlotFits
  <2>2. slot' \in SlotType /\ slot'.d = slot.d /\ slot'.n = slot.n /\ slot'.ok = ok
    BY <1>0, <2>1 DEF PC, Calling
  <2>3. /\ accepted' = [accepted EXCEPT ![slot.d] = IF ok THEN @ + 1 ELSE @]
        /\ refused' = [refused EXCEPT ![slot.d] = IF ok THEN @ ELSE @ + 1]
        /\ row' = row /\ job' = job /\ torn' = torn /\ used' = used
    BY <1>2 DEF Post
  <2>4. /\ accepted' \in [Delivery -> Nat] /\ refused' \in [Delivery -> Nat]
        /\ \A e \in Delivery : refused'[e] >= refused[e]
        /\ ok => accepted'[slot.d] > 0
        /\ ~ok => refused'[slot.d] = refused[slot.d] + 1
    BY <1>0, <2>3
  <2>5. ChainEarned'
    <3> SUFFICES ASSUME NEW e \in Delivery, NEW m \in Attempt, job[e][m].state # "none"
                 PROVE  refused'[e] >= m - 1
      BY <2>3 DEF ChainEarned
    <3>1. refused[e] >= m - 1 /\ refused[e] \in Nat /\ refused'[e] \in Nat /\ m \in Nat
      BY <2>4 DEF ChainEarned, Attempt
    <3> QED
      BY <2>4, <3>1
  <2>6. refused[slot.d] >= slot.n - 1
    BY <1>0, <2>1 DEF ChainEarned
  <2>7. ~ok => refused'[slot.d] >= slot.n
    BY <1>0, <2>4, <2>6
  <2> QED
    BY <1>0, <2>1, <2>2, <2>3, <2>4, <2>5, <2>7 DEF SlotFits
<1>3. CASE Record
  <2>1. /\ slot.pc = "record" /\ slot' = [slot EXCEPT !.pc = AfterRecord(slot)]
        /\ UNCHANGED <<job, accepted, refused, torn, used>>
    BY <1>3 DEF Record
  <2>2. /\ AfterRecord(slot) \in {"return", "fail", "retry"}
        /\ AfterRecord(slot) # "return" => ~slot.ok
        /\ AfterRecord(slot) = "retry" => slot.n < MaxAttempts
        /\ AfterRecord(slot) = "fail" => slot.n = MaxAttempts
    <3>1. CASE slot.ok
      BY <3>1 DEF AfterRecord
    <3>2. CASE ~slot.ok
      <4>1. slot.n >= MaxAttempts => slot.n = MaxAttempts
        BY <1>0, AttemptsEnd
      <4>2. slot.n >= MaxAttempts \/ slot.n < MaxAttempts
        BY <1>0, AttemptsEnd
      <4> QED
        BY <3>2, <4>1, <4>2 DEF AfterRecord
    <3> QED
      BY <3>1, <3>2
  <2>3. /\ slot' \in SlotType /\ slot'.d = slot.d /\ slot'.n = slot.n
        /\ slot'.pc = AfterRecord(slot)
    BY <1>0, <2>1, <2>2 DEF PC, Calling
  <2>4. row' \in [Delivery -> [status: {"pending", "sent", "failed"}, attempts: 0 .. MaxAttempts]]
    <3>1. Max2(slot.attempts, 1) \in 0 .. MaxAttempts
      BY <1>0, LimitsAssumption DEF Max2
    <3> QED
      BY <1>0, <1>3, <3>1 DEF Record, StoreAnswer
  <2> QED
    BY <2>1, <2>2, <2>3, <2>4 DEF SlotFits, ChainEarned
<1>4. CASE MarkDeliveryFailed
  <2>1. slot' \in SlotType /\ slot'.d = slot.d /\ slot'.n = slot.n /\ slot'.pc = "return"
    BY <1>0, <1>4 DEF MarkDeliveryFailed, PC
  <2>2. row' \in [Delivery -> [status: {"pending", "sent", "failed"}, attempts: 0 .. MaxAttempts]]
    BY <1>0, <1>4 DEF MarkDeliveryFailed, StoreFailed
  <2> QED
    BY <1>4, <2>1, <2>2 DEF MarkDeliveryFailed, SlotFits, ChainEarned
<1>5. CASE MarkDeliveryRetrying
  <2>1. slot' \in SlotType /\ slot'.d = slot.d /\ slot'.n = slot.n /\ slot'.pc = "enqueue"
    BY <1>0, <1>5 DEF MarkDeliveryRetrying, PC, Calling
  <2>2. slot.n + 1 \in 0 .. MaxAttempts
    BY <1>0, <1>5, LimitsAssumption DEF MarkDeliveryRetrying, SlotFits
  <2>3. row' \in [Delivery -> [status: {"pending", "sent", "failed"}, attempts: 0 .. MaxAttempts]]
    BY <1>0, <1>5, <2>2 DEF MarkDeliveryRetrying, StoreRetrying
  <2> QED
    BY <1>5, <2>1, <2>3 DEF MarkDeliveryRetrying, SlotFits, ChainEarned
<1>6. CASE CallFails
  <2>1. slot' \in SlotType /\ slot'.d = slot.d /\ slot'.n = slot.n /\ slot'.pc = "throw"
    BY <1>0, <1>6 DEF CallFails, Reject, PC
  <2>2. used' \in [{"reject", "crash"} -> Nat]
    BY <1>6 DEF CallFails, Reject
  <2>3. slot.pc # "idle"
    BY <1>6 DEF CallFails, Calling
  <2> QED
    BY <1>6, <2>1, <2>2, <2>3 DEF CallFails, SlotFits, ChainEarned
<1> QED
  BY <1>1, <1>2, <1>3, <1>4, <1>5, <1>6

\* The end of a run: its job is over, delayed or left to the stalled-job checker, and
\* the next one comes to be behind a refusal.
LEMMA EndChain ==
    ASSUME ChainInv, EnqueueNext \/ Settle \/ Crash
    PROVE  ChainInv'
<1> USE DEF ChainInv, TypeOK, receiver, SlotType
<1>0. slot \in SlotType /\ slot.d \in Delivery /\ slot.n \in 1 .. MaxAttempts
  BY DEF Attempt
<1>1. CASE EnqueueNext
  <2>1. /\ slot' \in SlotType /\ slot'.d = slot.d /\ slot'.n = slot.n /\ slot'.pc = "return"
        /\ UNCHANGED <<row, accepted, refused, torn, used>>
    BY <1>0, <1>1 DEF EnqueueNext, AfterEnqueue, PC
  <2>2. /\ slot.n + 1 \in Attempt /\ refused[slot.d] >= slot.n
        /\ job[slot.d][slot.n].state = "active"
    BY <1>0, <1>1, LimitsAssumption DEF EnqueueNext, SlotFits, Attempt
  <2>3. [NoJob EXCEPT !.state = "delayed"] \in Job
    BY DEF NoJob, Job, JobState
  <2>4. /\ job' \in [Delivery -> [Attempt -> Job]]
        /\ \A e \in Delivery, m \in Attempt :
              e # slot.d \/ m # slot.n + 1 => job'[e][m] = job[e][m]
    <3>1. CASE job' = job
      BY <3>1
    <3>2. CASE job' # job
      BY <1>0, <1>1, <2>2, <2>3, <3>2 DEF EnqueueNext, AddNext
    <3> QED
      BY <3>1, <3>2
  <2>5. ChainEarned'
    <3> SUFFICES ASSUME NEW e \in Delivery, NEW m \in Attempt, job'[e][m].state # "none"
                 PROVE  refused[e] >= m - 1
      BY <2>1 DEF ChainEarned
    <3>1. CASE e # slot.d \/ m # slot.n + 1
      BY <2>4, <3>1 DEF ChainEarned
    <3>2. CASE e = slot.d /\ m = slot.n + 1
      BY <1>0, <2>2, <3>2
    <3> QED
      BY <3>1, <3>2
  <2>6. job'[slot.d][slot.n].state = "active"
    <3>1. slot.n # slot.n + 1 /\ slot.n \in Attempt
      BY <1>0
    <3> QED
      BY <1>0, <2>2, <2>4, <3>1
  <2> QED
    BY <2>1, <2>4, <2>5, <2>6 DEF SlotFits
<1>2. CASE Settle
  <2>1. slot' = IdleSlot /\ slot'.pc = "idle" /\ UNCHANGED <<row, accepted, refused, torn, used>>
    BY <1>2 DEF Settle, IdleSlot
  <2>2. PICK j \in Job : job' = [job EXCEPT ![slot.d][slot.n] = j]
    <3>1. job[slot.d][slot.n] \in Job
      BY <1>0
    <3>2. (IF slot.pc = "return" THEN NoJob ELSE Retry(job[slot.d][slot.n])) \in Job
      BY <3>1, NoJobTyped, JobTyped
    <3> QED
      BY <1>2, <3>2 DEF Settle
  <2>3. /\ job' \in [Delivery -> [Attempt -> Job]]
        /\ \A e \in Delivery, m \in Attempt :
              e # slot.d \/ m # slot.n => job'[e][m] = job[e][m]
    BY <2>2
  <2>4. job[slot.d][slot.n].state # "none"
    BY <1>2 DEF Settle, SlotFits
  <2>5. ChainEarned'
    <3> SUFFICES ASSUME NEW e \in Delivery, NEW m \in Attempt, job'[e][m].state # "none"
                 PROVE  refused[e] >= m - 1
      BY <2>1 DEF ChainEarned
    <3>1. job[e][m].state # "none"
      BY <2>3, <2>4
    <3> QED
      BY <3>1 DEF ChainEarned
  <2> QED
    BY <2>1, <2>3, <2>5, IdleSlotTyped DEF SlotFits
<1>3. CASE Crash
  <2>1. slot' = IdleSlot /\ slot'.pc = "idle" /\ UNCHANGED <<row, job, accepted, refused>>
    BY <1>3 DEF Crash, IdleSlot
  <2>2. used' \in [{"reject", "crash"} -> Nat] /\ torn' \subseteq Delivery
    BY <1>0, <1>3 DEF Crash
  <2> QED
    BY <2>1, <2>2, IdleSlotTyped DEF SlotFits, ChainEarned
<1> QED
  BY <1>1, <1>2, <1>3

\* What a call whose answer is lost does: that of the run it belongs to, which throws.
LEMMA LostIs ==
    ASSUME ChainInv, AnswerLost
    PROVE  /\ slot.pc \in {"record", "fail", "retry", "enqueue"}
           /\ slot.d \in Delivery /\ slot.n \in Attempt
           /\ job[slot.d][slot.n].state = "active"
           /\ slot' = [slot EXCEPT !.pc = "throw"]
           /\ slot'.pc = "throw" /\ slot'.d = slot.d /\ slot'.n = slot.n
           /\ used["reject"] < MaxRejects /\ used' \in [{"reject", "crash"} -> Nat]
           /\ used'["reject"] = used["reject"] + 1 /\ used'["crash"] = used["crash"]
           /\ accepted' = accepted /\ refused' = refused
           /\ torn' = IF slot.pc = "enqueue" \/ (slot.pc = "record" /\ slot.ok)
                      THEN torn \cup {slot.d} ELSE torn
           /\ slot.pc # "enqueue" => job' = job
           /\ slot.pc = "enqueue" => row' = row
           /\ \A e \in Delivery : e # slot.d => row'[e] = row[e]
<1> USE DEF ChainInv, TypeOK
<1>1. /\ slot.pc \in {"record", "fail", "retry", "enqueue"}
      /\ slot.d \in Delivery /\ slot.n \in Attempt
      /\ slot' = [slot EXCEPT !.pc = "throw"]
      /\ used["reject"] < MaxRejects /\ used' = [used EXCEPT !["reject"] = @ + 1]
  BY DEF AnswerLost, Reject
<1>2. slot'.pc = "throw" /\ slot'.d = slot.d /\ slot'.n = slot.n
  BY <1>1
<1>3. job[slot.d][slot.n].state = "active"
  BY <1>1 DEF SlotFits
<1>4. /\ used' \in [{"reject", "crash"} -> Nat]
      /\ used'["reject"] = used["reject"] + 1 /\ used'["crash"] = used["crash"]
  BY <1>1
<1>5. /\ slot.pc # "enqueue" => job' = job
      /\ slot.pc = "enqueue" => row' = row
      /\ \A e \in Delivery : e # slot.d => row'[e] = row[e]
  BY <1>1 DEF AnswerLost, StoreAnswer, StoreFailed, StoreRetrying
<1> QED
  BY <1>1, <1>2, <1>3, <1>4, <1>5 DEF AnswerLost

\* What Queue.add does to the job of the next attempt, and to no other.
LEMMA Added ==
    ASSUME ChainInv, slot.pc = "enqueue", AddNext
    PROVE  /\ slot.n + 1 \in Attempt /\ refused[slot.d] >= slot.n
           /\ job' \in [Delivery -> [Attempt -> Job]]
           /\ \A e \in Delivery, m \in Attempt :
                 e # slot.d \/ m # slot.n + 1 => job'[e][m] = job[e][m]
           /\ job[slot.d][slot.n + 1].state # "none" => job' = job
           /\ job[slot.d][slot.n + 1].state = "none" =>
                 job'[slot.d][slot.n + 1] = [NoJob EXCEPT !.state = "delayed"]
<1> USE DEF ChainInv, TypeOK
<1>1. slot.d \in Delivery /\ slot.n + 1 \in Attempt /\ refused[slot.d] >= slot.n
  BY NextAttempt DEF SlotFits
<1>2. [NoJob EXCEPT !.state = "delayed"] \in Job
  BY DEF NoJob, Job, JobState
<1>3. CASE job[slot.d][slot.n + 1].state # "none"
  BY <1>1, <1>3 DEF AddNext
<1>4. CASE job[slot.d][slot.n + 1].state = "none"
  BY <1>1, <1>2, <1>4 DEF AddNext
<1> QED
  BY <1>1, <1>3, <1>4

LEMMA LostChain ==
    ASSUME ChainInv, AnswerLost
    PROVE  ChainInv'
<1> USE DEF ChainInv, TypeOK, SlotType
<1>1. slot' \in SlotType /\ torn' \subseteq Delivery
  BY LostIs DEF PC
<1>2. row' \in [Delivery -> [status: {"pending", "sent", "failed"}, attempts: 0 .. MaxAttempts]]
  <2>1. CASE slot.pc = "record"
    <3>1. Max2(slot.attempts, 1) \in 0 .. MaxAttempts
      BY LimitsAssumption DEF Max2
    <3> QED
      BY <2>1, <3>1, LostIs DEF AnswerLost, StoreAnswer
  <2>2. CASE slot.pc = "fail"
    BY <2>2, LostIs DEF AnswerLost, StoreFailed
  <2>3. CASE slot.pc = "retry"
    <3>1. slot.n + 1 \in 0 .. MaxAttempts
      BY <2>3, NextAttempt DEF SlotFits, Attempt
    <3> QED
      BY <2>3, <3>1, LostIs DEF AnswerLost, StoreRetrying
  <2>4. CASE slot.pc = "enqueue"
    BY <2>4, LostIs
  <2> QED
    BY <2>1, <2>2, <2>3, <2>4, LostIs
<1>3. CASE slot.pc # "enqueue"
  <2>1. job' = job /\ refused' = refused
    BY <1>3, LostIs
  <2> QED
    BY <1>1, <1>2, <2>1, LostIs DEF SlotFits, ChainEarned
<1>4. CASE slot.pc = "enqueue"
  <2>0. AddNext
    BY <1>4 DEF AnswerLost
  <2>1. /\ job' \in [Delivery -> [Attempt -> Job]]
        /\ job'[slot.d][slot.n] = job[slot.d][slot.n]
    <3>1. slot.n # slot.n + 1
      BY DEF Attempt
    <3> QED
      BY <1>4, <2>0, <3>1, Added, LostIs
  <2>2. ChainEarned'
    <3> SUFFICES ASSUME NEW e \in Delivery, NEW m \in Attempt, job'[e][m].state # "none"
                 PROVE  refused[e] >= m - 1
      BY LostIs DEF ChainEarned
    <3>1. CASE e # slot.d \/ m # slot.n + 1
      BY <1>4, <2>0, <3>1, Added DEF ChainEarned
    <3>2. CASE e = slot.d /\ m = slot.n + 1
      BY <1>4, <2>0, <3>2, Added DEF Attempt
    <3> QED
      BY <3>1, <3>2
  <2> QED
    BY <1>1, <1>2, <2>1, <2>2, LostIs DEF SlotFits
<1> QED
  BY <1>3, <1>4

LEMMA NextChain == ChainInv /\ [Next]_vars => ChainInv'
<1> SUFFICES ASSUME ChainInv, [Next]_vars PROVE ChainInv'
  OBVIOUS
<1>1. CASE UNCHANGED vars
  BY <1>1 DEF vars, receiver, ChainInv, TypeOK, SlotFits, ChainEarned
<1> QED
  BY <1>1, QueueChain, RunChain, EndChain, LostChain DEF Next, Process

\* Every variable of the delivery has its type, in every instance.
THEOREM TypeCorrect == Spec => []TypeOK
BY InitChain, NextChain, PTL DEF Spec, ChainInv

\* The job of attempt n exists only after n - 1 refusals, however crashes, failed
\* calls and stalls make jobs of one delivery run beside each other
\* (webhook-delivery.processor.ts:31-46).
THEOREM ChainIsEarned == Spec => []ChainEarned
BY InitChain, NextChain, PTL DEF Spec, ChainInv

-----------------------------------------------------------------------------
(* The number of POSTs *)

LEMMA AttemptsCounted ==
    ASSUME NEW n \in Attempt, NEW S \in SUBSET Attempt
    PROVE  /\ IsFiniteSet(S) /\ IsFiniteSet({n} \X S)
           /\ Cardinality(S) \in Nat /\ Cardinality(S) <= MaxAttempts
           /\ Cardinality({n} \X S) = Cardinality(S)
<1>1. IsFiniteSet(Attempt) /\ Cardinality(Attempt) = MaxAttempts
  <2>1. 1 \in Int /\ MaxAttempts \in Int /\ MaxAttempts >= 1
    BY LimitsAssumption
  <2>2. /\ IsFiniteSet(1 .. MaxAttempts)
        /\ Cardinality(1 .. MaxAttempts) = IF 1 > MaxAttempts THEN 0 ELSE MaxAttempts - 1 + 1
    BY <2>1, FS_Interval
  <2> QED
    BY <2>1, <2>2 DEF Attempt
<1>2. IsFiniteSet(S) /\ Cardinality(S) \in Nat /\ Cardinality(S) <= MaxAttempts
  BY <1>1, FS_Subset, FS_CardinalityType
<1>3. IsFiniteSet({n}) /\ Cardinality({n}) = 1
  BY FS_Singleton
<1>4. IsFiniteSet({n} \X S) /\ Cardinality({n} \X S) = 1 * Cardinality(S)
  BY <1>2, <1>3, FS_Product
<1> QED
  BY <1>2, <1>4

LEMMA OwedCounted ==
    ASSUME NEW S \in SUBSET (Attempt \X Attempt)
    PROVE  IsFiniteSet(S) /\ Cardinality(S) \in Nat
<1>1. IsFiniteSet(Attempt)
  BY LimitsAssumption, FS_Interval DEF Attempt
<1>2. IsFiniteSet(Attempt \X Attempt)
  BY <1>1, FS_Product
<1> QED
  BY <1>2, FS_Subset, FS_CardinalityType

LEMMA FirstTyped ==
    \A d \in Delivery, n \in Attempt : First(d, n) \in Nat /\ First(d, n)' \in Nat
<1> SUFFICES ASSUME NEW d \in Delivery, NEW n \in Attempt
             PROVE  First(d, n) \in Nat /\ First(d, n)' \in Nat
  OBVIOUS
<1>1. n \in Nat /\ n + 1 \in Nat /\ MaxAttempts + 1 \in Nat
  BY LimitsAssumption DEF Attempt
<1>2. First(d, n) \in {n, n + 1, MaxAttempts + 1}
  BY DEF First
<1>3. First(d, n)' \in {n, n + 1, MaxAttempts + 1}
  BY DEF First
<1> QED
  BY <1>1, <1>2, <1>3

\* Who starts later POSTs less.
LEMMA OwedShrinks ==
    ASSUME NEW d \in Delivery, \A n \in Attempt : First(d, n)' >= First(d, n)
    PROVE  Owed(d)' \subseteq Owed(d)
<1> SUFFICES ASSUME NEW n \in Attempt, NEW k \in Attempt, First(d, n)' <= k
             PROVE  First(d, n) <= k
  BY DEF Owed
<1> QED
  BY FirstTyped DEF Attempt

\* The accounts after a step that POSTs nothing and lets no job start earlier.
LEMMA PaidKept ==
    ASSUME TypeOK, Paid, accepted' = accepted, refused' = refused, used' = used,
           \A d \in Delivery, n \in Attempt : First(d, n)' >= First(d, n)
    PROVE  Paid'
<1> SUFFICES ASSUME NEW d \in Delivery
             PROVE  accepted[d] + refused[d] + Cardinality(Owed(d)')
                        <= MaxAttempts * (1 + Faults)
  BY DEF Paid, Faults
<1>1. Owed(d)' \subseteq Owed(d)
  BY OwedShrinks
<1>2. Owed(d) \in SUBSET (Attempt \X Attempt)
  BY DEF Owed
<1>3. /\ Cardinality(Owed(d)') \in Nat /\ Cardinality(Owed(d)) \in Nat
      /\ Cardinality(Owed(d)') <= Cardinality(Owed(d))
  BY <1>1, <1>2, OwedCounted, FS_Subset
<1>4. MaxAttempts * (1 + Faults) \in Nat
  BY LimitsAssumption DEF Faults, TypeOK
<1> QED
  BY <1>3, <1>4 DEF Paid, TypeOK

Listed(f) == {f[k] : k \in Attempt}

\* A list of POSTs, one for each attempt, names at most MaxAttempts of them.
LEMMA ListedCounted ==
    ASSUME NEW f \in [Attempt -> Attempt \X Attempt]
    PROVE  /\ IsFiniteSet(Listed(f)) /\ Cardinality(Listed(f)) \in Nat
           /\ Cardinality(Listed(f)) <= MaxAttempts
<1>1. Listed(f) \in SUBSET (Attempt \X Attempt)
  BY DEF Listed
<1>2. f \in Surjection(1 .. MaxAttempts, Listed(f))
  BY DEF Surjection, Listed, Attempt
<1>3. ExistsSurjection(1 .. MaxAttempts, Listed(f))
  BY <1>2 DEF ExistsSurjection
<1>4. MaxAttempts \in Nat
  BY LimitsAssumption
<1> HIDE DEF Listed
<1> QED
  BY <1>1, <1>3, <1>4, OwedCounted, FS_SurjCardinalityBound

\* A fault pays for the POSTs it makes the jobs owe again, a list of one for each
\* attempt.
LEMMA FaultPays ==
    ASSUME TypeOK, TypeOK', Paid, accepted' = accepted, refused' = refused,
           Faults' = Faults + 1, NEW f \in [Attempt -> Attempt \X Attempt],
           \A d \in Delivery : Owed(d)' \subseteq Owed(d) \cup Listed(f)
    PROVE  Paid'
<1> SUFFICES ASSUME NEW d \in Delivery
             PROVE  accepted[d] + refused[d] + Cardinality(Owed(d)')
                        <= MaxAttempts * (1 + Faults')
  BY DEF Paid
<1>1. Owed(d)' \subseteq Owed(d) \cup Listed(f)
  OBVIOUS
<1>2. Owed(d) \in SUBSET (Attempt \X Attempt) /\ Owed(d)' \in SUBSET (Attempt \X Attempt)
  BY DEF Owed
<1>3. /\ IsFiniteSet(Listed(f)) /\ Cardinality(Listed(f)) \in Nat
      /\ Cardinality(Listed(f)) <= MaxAttempts
  BY ListedCounted
<1> HIDE DEF Listed
<1>4. /\ IsFiniteSet(Owed(d)) /\ Cardinality(Owed(d)) \in Nat
      /\ Cardinality(Owed(d)') \in Nat
  BY <1>2, OwedCounted
<1>5. /\ IsFiniteSet(Owed(d) \cup Listed(f))
      /\ Cardinality(Owed(d) \cup Listed(f))
             <= Cardinality(Owed(d)) + Cardinality(Listed(f))
  <2>1. /\ IsFiniteSet(Owed(d) \cap Listed(f))
        /\ Cardinality(Owed(d) \cap Listed(f)) \in Nat
    BY <1>4, FS_Intersection, FS_CardinalityType
  <2>2. /\ IsFiniteSet(Owed(d) \cup Listed(f))
        /\ Cardinality(Owed(d) \cup Listed(f)) =
              Cardinality(Owed(d)) + Cardinality(Listed(f))
                  - Cardinality(Owed(d) \cap Listed(f))
    BY <1>3, <1>4, FS_Union
  <2> QED
    BY <1>3, <1>4, <2>1, <2>2
<1>6. Cardinality(Owed(d)') <= Cardinality(Owed(d)) + MaxAttempts
  <2>1. Cardinality(Owed(d)') <= Cardinality(Owed(d) \cup Listed(f))
    BY <1>1, <1>5, FS_Subset
  <2>2. Cardinality(Owed(d) \cup Listed(f)) \in Nat
    BY <1>5, FS_CardinalityType
  <2> QED
    BY <1>3, <1>4, <1>5, <2>1, <2>2, LimitsAssumption
<1>7. /\ MaxAttempts * (1 + Faults') = MaxAttempts * (1 + Faults) + MaxAttempts
      /\ MaxAttempts * (1 + Faults) \in Nat
  <2>1. \A m, k \in Nat : m * (1 + (k + 1)) = m * (1 + k) + m /\ m * (1 + k) \in Nat
    OBVIOUS
  <2>2. Faults \in Nat /\ MaxAttempts \in Nat
    BY LimitsAssumption DEF Faults, TypeOK
  <2> QED
    BY <2>1, <2>2
<1> QED
  BY <1>4, <1>6, <1>7, LimitsAssumption DEF Paid, TypeOK

\* Deliveries and attempts a step of the run leaves alone POST what they did before.
LEMMA FirstOfOthers ==
    ASSUME NEW d \in Delivery, NEW n \in Attempt, job'[d][n] = job[d][n],
           On(d, n)' <=> On(d, n), On(d, n) => slot'.pc = slot.pc
    PROVE  First(d, n)' = First(d, n)
BY DEF First

\* Outside of faults a run only ever has less to POST.
LEMMA QueuePays ==
    ASSUME ChainInv, Paid, NEW d \in Delivery, NEW n \in Attempt,
           Take(d, n) \/ Promote(d, n) \/ Stall(d, n)
    PROVE  Paid'
<1> USE DEF ChainInv, TypeOK, receiver
<1>0. /\ accepted' = accepted /\ refused' = refused /\ used' = used
      /\ job[d][n].state \notin {"none", "failed"} /\ ~On(d, n)
  BY DEF Take, Promote, Stall, On, SlotFits
<1>1. \A e \in Delivery, m \in Attempt : e # d \/ m # n =>
          job'[e][m] = job[e][m] /\ (On(e, m)' <=> On(e, m)) /\ (On(e, m) => slot' = slot)
  <2>1. \A e \in Delivery, m \in Attempt : e # d \/ m # n => job'[e][m] = job[e][m]
    <3>1. PICK j : job' = [job EXCEPT ![d][n] = j]
      BY DEF Take, Promote, Stall
    <3> QED
      BY <3>1
  <2>2. CASE Take(d, n)
    <3>1. slot.pc = "idle" /\ slot' = [IdleSlot EXCEPT !.pc = "find", !.d = d, !.n = n]
      BY <2>2 DEF Take
    <3>2. slot'.d = d /\ slot'.n = n
      BY <3>1, IdleSlotTyped
    <3> QED
      BY <2>1, <3>1, <3>2 DEF On
  <2>3. CASE Promote(d, n) \/ Stall(d, n)
    BY <2>1, <2>3 DEF Promote, Stall, On
  <2> QED
    BY <2>2, <2>3
<1>2. First(d, n) = n
  BY <1>0 DEF First
<1>3. First(d, n)' >= n
  <2>1. On(d, n)' => slot'.pc = "find"
    <3>1. CASE Take(d, n)
      BY <3>1 DEF Take, IdleSlot
    <3>2. CASE Promote(d, n) \/ Stall(d, n)
      BY <1>0, <3>2 DEF Promote, Stall, On
    <3> QED
      BY <3>1, <3>2
  <2>2. First(d, n)' \in {n, MaxAttempts + 1}
    BY <2>1 DEF First
  <2> QED
    BY <2>2, LimitsAssumption DEF Attempt
<1>4. \A e \in Delivery, m \in Attempt : First(e, m)' >= First(e, m)
  BY <1>1, <1>2, <1>3, FirstOfOthers, FirstTyped
<1> QED
  BY <1>0, <1>4, PaidKept

\* The steps of a run, other than the POST, that leave the jobs alone.
LEMMA RunPays ==
    ASSUME ChainInv, Paid, Find \/ Record \/ MarkDeliveryFailed \/ MarkDeliveryRetrying
    PROVE  Paid'
<1> USE DEF ChainInv, TypeOK, receiver
<1>0. /\ accepted' = accepted /\ refused' = refused /\ used' = used /\ job' = job
      /\ slot.pc # "idle" /\ slot'.pc # "idle" /\ slot'.d = slot.d /\ slot'.n = slot.n
      /\ slot.d \in Delivery /\ slot.n \in Attempt
      /\ \/ slot.pc = "find" /\ slot'.pc = "post"
         \/ slot.pc \in {"record", "fail", "retry"} /\ slot'.pc \notin {"find", "post", "throw"}
  BY DEF Find, Record, MarkDeliveryFailed, MarkDeliveryRetrying, AfterRecord
<1>1. ASSUME NEW e \in Delivery, NEW m \in Attempt PROVE First(e, m)' >= First(e, m)
  <2>1. On(e, m)' <=> On(e, m)
    BY <1>0 DEF On
  <2>2. CASE ~On(e, m)
    BY <1>0, <2>1, <2>2, FirstOfOthers, FirstTyped
  <2>3. CASE On(e, m) /\ slot.pc = "find"
    <3>1. First(e, m)' = First(e, m)
      BY <1>0, <2>1, <2>3 DEF First
    <3> QED
      BY <3>1, FirstTyped
  <2>4. CASE On(e, m) /\ slot.pc \in {"record", "fail", "retry"}
    <3>1. job[e][m].state = "active"
      BY <2>4 DEF On, SlotFits
    <3>2. First(e, m) = m + 1
      BY <2>4, <3>1 DEF First
    <3>3. First(e, m)' \in {m + 1, MaxAttempts + 1}
      BY <1>0, <2>1, <2>4 DEF First
    <3> QED
      BY <3>2, <3>3, LimitsAssumption DEF Attempt
  <2> QED
    BY <1>0, <2>2, <2>3, <2>4
<1> QED
  BY <1>0, <1>1, PaidKept

\* A POST is what its run owed first.
LEMMA PostPays ==
    ASSUME ChainInv, Paid, NEW ok \in BOOLEAN, Post(ok),
           NEW d \in Delivery, NEW n \in Attempt, slot.d = d, slot.n = n
    PROVE  Paid'
<1> USE DEF ChainInv, TypeOK, receiver
<1>0. /\ job' = job /\ used' = used
      /\ slot.pc = "post" /\ slot'.pc = "record" /\ slot'.d = d /\ slot'.n = n
      /\ job[d][n].state = "active"
  BY DEF Post, SlotFits
<1>1. \A e \in Delivery, m \in Attempt : e # d \/ m # n => First(e, m)' = First(e, m)
  <2> SUFFICES ASSUME NEW e \in Delivery, NEW m \in Attempt, e # d \/ m # n
               PROVE  First(e, m)' = First(e, m)
    OBVIOUS
  <2>1. ~On(e, m) /\ ~On(e, m)'
    BY <1>0 DEF On
  <2> QED
    BY <1>0, <2>1, FirstOfOthers
<1>2. First(d, n) = n /\ First(d, n)' = n + 1
  <2>1. On(d, n) /\ On(d, n)'
    BY <1>0 DEF On
  <2> QED
    BY <1>0, <2>1 DEF First
<1>3. /\ \A e \in Delivery : e # d => accepted'[e] = accepted[e] /\ refused'[e] = refused[e]
      /\ accepted'[d] + refused'[d] = accepted[d] + refused[d] + 1
  BY <1>0 DEF Post
<1>4. <<n, n>> \in Owed(d) /\ Owed(d)' \subseteq Owed(d) \ {<<n, n>>}
  <2>1. <<n, n>> \in Owed(d)
    BY <1>0, <1>2 DEF Owed, Attempt
  <2>2. ASSUME NEW m \in Attempt, NEW k \in Attempt, First(d, m)' <= k
        PROVE  First(d, m) <= k /\ <<m, k>> # <<n, n>>
    <3>1. CASE m = n
      BY <1>2, <2>2, <3>1 DEF Attempt
    <3>2. CASE m # n
      BY <1>0, <1>1, <2>2, <3>2
    <3> QED
      BY <3>1, <3>2
  <2> QED
    BY <2>1, <2>2 DEF Owed
<1>5. Cardinality(Owed(d)') <= Cardinality(Owed(d)) - 1
  <2>1. Owed(d) \in SUBSET (Attempt \X Attempt)
    BY DEF Owed
  <2>2. IsFiniteSet(Owed(d)) /\ Cardinality(Owed(d)) \in Nat
    BY <2>1, OwedCounted
  <2>3. /\ IsFiniteSet(Owed(d) \ {<<n, n>>})
        /\ Cardinality(Owed(d) \ {<<n, n>>}) = Cardinality(Owed(d)) - 1
    BY <1>4, <2>2, FS_RemoveElement
  <2> QED
    BY <1>4, <2>2, <2>3, FS_Subset
<1>6. \A e \in Delivery : e # d => Owed(e)' = Owed(e)
  BY <1>1 DEF Owed
<1>7. \A e \in Delivery : Cardinality(Owed(e)) \in Nat /\ Cardinality(Owed(e)') \in Nat
  BY OwedCounted DEF Owed
<1>8. MaxAttempts * (1 + Faults) \in Nat /\ Faults' = Faults
  BY <1>0, LimitsAssumption DEF Faults
<1> SUFFICES ASSUME NEW e \in Delivery
             PROVE  accepted'[e] + refused'[e] + Cardinality(Owed(e)')
                        <= MaxAttempts * (1 + Faults)
  BY <1>8 DEF Paid
<1>9. CASE e = d
  BY <1>0, <1>3, <1>5, <1>7, <1>8, <1>9 DEF Paid
<1>10. CASE e # d
  BY <1>3, <1>6, <1>10 DEF Paid
<1> QED
  BY <1>9, <1>10

\* The job of the next attempt takes over what the run still owed.
LEMMA EnqueuePays ==
    ASSUME ChainInv, Paid, EnqueueNext, NEW d \in Delivery, NEW n \in Attempt,
           slot.d = d, slot.n = n
    PROVE  Paid'
<1> USE DEF ChainInv, TypeOK, receiver
<1>0. /\ accepted' = accepted /\ refused' = refused /\ used' = used /\ AddNext
      /\ slot.pc = "enqueue" /\ slot'.pc = "return" /\ slot'.d = d /\ slot'.n = n
      /\ job[d][n].state = "active" /\ n + 1 \in Attempt /\ n \in 1 .. MaxAttempts
  BY LimitsAssumption DEF EnqueueNext, AfterEnqueue, SlotFits, Attempt
<1>1. /\ \A e \in Delivery, m \in Attempt : e # d \/ m # n + 1 => job'[e][m] = job[e][m]
      /\ job[d][n + 1].state # "none" => job' = job
  BY <1>0, Added
<1>2. \A e \in Delivery, m \in Attempt :
          e # d \/ (m # n /\ m # n + 1) => First(e, m)' = First(e, m)
  <2> SUFFICES ASSUME NEW e \in Delivery, NEW m \in Attempt,
                      e # d \/ (m # n /\ m # n + 1)
               PROVE  First(e, m)' = First(e, m)
    OBVIOUS
  <2>1. ~On(e, m) /\ ~On(e, m)'
    BY <1>0 DEF On
  <2> QED
    BY <1>1, <2>1, FirstOfOthers
<1>3. First(d, n) = n + 1 /\ First(d, n)' = MaxAttempts + 1
  <2>1. On(d, n) /\ On(d, n)'
    BY <1>0 DEF On
  <2>2. job'[d][n].state = "active"
    BY <1>0, <1>1
  <2> QED
    BY <1>0, <2>1, <2>2 DEF First
<1>4. ~On(d, n + 1) /\ ~On(d, n + 1)'
  BY <1>0 DEF On
<1>5. CASE job[d][n + 1].state # "none"
  <2>1. First(d, n + 1)' = First(d, n + 1)
    BY <1>0, <1>1, <1>4, <1>5, FirstOfOthers
  <2>2. First(d, n)' >= First(d, n)
    BY <1>0, <1>3, LimitsAssumption
  <2>3. \A e \in Delivery, m \in Attempt : First(e, m)' >= First(e, m)
    BY <1>2, <2>1, <2>2, FirstTyped
  <2> QED
    BY <1>0, <2>3, PaidKept
<1>6. CASE job[d][n + 1].state = "none"
  <2> DEFINE rest == {k \in Attempt : k >= n + 1}
             old == {n} \X rest
             new == {n + 1} \X rest
  <2>1. First(d, n + 1)' >= n + 1
    <3>1. First(d, n + 1)' \in {n + 1, MaxAttempts + 1}
      BY <1>4 DEF First
    <3> QED
      BY <1>0, <3>1, LimitsAssumption DEF Attempt
  <2>2. /\ IsFiniteSet(old) /\ IsFiniteSet(new)
        /\ Cardinality(old) \in Nat /\ Cardinality(new) = Cardinality(old)
    <3>1. rest \in SUBSET Attempt
      OBVIOUS
    <3> HIDE DEF rest
    <3> QED
      BY <1>0, <3>1, AttemptsCounted
  <2>3. Owed(d) \in SUBSET (Attempt \X Attempt) /\ Owed(d)' \in SUBSET (Attempt \X Attempt)
    BY DEF Owed
  <2>4. /\ IsFiniteSet(Owed(d)) /\ Cardinality(Owed(d)) \in Nat
        /\ Cardinality(Owed(d)') \in Nat
    BY <2>3, OwedCounted
  <2>5. old \subseteq Owed(d)
    BY <1>3 DEF Owed
  <2>6. Owed(d)' \subseteq (Owed(d) \ old) \cup new
    <3> SUFFICES ASSUME NEW m \in Attempt, NEW k \in Attempt, First(d, m)' <= k
                 PROVE  \/ First(d, m) <= k /\ m # n
                        \/ m = n + 1 /\ k >= n + 1
      BY DEF Owed
    <3>1. CASE m = n
      BY <1>0, <1>3, <3>1, LimitsAssumption DEF Attempt
    <3>2. CASE m = n + 1
      BY <1>0, <2>1, <3>2, FirstTyped DEF Attempt
    <3>3. CASE m # n /\ m # n + 1
      BY <1>2, <3>3
    <3> QED
      BY <3>1, <3>2, <3>3
  <2> HIDE DEF old, new
  <2>7. /\ IsFiniteSet(Owed(d) \ old) /\ Cardinality(Owed(d) \ old) \in Nat
        /\ Cardinality(Owed(d)) = Cardinality(Owed(d) \ old) + Cardinality(old)
    <3>1. IsFiniteSet(Owed(d) \ old) /\ Cardinality(Owed(d) \ old) \in Nat
      BY <2>3, <2>4, FS_Subset, FS_CardinalityType
    <3>2. Owed(d) = (Owed(d) \ old) \cup old /\ (Owed(d) \ old) \cap old = {}
      BY <2>5
    <3>3. Cardinality((Owed(d) \ old) \cup old) =
              Cardinality(Owed(d) \ old) + Cardinality(old)
                  - Cardinality((Owed(d) \ old) \cap old)
      BY <2>2, <3>1, FS_Union
    <3>4. Cardinality((Owed(d) \ old) \cap old) = 0
      BY <3>2, FS_EmptySet
    <3>5. Cardinality(Owed(d)) = Cardinality((Owed(d) \ old) \cup old)
      BY <3>2
    <3> QED
      BY <2>2, <3>1, <3>3, <3>4, <3>5
  <2>8. Cardinality(Owed(d)') <= Cardinality(Owed(d))
    <3>1. /\ IsFiniteSet((Owed(d) \ old) \cap new)
          /\ Cardinality((Owed(d) \ old) \cap new) \in Nat
      BY <2>7, FS_Intersection, FS_CardinalityType
    <3>2. /\ IsFiniteSet((Owed(d) \ old) \cup new)
          /\ Cardinality((Owed(d) \ old) \cup new) =
                Cardinality(Owed(d) \ old) + Cardinality(new)
                    - Cardinality((Owed(d) \ old) \cap new)
      BY <2>2, <2>7, FS_Union
    <3>3. Cardinality(Owed(d)') <= Cardinality((Owed(d) \ old) \cup new)
      BY <2>6, <3>2, FS_Subset
    <3> QED
      BY <2>2, <2>4, <2>7, <3>1, <3>2, <3>3
  <2>9. \A e \in Delivery : e # d => Owed(e)' = Owed(e)
    BY <1>2 DEF Owed
  <2>10. MaxAttempts * (1 + Faults) \in Nat /\ Faults' = Faults
    BY <1>0, LimitsAssumption DEF Faults
  <2> SUFFICES ASSUME NEW e \in Delivery
               PROVE  accepted[e] + refused[e] + Cardinality(Owed(e)')
                          <= MaxAttempts * (1 + Faults)
    BY <1>0, <2>10 DEF Paid
  <2>11. CASE e = d
    BY <2>4, <2>8, <2>10, <2>11 DEF Paid
  <2>12. CASE e # d
    BY <2>9, <2>12 DEF Paid
  <2> QED
    BY <2>11, <2>12
<1> QED
  BY <1>5, <1>6

\* A run that returned owes nothing, and one that threw owed what its job owes.
LEMMA SettlePays ==
    ASSUME ChainInv, Paid, Settle, NEW d \in Delivery, NEW n \in Attempt,
           slot.d = d, slot.n = n
    PROVE  Paid'
<1> USE DEF ChainInv, TypeOK, receiver
<1>0. /\ accepted' = accepted /\ refused' = refused /\ used' = used
      /\ slot.pc \in {"return", "throw"} /\ slot'.pc = "idle"
      /\ job[d][n].state = "active"
      /\ \A e \in Delivery, m \in Attempt : e # d \/ m # n => job'[e][m] = job[e][m]
      /\ slot.pc = "return" => job'[d][n] = NoJob
  BY DEF Settle, IdleSlot, SlotFits
<1>1. On(d, n) /\ \A e \in Delivery, m \in Attempt : ~On(e, m)'
  BY <1>0 DEF On
<1>2. First(d, n)' >= First(d, n)
  <2>1. CASE slot.pc = "return"
    BY <1>0, <1>1, <2>1, LimitsAssumption DEF First, NoJob
  <2>2. CASE slot.pc = "throw"
    <3>1. First(d, n) = n
      BY <1>0, <1>1, <2>2 DEF First
    <3>2. First(d, n)' \in {n, MaxAttempts + 1}
      BY <1>1 DEF First
    <3> QED
      BY <3>1, <3>2, LimitsAssumption DEF Attempt
  <2> QED
    BY <1>0, <2>1, <2>2
<1>3. ASSUME NEW e \in Delivery, NEW m \in Attempt, e # d \/ m # n
      PROVE  First(e, m)' = First(e, m)
  <2>1. ~On(e, m)
    BY <1>3 DEF On
  <2> QED
    BY <1>0, <1>1, <1>3, <2>1, FirstOfOthers
<1>4. \A e \in Delivery, m \in Attempt : First(e, m)' >= First(e, m)
  BY <1>2, <1>3, FirstTyped
<1> QED
  BY <1>0, <1>4, PaidKept

\* A failed call and a crash pay for what they repeat.
LEMMA FaultsPay ==
    ASSUME ChainInv, TypeOK', Paid, CallFails \/ Crash
    PROVE  Paid'
<1> USE DEF ChainInv, TypeOK, receiver
<1>0. /\ accepted' = accepted /\ refused' = refused /\ job' = job
      /\ Faults' = Faults + 1 /\ slot.d \in Delivery /\ slot.n \in Attempt
      /\ slot'.pc \in {"idle", "throw"}
      /\ slot'.pc = "throw" => slot.pc # "idle" /\ slot'.d = slot.d /\ slot'.n = slot.n
  <2>1. CASE CallFails
    <3>1. used'["reject"] = used["reject"] + 1 /\ used'["crash"] = used["crash"]
      BY <2>1 DEF CallFails, Reject
    <3>2. Faults' = Faults + 1
      BY <3>1 DEF Faults
    <3>3. slot'.pc = "throw" /\ slot'.d = slot.d /\ slot'.n = slot.n
      BY <2>1 DEF CallFails, Reject
    <3> QED
      BY <2>1, <3>2, <3>3 DEF CallFails, Calling
  <2>2. CASE Crash
    BY <2>2 DEF Crash, IdleSlot, Faults
  <2> QED
    BY <2>1, <2>2
<1>1. ASSUME NEW e \in Delivery, NEW m \in Attempt, m # slot.n
      PROVE  First(e, m)' >= First(e, m)
  <2>1. ~On(e, m) /\ ~On(e, m)'
    BY <1>0, <1>1 DEF On
  <2> QED
    BY <1>0, <2>1, FirstOfOthers, FirstTyped
<1> DEFINE f == [k \in Attempt |-> <<slot.n, k>>]
<1>2. f \in [Attempt -> Attempt \X Attempt]
  BY <1>0
<1>3. \A e \in Delivery : Owed(e)' \subseteq Owed(e) \cup Listed(f)
  <2> SUFFICES ASSUME NEW e \in Delivery, NEW m \in Attempt, NEW k \in Attempt,
                      First(e, m)' <= k, m # slot.n
               PROVE  First(e, m) <= k
    BY DEF Owed, Listed
  <2> QED
    <3>1. First(e, m)' >= First(e, m)
      BY <1>1
    <3>2. First(e, m)' \in Nat /\ First(e, m) \in Nat /\ k \in Nat
      BY FirstTyped DEF Attempt
    <3> HIDE DEF First
    <3> QED
      BY <3>1, <3>2
<1> HIDE DEF f
<1> QED
  BY <1>0, <1>2, <1>3, FaultPays

\* A call that was carried out pays for its run, which starts again, and for the run
\* of the next attempt beside it.
LEMMA LostPays ==
    ASSUME ChainInv, TypeOK', Paid, AnswerLost,
           NEW n \in Attempt, slot.n = n
    PROVE  Paid'
<1> DEFINE f == [k \in Attempt |-> IF slot.pc = "enqueue" /\ k > n THEN <<n + 1, k>> ELSE <<n, k>>]
<1>0. /\ accepted' = accepted /\ refused' = refused /\ Faults' = Faults + 1
      /\ slot.d \in Delivery /\ n \in Attempt
      /\ slot.pc \notin {"idle", "find", "post", "throw", "return"}
      /\ slot'.pc = "throw" /\ slot'.d = slot.d /\ slot'.n = n
      /\ job[slot.d][n].state = "active"
  <2>1. used'["reject"] = used["reject"] + 1 /\ used'["crash"] = used["crash"]
    BY LostIs
  <2>2. used["reject"] \in Nat /\ used["crash"] \in Nat
    BY DEF ChainInv, TypeOK
  <2>3. Faults' = Faults + 1
    BY <2>1, <2>2 DEF Faults
  <2> QED
    BY <2>3, LostIs
<1>1. f \in [Attempt -> Attempt \X Attempt]
  <2>1. slot.pc = "enqueue" => n + 1 \in Attempt
    BY Added DEF AnswerLost
  <2> QED
    BY <1>0, <2>1
<1>2. \A e \in Delivery : Owed(e)' \subseteq Owed(e) \cup Listed(f)
  <2> HIDE DEF f
  <2> SUFFICES ASSUME NEW e \in Delivery, NEW m \in Attempt, NEW k \in Attempt,
                      First(e, m)' <= k
               PROVE  First(e, m) <= k \/ <<m, k>> = f[k]
    BY DEF Owed, Listed
  <2> USE DEF f
  <2>0. \A j \in Attempt : j # n => ~On(e, j) /\ ~On(e, j)'
    BY <1>0 DEF On
  <2>1. CASE slot.pc # "enqueue"
    <3>1. CASE m = n
      BY <2>1, <3>1
    <3>2. CASE m # n
      <4>1. First(e, m)' = First(e, m)
        BY <2>0, <2>1, <3>2, FirstOfOthers, LostIs
      <4> QED
        BY <4>1
    <3> QED
      BY <3>1, <3>2
  <2>2. CASE slot.pc = "enqueue"
    <3>0. /\ n + 1 \in Attempt
          /\ \A d \in Delivery, j \in Attempt :
                d # slot.d \/ j # n + 1 => job'[d][j] = job[d][j]
      BY <2>2, Added DEF AnswerLost
    <3>1. CASE m # n /\ (m # n + 1 \/ e # slot.d)
      <4>1. First(e, m)' = First(e, m)
        BY <2>0, <3>0, <3>1, FirstOfOthers
      <4> QED
        BY <4>1
    <3>2. CASE m = n /\ e # slot.d
      <4>1. First(e, m)' = First(e, m) 
        BY <1>0, <3>0, <3>2, FirstOfOthers DEF On
      <4> QED
        BY <4>1
    <3>3. CASE m = n /\ e = slot.d
      <4>1. First(e, m) = n + 1
        BY <1>0, <2>2, <3>3 DEF First, On
      <4> QED
        BY <1>0, <3>3, <4>1 DEF Attempt
    <3>4. CASE m = n + 1 /\ e = slot.d
      <4>1. First(e, m)' \in {n + 1, MaxAttempts + 1}
        BY <1>0, <2>0, <3>4 DEF First, Attempt
      <4>2. k > n
        BY <1>0, <4>1, LimitsAssumption DEF Attempt
      <4> QED
        BY <2>2, <3>4, <4>2
    <3> QED
      BY <3>1, <3>2, <3>3, <3>4
  <2> QED
    BY <2>1, <2>2
<1> HIDE DEF f
<1> QED
  BY <1>0, <1>1, <1>2, FaultPays DEF ChainInv

LEMMA InitPaid == Init => Paid
<1> SUFFICES ASSUME Init, NEW d \in Delivery
             PROVE  accepted[d] + refused[d] + Cardinality(Owed(d)) <= MaxAttempts * (1 + Faults)
  BY DEF Paid
<1>1. 1 \in Attempt
  BY LimitsAssumption DEF Attempt
<1>2. Owed(d) \subseteq {1} \X Attempt
  <2> SUFFICES ASSUME NEW m \in Attempt, NEW k \in Attempt, m # 1
               PROVE  ~(First(d, m) <= k)
    BY DEF Owed
  <2>1. First(d, m) = MaxAttempts + 1
    BY DEF Init, First, NoJob
  <2> QED
    BY <2>1, LimitsAssumption DEF Attempt
<1>3. Cardinality(Owed(d)) <= MaxAttempts /\ Cardinality(Owed(d)) \in Nat
  <2>1. /\ IsFiniteSet({1} \X Attempt) /\ Cardinality({1} \X Attempt) \in Nat
        /\ Cardinality({1} \X Attempt) <= MaxAttempts
    BY <1>1, AttemptsCounted
  <2>2. Cardinality(Owed(d)) <= Cardinality({1} \X Attempt) /\ Cardinality(Owed(d)) \in Nat
    BY <1>2, <2>1, FS_Subset, FS_CardinalityType
  <2> QED
    BY <2>1, <2>2, LimitsAssumption
<1>4. accepted[d] = 0 /\ refused[d] = 0 /\ Faults = 0
  BY DEF Init, Faults
<1> QED
  BY <1>3, <1>4, LimitsAssumption

LEMMA NextPaid == ChainInv /\ ChainInv' /\ Paid /\ [Next]_vars => Paid'
<1> SUFFICES ASSUME ChainInv, ChainInv', Paid, [Next]_vars PROVE Paid'
  OBVIOUS
<1>0. slot.d \in Delivery /\ slot.n \in Attempt /\ TypeOK'
  BY DEF ChainInv, TypeOK
<1>1. CASE UNCHANGED vars
  BY <1>1 DEF vars, receiver, Paid, Owed, First, On, Faults
<1> QED
  BY <1>0, <1>1, QueuePays, RunPays, PostPays, EnqueuePays, SettlePays, FaultsPay, LostPays
  DEF Next, Process

\* A receiver is called at most MaxAttempts times for a delivery and MaxAttempts
\* times more for every fault: BullMQ's retries and the attempts that process
\* enqueues itself do not multiply (webhook-delivery.processor.ts:29-46).
THEOREM PostsAreBounded == Spec => []PostsBounded
<1>1. ChainInv /\ Paid => PostsBounded
  <2> SUFFICES ASSUME ChainInv, Paid, NEW d \in Delivery
               PROVE  accepted[d] + refused[d] <= MaxAttempts * (1 + Faults)
    BY DEF PostsBounded
  <2>1. Cardinality(Owed(d)) \in Nat
    BY OwedCounted DEF Owed
  <2>2. MaxAttempts * (1 + Faults) \in Nat /\ accepted[d] \in Nat /\ refused[d] \in Nat
    BY LimitsAssumption DEF ChainInv, TypeOK, Faults
  <2> QED
    BY <2>1, <2>2 DEF Paid
<1> QED
  BY <1>1, InitChain, NextChain, InitPaid, NextPaid, PTL DEF Spec

-----------------------------------------------------------------------------
(* No job is given up *)

\* A step that leaves a job alone spares it, if it charges no fault of its run.
LEMMA SparedKept ==
    ASSUME ChainInv, NEW d \in Delivery, NEW n \in Attempt, Spared(d, n),
           job'[d][n] = job[d][n],
           used'["reject"] >= used["reject"], used'["crash"] >= used["crash"],
           {used'["reject"], used'["crash"]} \subseteq Nat,
           On(d, n)' <=> On(d, n),
           On(d, n)' /\ slot'.pc = "throw" => used'["reject"] > used["reject"]
    PROVE  Spared(d, n)'
<1>1. job[d][n] \in Job /\ used["reject"] \in Nat /\ used["crash"] \in Nat
  BY DEF ChainInv, TypeOK
<1> QED
  BY <1>1 DEF Spared, Job

LEMMA QueueSpares ==
    ASSUME EnoughAttempts, ChainInv, NoneGivenUp, NEW d \in Delivery, NEW n \in Attempt,
           Take(d, n) \/ Promote(d, n) \/ Stall(d, n)
    PROVE  NoneGivenUp'
<1> USE DEF ChainInv, TypeOK, receiver
<1>0. /\ used' = used /\ job[d][n] \in Job /\ Spared(d, n)
      /\ used["reject"] \in Nat /\ used["crash"] \in Nat
      /\ \A e \in Delivery, m \in Attempt : e # d \/ m # n => job'[e][m] = job[e][m]
  BY DEF Take, Promote, Stall, NoneGivenUp
<1>1. Spared(d, n)'
  <2>1. CASE Take(d, n)
    <3>1. /\ job'[d][n] = [job[d][n] EXCEPT !.state = "active"]
          /\ slot'.pc = "find" /\ slot'.d = d /\ slot'.n = n
      BY <2>1 DEF Take, IdleSlot
    <3> QED
      BY <1>0, <3>1 DEF Spared, On, Job
  <2>2. CASE Promote(d, n)
    <3>1. job'[d][n] = [job[d][n] EXCEPT !.state = "waiting"] /\ slot' = slot
      BY <2>2 DEF Promote
    <3> QED
      BY <1>0, <3>1 DEF Spared, On, Job
  <2>3. CASE Stall(d, n)
    <3>1. job'[d][n] = Requeue(job[d][n]) /\ slot' = slot /\ ~On(d, n)
      BY <2>3 DEF Stall, On
    <3>2. job[d][n].stalls < used["crash"] /\ used["crash"] <= MaxStalledCount
      BY <1>0, <2>3, <3>1, LimitsAssumption DEF Stall, Spared, EnoughAttempts, NoneGivenUp
    <3>3. job[d][n].stalls < MaxStalledCount
      BY <1>0, <3>2, LimitsAssumption DEF Job
    <3>4. Requeue(job[d][n]) = [job[d][n] EXCEPT !.state = "waiting", !.stalls = @ + 1]
      BY <3>3 DEF Requeue
    <3> QED
      BY <1>0, <3>1, <3>2, <3>4 DEF Spared, On, Job
  <2> QED
    BY <2>1, <2>2, <2>3
<1>2. ASSUME NEW e \in Delivery, NEW m \in Attempt, e # d \/ m # n
      PROVE  Spared(e, m)'
  <2>1. On(e, m)' <=> On(e, m)
    BY <1>2 DEF Take, Promote, Stall, On, IdleSlot
  <2>2. On(e, m)' => slot' = slot
    BY <1>2 DEF Take, Promote, Stall, On, IdleSlot
  <2>3. Spared(e, m)
    BY DEF NoneGivenUp
  <2> QED
    BY <1>0, <1>2, <2>1, <2>2, <2>3 DEF Spared
<1> QED
  BY <1>0, <1>1, <1>2 DEF NoneGivenUp

\* A run, until it ends.
LEMMA RunSpares ==
    ASSUME ChainInv, NoneGivenUp,
           \/ Find \/ Record \/ MarkDeliveryFailed \/ MarkDeliveryRetrying \/ EnqueueNext
           \/ \E ok \in BOOLEAN : Post(ok)
    PROVE  NoneGivenUp'
<1> USE DEF ChainInv, TypeOK, receiver
<1>0. /\ used' = used /\ used["reject"] \in Nat /\ used["crash"] \in Nat
      /\ slot.pc # "idle" /\ slot'.pc \notin {"idle", "throw"}
      /\ slot'.d = slot.d /\ slot'.n = slot.n
  <2>1. CASE Find \/ Record \/ MarkDeliveryFailed
    BY <2>1 DEF Find, Record, MarkDeliveryFailed, AfterRecord
  <2>2. CASE MarkDeliveryRetrying \/ EnqueueNext
    BY <2>2 DEF MarkDeliveryRetrying, EnqueueNext, AfterEnqueue
  <2>3. CASE \E ok \in BOOLEAN : Post(ok)
    BY <2>3 DEF Post
  <2> QED
    BY <2>1, <2>2, <2>3
<1> SUFFICES ASSUME NEW d \in Delivery, NEW n \in Attempt PROVE Spared(d, n)'
  BY <1>0 DEF NoneGivenUp
<1>1. (On(d, n)' <=> On(d, n)) /\ Spared(d, n)
  BY <1>0 DEF On, NoneGivenUp
<1>2. CASE job'[d][n] = job[d][n]
  <2>1. ~(On(d, n)' /\ slot'.pc = "throw")
    BY <1>0
  <2> QED
    BY <1>0, <1>1, <1>2, <2>1 DEF Spared
<1>3. CASE job'[d][n] # job[d][n]
  <2>1. job'[d][n] = [NoJob EXCEPT !.state = "delayed"]
    <3>1. EnqueueNext
      BY <1>3 DEF Find, Record, MarkDeliveryFailed, MarkDeliveryRetrying, Post
    <3> QED
      BY <1>3, <3>1 DEF EnqueueNext, AddNext
  <2> QED
    BY <1>0, <2>1 DEF Spared, NoJob
<1> QED
  BY <1>2, <1>3

LEMMA EndSpares ==
    ASSUME EnoughAttempts, ChainInv, NoneGivenUp,
           Settle \/ CallFails \/ AnswerLost \/ Crash
    PROVE  NoneGivenUp'
<1> USE DEF ChainInv, TypeOK, receiver
<1>0. /\ used["reject"] \in Nat /\ used["crash"] \in Nat
      /\ slot.d \in Delivery /\ slot.n \in Attempt
  OBVIOUS
<1>1. CASE Settle
  <2>1. used' = used /\ slot'.pc = "idle"
    BY <1>1 DEF Settle, IdleSlot
  <2> SUFFICES ASSUME NEW d \in Delivery, NEW n \in Attempt PROVE Spared(d, n)'
    BY <2>1 DEF NoneGivenUp
  <2>2. Spared(d, n) /\ job[d][n] \in Job /\ ~On(d, n)'
    BY <2>1 DEF NoneGivenUp, On
  <2>3. CASE slot.d # d \/ slot.n # n
    <3>1. job'[d][n] = job[d][n] /\ ~On(d, n)
      BY <1>1, <2>3 DEF Settle, On
    <3> QED
      BY <1>0, <2>1, <2>2, <3>1 DEF Spared, On
  <2>4. CASE slot.d = d /\ slot.n = n /\ slot.pc = "return"
    <3>1. job'[d][n] = NoJob
      BY <1>1, <2>4 DEF Settle
    <3> QED
      BY <1>0, <2>1, <3>1 DEF Spared, NoJob, On
  <2>5. CASE slot.d = d /\ slot.n = n /\ slot.pc = "throw"
    <3>1. job'[d][n] = Retry(job[d][n])
      BY <1>1, <2>5 DEF Settle
    <3>2. job[d][n].made < used["reject"] /\ used["reject"] < JobAttempts
      BY <1>0, <2>2, <2>5, LimitsAssumption DEF Spared, On, EnoughAttempts, NoneGivenUp
    <3>3. job[d][n].made + 1 < JobAttempts
      BY <1>0, <2>2, <3>2, LimitsAssumption DEF Job
    <3>4. Retry(job[d][n]) = [job[d][n] EXCEPT !.state = "delayed", !.made = @ + 1]
      BY <3>3 DEF Retry
    <3> QED
      BY <1>0, <2>1, <2>2, <3>1, <3>2, <3>4 DEF Spared, On, Job
  <2> QED
    BY <1>1, <2>3, <2>4, <2>5 DEF Settle
<1>2. CASE CallFails
  <2>1. /\ used'["reject"] = used["reject"] + 1 /\ used'["crash"] = used["crash"]
        /\ used["reject"] < MaxRejects /\ job' = job
        /\ slot.pc # "idle" /\ slot'.pc = "throw" /\ slot'.d = slot.d /\ slot'.n = slot.n
    BY <1>2 DEF CallFails, Reject, Calling
  <2>2. \A d \in Delivery, n \in Attempt : Spared(d, n)'
    BY <1>0, <2>1, SparedKept DEF NoneGivenUp, On
  <2> QED
    BY <1>0, <2>1, <2>2, LimitsAssumption DEF NoneGivenUp
<1>3. CASE Crash
  <2>1. /\ used'["crash"] = used["crash"] + 1 /\ used'["reject"] = used["reject"]
        /\ used["crash"] < MaxCrashes /\ job' = job /\ slot'.pc = "idle"
    BY <1>3 DEF Crash, IdleSlot
  <2>2. ASSUME NEW d \in Delivery, NEW n \in Attempt PROVE Spared(d, n)'
    <3>1. Spared(d, n) /\ job[d][n] \in Job /\ ~On(d, n)'
      BY <2>1 DEF NoneGivenUp, On
    <3> QED
      BY <1>0, <2>1, <3>1 DEF Spared, Job
  <2> QED
    BY <1>0, <2>1, <2>2, LimitsAssumption DEF NoneGivenUp
<1>4. CASE AnswerLost
  <2>1. /\ used'["reject"] = used["reject"] + 1 /\ used'["crash"] = used["crash"]
        /\ used["reject"] < MaxRejects
        /\ slot.pc # "idle" /\ slot'.pc = "throw" /\ slot'.d = slot.d /\ slot'.n = slot.n
    BY <1>4, LostIs
  <2>2. ASSUME NEW d \in Delivery, NEW n \in Attempt PROVE Spared(d, n)'
    <3>1. CASE job'[d][n] = job[d][n]
      <4>1. (On(d, n)' <=> On(d, n)) /\ Spared(d, n)
        BY <2>1 DEF On, NoneGivenUp
      <4>2. /\ used'["reject"] > used["reject"] /\ used'["crash"] >= used["crash"]
            /\ {used'["reject"], used'["crash"]} \subseteq Nat
        BY <1>0, <2>1
      <4> QED
        BY <1>0, <3>1, <4>1, <4>2, SparedKept
    <3>2. CASE job'[d][n] # job[d][n]
      <4>1. job'[d][n] = [NoJob EXCEPT !.state = "delayed"] /\ n = slot.n + 1
        BY <1>4, <3>2, Added, LostIs DEF AnswerLost
      <4>2. ~On(d, n)'
        BY <1>0, <2>1, <4>1 DEF On, Attempt
      <4> QED
        BY <1>0, <2>1, <4>1, <4>2 DEF Spared, NoJob
    <3> QED
      BY <3>1, <3>2
  <2> QED
    BY <1>0, <2>1, <2>2, LimitsAssumption DEF NoneGivenUp
<1> QED
  BY <1>1, <1>2, <1>3, <1>4

LEMMA NextNoneGivenUp ==
    ASSUME EnoughAttempts
    PROVE  ChainInv /\ NoneGivenUp /\ [Next]_vars => NoneGivenUp'
<1> SUFFICES ASSUME ChainInv, NoneGivenUp, [Next]_vars PROVE NoneGivenUp'
  OBVIOUS
<1>1. CASE UNCHANGED vars
  BY <1>1 DEF vars, NoneGivenUp, Spared, On
<1> QED
  BY <1>1, QueueSpares, RunSpares, EndSpares DEF Next, Process

-----------------------------------------------------------------------------
(* One job works *)

LEMMA WorksKept ==
    ASSUME ChainInv, NEW d \in Delivery, refused'[d] = refused[d],
           row'[d].status = row[d].status,
           \A n \in Attempt : Working(d, n)' <=> Working(d, n)
    PROVE  (Alone(d) => Alone(d)') /\ (Earned(d) => Earned(d)')
BY DEF Alone, Earned

\* Who works on a delivery the slot has nothing to do with.
LEMMA WorkingOfOthers ==
    ASSUME NEW d \in Delivery, NEW n \in Attempt, job'[d][n] = job[d][n],
           ~On(d, n), ~On(d, n)'
    PROVE  Working(d, n)' <=> Working(d, n)
BY DEF Working

LEMMA QueueWorks ==
    ASSUME ChainInv, NoneGivenUp', OneWorks, NEW d \in Delivery, NEW n \in Attempt,
           Take(d, n) \/ Promote(d, n) \/ Stall(d, n)
    PROVE  OneWorks'
<1> USE DEF ChainInv, TypeOK, receiver
<1>0. /\ row' = row /\ refused' = refused /\ torn' = torn
      /\ \A e \in Delivery, m \in Attempt : e # d \/ m # n => job'[e][m] = job[e][m]
      /\ job[d][n] \in Job /\ job[d][n].state \notin {"none", "failed"}
  BY DEF Take, Promote, Stall
<1>1. job'[d][n].state \notin {"none", "failed"}
  <2>1. job'[d][n].state # "failed"
    BY DEF NoneGivenUp, Spared
  <2>2. job'[d][n].state # "none"
    <3>1. CASE Take(d, n)
      BY <1>0, <3>1 DEF Take, Job
    <3>2. CASE Promote(d, n)
      BY <1>0, <3>2 DEF Promote, Job
    <3>3. CASE Stall(d, n)
      BY <1>0, <3>3 DEF Stall, Requeue, Job
    <3> QED
      BY <3>1, <3>2, <3>3
  <2> QED
    BY <2>1, <2>2
<1>2. \/ slot' = slot
      \/ slot.pc = "idle" /\ slot'.pc = "find" /\ slot'.d = d /\ slot'.n = n
  BY DEF Take, Promote, Stall, IdleSlot
<1>3. ASSUME NEW e \in Delivery, NEW m \in Attempt
      PROVE  Working(e, m)' <=> Working(e, m)
  <2>1. (On(e, m) /\ slot.pc = "return") <=> (On(e, m)' /\ slot'.pc = "return")
    BY <1>2 DEF On
  <2>2. job'[e][m].state \in {"none", "failed"} <=> job[e][m].state \in {"none", "failed"}
    BY <1>0, <1>1
  <2> QED
    BY <2>1, <2>2 DEF Working
<1>4. \A e \in Delivery : (Alone(e) => Alone(e)') /\ (Earned(e) => Earned(e)')
  BY <1>0, <1>3, WorksKept
<1>5. slot'.pc = "enqueue" => slot' = slot
  BY <1>2
<1> QED
  BY <1>0, <1>4, <1>5 DEF OneWorks

\* Steps of a run that store nothing.
LEMMA CallWorks ==
    ASSUME ChainInv, OneWorks, Find \/ CallFails \/ \E ok \in BOOLEAN : Post(ok)
    PROVE  OneWorks'
<1> USE DEF ChainInv, TypeOK, receiver
<1>0. /\ row' = row /\ torn' = torn /\ job' = job
      /\ slot.pc \notin {"idle", "return"} /\ slot'.pc \notin {"idle", "return", "enqueue"}
      /\ slot'.d = slot.d /\ slot'.n = slot.n
  <2>1. CASE Find
    BY <2>1 DEF Find
  <2>2. CASE CallFails
    BY <2>2 DEF CallFails, Reject, Calling
  <2>3. CASE \E ok \in BOOLEAN : Post(ok)
    BY <2>3 DEF Post
  <2> QED
    BY <2>1, <2>2, <2>3
<1>a. \A e \in Delivery : refused[e] \in Nat /\ refused'[e] \in {refused[e], refused[e] + 1}
  <2>1. CASE Find \/ CallFails
    BY <2>1 DEF Find, CallFails
  <2>2. CASE \E ok \in BOOLEAN : Post(ok)
    <3> PICK ok \in BOOLEAN : refused' = [refused EXCEPT ![slot.d] = IF ok THEN @ ELSE @ + 1]
      BY <2>2 DEF Post
    <3> QED
      BY <1>0 DEF TypeOK
  <2> QED
    BY <2>1, <2>2
<1>1. \A e \in Delivery, m \in Attempt : Working(e, m)' <=> Working(e, m)
  BY <1>0 DEF Working, On
<1>2. \A e \in Delivery : Alone(e) => Alone(e)'
  BY <1>0, <1>1 DEF Alone
<1>3. \A e \in Delivery : Earned(e) => Earned(e)'
  BY <1>0, <1>a, <1>1, LimitsAssumption DEF Earned
<1> QED
  BY <1>0, <1>2, <1>3 DEF OneWorks

\* A run that stores the status of its delivery d: its own job n, which works
\* before, works after it unless the run returns.
LEMMA StoreWorks ==
    ASSUME ChainInv, OneWorks, NEW d \in Delivery, NEW n \in Attempt,
           slot.d = d, slot.n = n,
           Record \/ MarkDeliveryFailed \/ MarkDeliveryRetrying
    PROVE  OneWorks'
<1> USE DEF ChainInv, TypeOK, receiver
<1>0. /\ job' = job /\ torn' = torn /\ refused' = refused
      /\ slot.pc \in {"record", "fail", "retry"} /\ slot'.pc # "idle"
      /\ slot'.d = d /\ slot'.n = n
      /\ job[d][n].state = "active"
      /\ \A e \in Delivery : e # d => row'[e] = row[e]
  BY DEF Record, MarkDeliveryFailed, MarkDeliveryRetrying, AfterRecord, SlotFits,
         StoreAnswer, StoreFailed, StoreRetrying
<1>1. On(d, n) /\ On(d, n)' /\ Working(d, n)
  BY <1>0 DEF On, Working
<1>2. \A e \in Delivery, m \in Attempt :
          e # d \/ m # n => (Working(e, m)' <=> Working(e, m))
  <2> SUFFICES ASSUME NEW e \in Delivery, NEW m \in Attempt, e # d \/ m # n
               PROVE  Working(e, m)' <=> Working(e, m)
    OBVIOUS
  <2>1. ~On(e, m) /\ ~On(e, m)'
    BY <1>0 DEF On
  <2> QED
    BY <1>0, <2>1, WorkingOfOthers
<1>3. ASSUME NEW e \in Delivery, e # d
      PROVE  (Alone(e) => Alone(e)') /\ (Earned(e) => Earned(e)')
  BY <1>0, <1>2, <1>3, WorksKept
<1>4. row'[d].status = "sent" => ~Working(d, n)'
  <2>1. row'[d].status = "sent" => slot'.pc = "return"
    BY <1>0 DEF Record, MarkDeliveryFailed, MarkDeliveryRetrying, AfterRecord,
                StoreAnswer, StoreFailed, StoreRetrying
  <2> QED
    BY <1>1, <2>1 DEF Working
<1>5. Alone(d) => Alone(d)'
  <2> SUFFICES ASSUME Alone(d), NEW k \in Attempt, NEW m \in Attempt, Working(d, k)'
               PROVE  row'[d].status # "sent" /\ (Working(d, m)' => k = m)
    BY DEF Alone
  <2>1. k = n
    BY <1>1, <1>2 DEF Alone
  <2>2. Working(d, m)' => m = n
    BY <1>1, <1>2 DEF Alone
  <2> QED
    BY <1>4, <2>1, <2>2
<1>6. Earned(d)'
  <2> SUFFICES ASSUME row'[d].status = "failed"
               PROVE  refused'[d] >= MaxAttempts \/ \E k \in Attempt : Working(d, k)'
    BY DEF Earned
  <2>1. CASE Record
    <3>1. slot'.pc # "return"
      BY <2>1 DEF Record, StoreAnswer, AfterRecord
    <3>2. Working(d, n)'
      BY <1>0, <1>1, <3>1 DEF Working
    <3> QED
      BY <3>2
  <2>2. CASE MarkDeliveryFailed
    BY <1>0, <2>2 DEF MarkDeliveryFailed, SlotFits
  <2>3. CASE MarkDeliveryRetrying
    BY <2>3 DEF MarkDeliveryRetrying, StoreRetrying
  <2> QED
    BY <2>1, <2>2, <2>3
<1>7. slot'.pc = "enqueue" => row'[d].status = "pending"
  BY DEF Record, MarkDeliveryFailed, MarkDeliveryRetrying, AfterRecord, StoreRetrying
<1>8. \A e \in Delivery \ torn' : Alone(e)'
  BY <1>0, <1>3, <1>5 DEF OneWorks
<1>9. \A e \in Delivery : Earned(e)'
  BY <1>3, <1>6 DEF OneWorks
<1> QED
  BY <1>0, <1>7, <1>8, <1>9 DEF OneWorks

\* The run hands its delivery over to the job of the next attempt.
LEMMA EnqueueWorks ==
    ASSUME ChainInv, NoneGivenUp, OneWorks, EnqueueNext,
           NEW d \in Delivery, NEW n \in Attempt, slot.d = d, slot.n = n
    PROVE  OneWorks'
<1> USE DEF ChainInv, TypeOK, receiver
<1>0. /\ row' = row /\ torn' = torn /\ refused' = refused
      /\ slot.pc = "enqueue" /\ slot'.pc = "return" /\ slot'.d = d /\ slot'.n = n
      /\ job[d][n].state = "active" /\ n + 1 \in Attempt
      /\ row[d].status = "pending"
  BY LimitsAssumption DEF EnqueueNext, AfterEnqueue, SlotFits, OneWorks, Attempt
<1>1. \A e \in Delivery, m \in Attempt : e # d \/ m # n + 1 => job'[e][m] = job[e][m]
  BY <1>0, Added DEF EnqueueNext
<1>2. Working(d, n) /\ ~Working(d, n)'
  BY <1>0 DEF Working, On
<1>3. \A e \in Delivery, m \in Attempt :
          e # d \/ (m # n /\ m # n + 1) => (Working(e, m)' <=> Working(e, m))
  <2> SUFFICES ASSUME NEW e \in Delivery, NEW m \in Attempt,
                      e # d \/ (m # n /\ m # n + 1)
               PROVE  Working(e, m)' <=> Working(e, m)
    OBVIOUS
  <2>1. ~On(e, m) /\ ~On(e, m)'
    BY <1>0 DEF On
  <2> QED
    BY <1>1, <2>1, WorkingOfOthers
<1>4. ASSUME NEW e \in Delivery, e # d
      PROVE  (Alone(e) => Alone(e)') /\ (Earned(e) => Earned(e)')
  BY <1>0, <1>3, <1>4, WorksKept
<1>5. Alone(d) => Alone(d)'
  <2> SUFFICES ASSUME Alone(d), NEW k \in Attempt, NEW m \in Attempt, Working(d, k)'
               PROVE  row'[d].status # "sent" /\ (Working(d, m)' => k = m)
    BY DEF Alone
  <2>1. \A j \in Attempt : Working(d, j)' => j = n + 1
    BY <1>2, <1>3 DEF Alone
  <2> QED
    BY <1>0, <2>1
<1>6. Earned(d)'
  BY <1>0 DEF Earned
<1> QED
  BY <1>0, <1>4, <1>5, <1>6 DEF OneWorks

LEMMA SettleWorks ==
    ASSUME ChainInv, NoneGivenUp', OneWorks, Settle,
           NEW d \in Delivery, NEW n \in Attempt, slot.d = d, slot.n = n
    PROVE  OneWorks'
<1> USE DEF ChainInv, TypeOK, receiver
<1>0. /\ row' = row /\ torn' = torn /\ refused' = refused
      /\ slot.pc \in {"return", "throw"} /\ slot'.pc = "idle"
      /\ job[d][n].state = "active" /\ job[d][n] \in Job
      /\ \A e \in Delivery, m \in Attempt : e # d \/ m # n => job'[e][m] = job[e][m]
  BY DEF Settle, IdleSlot, SlotFits
<1>1. ASSUME NEW e \in Delivery, NEW m \in Attempt
      PROVE  Working(e, m)' <=> Working(e, m)
  <2>1. CASE e # d \/ m # n
    <3>1. ~On(e, m) /\ ~On(e, m)'
      BY <1>0, <2>1 DEF On
    <3> QED
      BY <1>0, <2>1, <3>1, WorkingOfOthers
  <2>2. CASE e = d /\ m = n /\ slot.pc = "return"
    <3>1. job'[d][n] = NoJob
      BY <2>2 DEF Settle
    <3> QED
      BY <1>0, <2>2, <3>1 DEF Working, NoJob, On
  <2>3. CASE e = d /\ m = n /\ slot.pc = "throw"
    <3>1. job'[d][n] = Retry(job[d][n])
      BY <2>3 DEF Settle
    <3>2. job'[d][n].state # "none"
      BY <1>0, <3>1 DEF Retry, Job
    <3>3. job'[d][n].state # "failed"
      BY DEF NoneGivenUp, Spared
    <3> QED
      BY <1>0, <2>3, <3>2, <3>3 DEF Working, On
  <2> QED
    BY <1>0, <2>1, <2>2, <2>3
<1>2. \A e \in Delivery : (Alone(e) => Alone(e)') /\ (Earned(e) => Earned(e)')
  BY <1>0, <1>1, WorksKept
<1> QED
  BY <1>0, <1>2 DEF OneWorks

\* An answer that is lost leaves its run to start again: beside the job it enqueued,
\* or on a delivery it stored as SENT, which are the deliveries that are torn.
LEMMA LostWorks ==
    ASSUME ChainInv, NoneGivenUp, OneWorks, AnswerLost,
           NEW d \in Delivery, NEW n \in Attempt, slot.d = d, slot.n = n
    PROVE  OneWorks'
<1> USE DEF ChainInv, TypeOK
<1>0. /\ d \in Delivery /\ n \in Attempt /\ refused' = refused
      /\ slot.pc \in {"record", "fail", "retry", "enqueue"}
      /\ slot'.pc = "throw" /\ slot'.d = d /\ slot'.n = n
      /\ torn \subseteq torn' /\ torn' \subseteq torn \cup {d}
      /\ slot.pc = "enqueue" => d \in torn'
      /\ slot.pc = "record" /\ slot.ok => d \in torn'
      /\ slot.pc # "enqueue" => job' = job
      /\ slot.pc = "enqueue" => row' = row
      /\ \A e \in Delivery : e # d => row'[e] = row[e]
      /\ job[d][n].state = "active"
  BY LostIs
<1>1. \A e \in Delivery, m \in Attempt :
          e # d \/ m = n \/ slot.pc # "enqueue" => job'[e][m] = job[e][m]
  <2>1. CASE slot.pc = "enqueue"
    <3>1. \A e \in Delivery, m \in Attempt :
              e # d \/ m # n + 1 => job'[e][m] = job[e][m]
      BY <2>1, Added DEF AnswerLost
    <3> QED
      BY <1>0, <2>1, <3>1 DEF Attempt
  <2> QED
    BY <1>0, <2>1
<1>2. On(d, n) /\ On(d, n)' /\ Working(d, n) /\ Working(d, n)'
  BY <1>0, <1>1 DEF On, Working
<1>3. \A e \in Delivery, m \in Attempt :
          e # d \/ slot.pc # "enqueue" => (Working(e, m)' <=> Working(e, m))
  <2> SUFFICES ASSUME NEW e \in Delivery, NEW m \in Attempt, e # d \/ slot.pc # "enqueue"
               PROVE  Working(e, m)' <=> Working(e, m)
    OBVIOUS
  <2>1. CASE e = d /\ m = n
    BY <1>2, <2>1
  <2>2. CASE e # d \/ m # n
    <3>1. ~On(e, m) /\ ~On(e, m)'
      BY <1>0, <2>2 DEF On
    <3> QED
      BY <1>1, <3>1, WorkingOfOthers
  <2> QED
    BY <2>1, <2>2
<1>4. ASSUME NEW e \in Delivery, e # d
      PROVE  (Alone(e) => Alone(e)') /\ (Earned(e) => Earned(e)')
  BY <1>0, <1>3, <1>4, WorksKept
<1>5. d \notin torn' => (Alone(d) => Alone(d)')
  <2> SUFFICES ASSUME d \notin torn', Alone(d), NEW k \in Attempt, NEW m \in Attempt,
                      Working(d, k)'
               PROVE  row'[d].status # "sent" /\ (Working(d, m)' => k = m)
    BY DEF Alone
  <2>1. slot.pc # "enqueue"
    BY <1>0
  <2>2. Working(d, k) /\ (Working(d, m)' => Working(d, m))
    BY <1>0, <1>3, <2>1
  <2>3. row'[d].status # "sent"
    <3>1. row[d].status # "sent"
      BY <2>2 DEF Alone
    <3>2. CASE slot.pc = "record"
      BY <1>0, <3>2 DEF AnswerLost, StoreAnswer
    <3>3. CASE slot.pc = "fail"
      BY <1>0, <3>3 DEF AnswerLost, StoreFailed
    <3>4. CASE slot.pc = "retry"
      BY <1>0, <3>4 DEF AnswerLost, StoreRetrying
    <3> QED
      BY <1>0, <2>1, <3>2, <3>3, <3>4
  <2> QED
    BY <2>2, <2>3 DEF Alone
<1>6. Earned(d)'
  BY <1>0, <1>2 DEF Earned
<1>7. \A e \in Delivery \ torn' : Alone(e)'
  BY <1>0, <1>4, <1>5 DEF OneWorks
<1>8. \A e \in Delivery : Earned(e)'
  BY <1>4, <1>6 DEF OneWorks
<1> QED
  BY <1>0, <1>7, <1>8 DEF OneWorks

\* A crash may set a second job to work, on the delivery it interrupts.
LEMMA CrashWorks ==
    ASSUME ChainInv, OneWorks, Crash
    PROVE  OneWorks'
<1> USE DEF ChainInv, TypeOK, receiver
<1>0. /\ row' = row /\ refused' = refused /\ job' = job /\ slot'.pc = "idle"
      /\ torn' = IF slot.pc = "idle" THEN torn ELSE torn \cup {slot.d}
  BY DEF Crash, IdleSlot
<1>1. \A e \in Delivery, m \in Attempt : Working(e, m) => Working(e, m)'
  BY <1>0 DEF Working, On
<1>2. \A e \in Delivery : Earned(e) => Earned(e)'
  BY <1>0, <1>1 DEF Earned
<1>3. ASSUME NEW e \in Delivery \ torn' PROVE Alone(e)'
  <2>1. Alone(e) /\ \A m \in Attempt : ~On(e, m)
    BY <1>0 DEF On, OneWorks
  <2>2. \A m \in Attempt : Working(e, m)' <=> Working(e, m)
    BY <1>0, <2>1 DEF Working, On
  <2> QED
    BY <1>0, <2>1, <2>2 DEF Alone
<1> QED
  BY <1>0, <1>2, <1>3 DEF OneWorks

LEMMA NextKeeps ==
    ASSUME EnoughAttempts
    PROVE  KeepsInv /\ [Next]_vars => KeepsInv'
<1> SUFFICES ASSUME KeepsInv, [Next]_vars PROVE KeepsInv'
  OBVIOUS
<1>1. ChainInv' /\ NoneGivenUp'
  BY NextChain, NextNoneGivenUp DEF KeepsInv
<1>2. slot.d \in Delivery /\ slot.n \in Attempt
  BY DEF KeepsInv, ChainInv, TypeOK
<1>3. CASE UNCHANGED vars
  BY <1>1, <1>3 DEF vars, KeepsInv, OneWorks, Alone, Earned, Working, On
<1>4. CASE Next
  <2>1. OneWorks'
    BY <1>1, <1>2, <1>4, QueueWorks, CallWorks, StoreWorks, EnqueueWorks, SettleWorks,
       CrashWorks, LostWorks
    DEF Next, Process, KeepsInv
  <2> QED
    BY <1>1, <2>1 DEF KeepsInv
<1> QED
  BY <1>3, <1>4

LEMMA InitKeeps == EnoughAttempts /\ Init => KeepsInv
<1> SUFFICES ASSUME EnoughAttempts, Init PROVE KeepsInv
  OBVIOUS
<1>1. ChainInv
  BY InitChain
<1>2. NoneGivenUp
  BY LimitsAssumption DEF Init, NoneGivenUp, Spared, On, IdleSlot, NoJob
<1>3. \A d \in Delivery, n \in Attempt : Working(d, n) => n = 1
  BY DEF Init, Working, NoJob
<1>4. \A d \in Delivery : row[d].status = "pending"
  BY DEF Init
<1>5. OneWorks
  BY <1>3, <1>4 DEF OneWorks, Alone, Earned, Init, IdleSlot
<1> QED
  BY <1>1, <1>2, <1>5 DEF KeepsInv

-----------------------------------------------------------------------------
(* The contract *)

\* What the refinement mapping makes of a delivery, before and after a step.
LEMMA OutcomeIs ==
    \A d \in Delivery :
        /\ row[d].status = "sent" => Outcome[d] = "sent"
        /\ row[d].status = "failed" /\ Over(d) => Outcome[d] = "failed"
        /\ row[d].status # "sent" /\ ~(row[d].status = "failed" /\ Over(d)) =>
              Outcome[d] = "undecided"
        /\ row'[d].status = "sent" => Outcome'[d] = "sent"
        /\ row'[d].status = "failed" /\ Over(d)' => Outcome'[d] = "failed"
        /\ row'[d].status # "sent" /\ ~(row'[d].status = "failed" /\ Over(d)') =>
              Outcome'[d] = "undecided"
BY DEF Outcome

LEMMA OutcomeSame ==
    ASSUME \A d \in Delivery : row'[d].status = row[d].status /\ (Over(d)' <=> Over(d))
    PROVE  Outcome' = Outcome
<1>1. \A d \in Delivery : Outcome'[d] = Outcome[d]
  BY OutcomeIs
<1> QED
  BY <1>1 DEF Outcome

LEMMA OutcomeOfOne ==
    ASSUME NEW d \in Delivery,
           \A e \in Delivery : e # d => /\ row'[e].status = row[e].status
                                        /\ Over(e)' <=> Over(e)
    PROVE  Outcome' = [Outcome EXCEPT ![d] = Outcome'[d]]
<1>1. ASSUME NEW e \in Delivery, e # d PROVE Outcome'[e] = Outcome[e]
  <2>1. row'[e].status = row[e].status /\ (Over(e)' <=> Over(e))
    BY <1>1
  <2> QED
    BY <2>1, OutcomeIs
<1>2. /\ Outcome = [e \in Delivery |-> Outcome[e]]
      /\ Outcome' = [e \in Delivery |-> Outcome'[e]]
  BY DEF Outcome
<1> QED
  BY <1>1, <1>2

\* A delivery a run works on is not over; without a crash it is undecided.
LEMMA RunIsOpen ==
    ASSUME ChainInv, OneWorks, slot.pc \notin {"idle", "return"}
    PROVE  /\ slot.d \in Delivery /\ ~Over(slot.d)
           /\ row[slot.d].status = "sent" => slot.d \in torn
           /\ Outcome[slot.d] \in {"sent", "undecided"}
           /\ Outcome[slot.d] = "undecided" \/ slot.d \in torn
<1>1. /\ slot.d \in Delivery /\ slot.n \in Attempt
      /\ job[slot.d][slot.n].state = "active"
  BY DEF ChainInv, TypeOK, SlotFits
<1>2. Working(slot.d, slot.n) /\ ~Over(slot.d)
  BY <1>1 DEF Working, Over, On
<1>3. row[slot.d].status = "sent" => slot.d \in torn
  BY <1>1, <1>2 DEF OneWorks, Alone
<1> QED
  BY <1>1, <1>2, <1>3, OutcomeIs

\* What the queue does, and a call that fails, is not seen.
LEMMA HiddenSteps ==
    ASSUME ChainInv, NoneGivenUp',
           \/ Find \/ CallFails \/ EnqueueNext
           \/ \E d \in Delivery, n \in Attempt : Take(d, n) \/ Promote(d, n) \/ Stall(d, n)
    PROVE  UNCHANGED Promised!contractVars
<1> USE DEF ChainInv, TypeOK, receiver
<1>1. row' = row /\ accepted' = accepted /\ refused' = refused /\ torn' = torn
  BY DEF Find, CallFails, EnqueueNext, Take, Promote, Stall
<1>2. ASSUME NEW d \in Delivery PROVE Over(d)' <=> Over(d)
  <2>1. CASE Find \/ CallFails
    BY <2>1 DEF Find, CallFails, Over
  <2>2. CASE EnqueueNext
    <3>1. /\ slot.d \in Delivery /\ slot.n \in Attempt /\ slot.n + 1 \in Attempt
          /\ job[slot.d][slot.n].state = "active"
      <4>1. /\ slot.d \in Delivery /\ slot.n \in Attempt /\ slot.n < MaxAttempts
            /\ job[slot.d][slot.n].state = "active"
        BY <2>2 DEF EnqueueNext, SlotFits
      <4> QED
        BY <4>1, NextAttempt
    <3>2. job'[slot.d][slot.n] = job[slot.d][slot.n]
      BY <2>2, <3>1, Added DEF EnqueueNext, Attempt
    <3>3. d # slot.d => \A m \in Attempt : job'[d][m] = job[d][m]
      BY <2>2, Added DEF EnqueueNext
    <3> QED
      BY <3>1, <3>2, <3>3 DEF Over
  <2>3. ASSUME NEW e \in Delivery, NEW m \in Attempt,
               Take(e, m) \/ Promote(e, m) \/ Stall(e, m)
        PROVE  Over(d)' <=> Over(d)
    <3>1. /\ job[e][m] \in Job /\ job[e][m].state \notin {"none", "failed"}
          /\ d # e => job'[d] = job[d]
          /\ \A k \in Attempt : k # m => job'[e][k] = job[e][k]
      <4>1. CASE Take(e, m)
        BY <4>1 DEF Take
      <4>2. CASE Promote(e, m)
        BY <4>2 DEF Promote
      <4>3. CASE Stall(e, m)
        BY <4>3 DEF Stall
      <4> QED
        BY <2>3, <4>1, <4>2, <4>3
    <3>2. job'[e][m].state # "none"
      <4>1. CASE Take(e, m)
        BY <3>1, <4>1 DEF Take, Job
      <4>2. CASE Promote(e, m)
        BY <3>1, <4>2 DEF Promote, Job
      <4>3. CASE Stall(e, m)
        BY <3>1, <4>3 DEF Stall, Requeue, Job
      <4> QED
        BY <2>3, <4>1, <4>2, <4>3
    <3>3. job'[e][m].state # "failed"
      BY DEF NoneGivenUp, Spared
    <3> QED
      BY <3>1, <3>2, <3>3 DEF Over
  <2> QED
    BY <2>1, <2>2, <2>3
<1>3. Outcome' = Outcome
  BY <1>1, <1>2, OutcomeSame
<1> QED
  BY <1>1, <1>3 DEF Promised!contractVars

LEMMA PostCalls ==
    ASSUME KeepsInv, NEW ok \in BOOLEAN, Post(ok)
    PROVE  Promised!Call(slot.d)
<1> USE DEF KeepsInv, ChainInv, TypeOK, receiver
<1>1. Outcome' = Outcome
  BY OutcomeSame DEF Post, Over
<1>2. slot.d \in Delivery /\ Promised!Open(slot.d)
  BY RunIsOpen DEF Post, Promised!Open
<1>3. /\ torn' = torn
      /\ \/ accepted' = [accepted EXCEPT ![slot.d] = @ + 1] /\ refused' = refused
         \/ refused' = [refused EXCEPT ![slot.d] = @ + 1] /\ accepted' = accepted
  <2>1. CASE ok
    BY <2>1 DEF Post
  <2>2. CASE ~ok
    BY <2>2 DEF Post
  <2> QED
    BY <2>1, <2>2
<1> QED
  BY <1>1, <1>2, <1>3 DEF Promised!Call

\* A run that stores a status other than SENT takes back only what a crash let it
\* take back: its own job is still there, so the delivery is not over.
LEMMA StoreDecides ==
    ASSUME KeepsInv, NEW d \in Delivery, slot.d = d,
           Record \/ MarkDeliveryFailed \/ MarkDeliveryRetrying
    PROVE  Promised!Decide(d) \/ Promised!Reopen(d) \/ UNCHANGED Promised!contractVars
<1> USE DEF KeepsInv, ChainInv, TypeOK, receiver
<1>1. /\ job' = job /\ accepted' = accepted /\ refused' = refused /\ torn' = torn
      /\ \A e \in Delivery : e # d => row'[e] = row[e]
      /\ slot.pc \in {"record", "fail", "retry"}
  BY DEF Record, MarkDeliveryFailed, MarkDeliveryRetrying, StoreAnswer, StoreFailed,
         StoreRetrying
<1>2. \A e \in Delivery : Over(e)' <=> Over(e)
  BY <1>1 DEF Over
<1>3. Outcome' = [Outcome EXCEPT ![d] = Outcome'[d]]
  BY <1>1, <1>2, OutcomeOfOne
<1>4. /\ ~Over(d)' /\ Outcome[d] \in {"sent", "undecided"}
      /\ Outcome[d] = "undecided" \/ d \in torn
  BY <1>1, <1>2, RunIsOpen
<1>5. row'[d].status = "sent" => accepted[d] > 0
  BY <1>1 DEF Record, MarkDeliveryFailed, MarkDeliveryRetrying, SlotFits, StoreAnswer,
              StoreFailed, StoreRetrying
<1>6. Outcome'[d] \in {"sent", "undecided"}
  BY <1>4, OutcomeIs
<1>7. Outcome = [Outcome EXCEPT ![d] = Outcome[d]]
  BY DEF Outcome
<1>8. CASE Outcome'[d] = Outcome[d]
  BY <1>1, <1>3, <1>7, <1>8 DEF Promised!contractVars
<1>9. CASE Outcome'[d] = "sent" /\ Outcome[d] = "undecided"
  <2>1. accepted[d] > 0
    BY <1>4, <1>5, <1>9, OutcomeIs
  <2> QED
    BY <1>1, <1>3, <1>9, <2>1 DEF Promised!Decide, Promised!Open
<1>10. CASE Outcome'[d] = "undecided" /\ Outcome[d] = "sent"
  BY <1>1, <1>3, <1>4, <1>10 DEF Promised!Reopen
<1> QED
  BY <1>4, <1>6, <1>8, <1>9, <1>10

\* An answer that is lost: a decision nobody knows of, or an interruption.
LEMMA LostDecides ==
    ASSUME KeepsInv, AnswerLost, NEW d \in Delivery, slot.d = d
    PROVE  \/ Promised!Decide(d) \/ Promised!Reopen(d) \/ Promised!Interrupt(d)
           \/ UNCHANGED Promised!contractVars
<1> USE DEF KeepsInv, ChainInv, TypeOK
<1>1. /\ accepted' = accepted /\ refused' = refused
      /\ torn' = IF slot.pc = "enqueue" \/ (slot.pc = "record" /\ slot.ok)
                 THEN torn \cup {d} ELSE torn
      /\ slot.n \in Attempt /\ job[d][slot.n].state = "active"
      /\ slot.pc \in {"record", "fail", "retry", "enqueue"}
      /\ slot.pc # "enqueue" => job' = job
      /\ slot.pc = "enqueue" => row' = row
      /\ \A e \in Delivery : e # d => row'[e] = row[e]
  BY LostIs
<1>2. \A e \in Delivery, m \in Attempt :
          e # d \/ m = slot.n => job'[e][m] = job[e][m]
  <2>1. CASE slot.pc = "enqueue"
    BY <1>1, <2>1, Added DEF AnswerLost, Attempt
  <2> QED
    BY <1>1, <2>1
<1>3. ~Over(d) /\ ~Over(d)' /\ \A e \in Delivery : e # d => (Over(e)' <=> Over(e))
  <2>1. job'[d][slot.n].state = "active"
    BY <1>1, <1>2
  <2>2. ~Over(d) /\ ~Over(d)'
    BY <1>1, <2>1 DEF Over
  <2>3. \A e \in Delivery : e # d => (Over(e)' <=> Over(e))
    BY <1>2 DEF Over
  <2> QED
    BY <2>2, <2>3
<1>4. Outcome' = [Outcome EXCEPT ![d] = Outcome'[d]]
  BY <1>1, <1>3, OutcomeOfOne
<1>5. Outcome = [Outcome EXCEPT ![d] = Outcome[d]]
  BY DEF Outcome
<1>6. /\ Outcome[d] \in {"sent", "undecided"} /\ Outcome'[d] \in {"sent", "undecided"}
      /\ Outcome[d] = "undecided" \/ d \in torn
  BY <1>1, <1>3, RunIsOpen, OutcomeIs
<1>7. CASE Outcome'[d] = Outcome[d]
  BY <1>1, <1>4, <1>5, <1>7 DEF Promised!Interrupt, Promised!contractVars
<1>8. CASE Outcome'[d] = "sent" /\ Outcome[d] = "undecided"
  <2>1. row'[d].status = "sent" /\ row[d].status # "sent"
    BY <1>3, <1>8, OutcomeIs
  <2>2. slot.pc = "record" /\ slot.ok
    BY <1>1, <2>1 DEF AnswerLost, StoreAnswer, StoreFailed, StoreRetrying
  <2>3. accepted[d] > 0
    BY <2>2 DEF SlotFits
  <2> QED
    BY <1>1, <1>4, <1>8, <2>2, <2>3 DEF Promised!Decide, Promised!Open
<1>9. CASE Outcome'[d] = "undecided" /\ Outcome[d] = "sent"
  <2>1. row'[d].status # "sent" /\ row[d].status = "sent"
    BY <1>3, <1>9, OutcomeIs
  <2>2. torn' = torn
    BY <1>1, <2>1 DEF AnswerLost, StoreAnswer
  <2> QED
    BY <1>1, <1>4, <1>6, <1>9, <2>2 DEF Promised!Reopen
<1> QED
  BY <1>6, <1>7, <1>8, <1>9

\* The end of the last run is where FAILED becomes the outcome.
LEMMA SettleDecides ==
    ASSUME KeepsInv, KeepsInv', Settle, NEW d \in Delivery, slot.d = d
    PROVE  Promised!Decide(d) \/ UNCHANGED Promised!contractVars
<1> USE DEF KeepsInv, ChainInv, TypeOK, receiver
<1>1. /\ row' = row /\ accepted' = accepted /\ refused' = refused /\ torn' = torn
      /\ slot.n \in Attempt /\ slot.pc # "idle"
      /\ job[d][slot.n] \in Job /\ job[d][slot.n].state = "active"
      /\ \A e \in Delivery : e # d => job'[e] = job[e]
      /\ \A m \in Attempt : m # slot.n => job'[d][m] = job[d][m]
  BY DEF Settle, SlotFits
<1>2. ~Over(d) /\ \A e \in Delivery : e # d => (Over(e)' <=> Over(e))
  BY <1>1 DEF Over
<1>3. Outcome' = [Outcome EXCEPT ![d] = Outcome'[d]]
  BY <1>1, <1>2, OutcomeOfOne
<1>4. CASE ~(row[d].status = "failed" /\ Over(d)')
  <2>1. Outcome'[d] = Outcome[d]
    BY <1>1, <1>2, <1>4, OutcomeIs
  <2>2. Outcome' = Outcome
    BY <1>3, <2>1 DEF Outcome
  <2> QED
    BY <1>1, <2>2 DEF Promised!contractVars
<1>5. CASE row[d].status = "failed" /\ Over(d)'
  <2>1. Outcome'[d] = "failed" /\ Outcome[d] = "undecided"
    BY <1>1, <1>2, <1>5, OutcomeIs
  <2>2. slot.pc = "return"
    <3> SUFFICES ASSUME slot.pc = "throw" PROVE FALSE
      BY DEF Settle
    <3>1. job'[d][slot.n] = Retry(job[d][slot.n])
      BY DEF Settle
    <3>2. job'[d][slot.n].state # "none"
      BY <1>1, <3>1 DEF Retry, Job
    <3>3. job'[d][slot.n].state # "failed"
      BY <1>1 DEF NoneGivenUp, Spared
    <3> QED
      BY <1>1, <1>5, <3>2, <3>3 DEF Over
  <2>3. \A m \in Attempt : ~Working(d, m)
    <3> SUFFICES ASSUME NEW m \in Attempt, Working(d, m) PROVE FALSE
      OBVIOUS
    <3>1. m # slot.n
      BY <1>1, <2>2 DEF Working, On
    <3> QED
      BY <1>1, <1>5, <3>1 DEF Working, Over
  <2>4. refused[d] >= MaxAttempts
    BY <1>5, <2>3 DEF OneWorks, Earned
  <2> QED
    BY <1>1, <1>3, <2>1, <2>4 DEF Promised!Decide, Promised!Open
<1> QED
  BY <1>4, <1>5

LEMMA CrashInterrupts ==
    ASSUME KeepsInv, Crash
    PROVE  Promised!Interrupt(slot.d) \/ UNCHANGED Promised!contractVars
<1>1. Outcome' = Outcome
  BY OutcomeSame DEF Crash, Over
<1> QED
  BY <1>1 DEF Crash, Promised!Interrupt, Promised!contractVars

LEMMA InitPromised == Init => Promised!ContractInit
<1> SUFFICES ASSUME Init PROVE Promised!ContractInit
  OBVIOUS
<1>1. \A d \in Delivery : Outcome[d] = "undecided"
  BY OutcomeIs DEF Init
<1> QED
  BY <1>1 DEF Init, Outcome, Promised!ContractInit

\* Every step is a step of the contract, or is hidden from it.
LEMMA NextPromised ==
    KeepsInv /\ KeepsInv' /\ [Next]_vars =>
        [Promised!ContractNext]_(Promised!contractVars)
<1> SUFFICES ASSUME KeepsInv, KeepsInv', [Next]_vars
             PROVE  [Promised!ContractNext]_(Promised!contractVars)
  OBVIOUS
<1>0. slot.d \in Delivery
  BY DEF KeepsInv, ChainInv, TypeOK
<1>1. CASE UNCHANGED vars
  <2>1. Outcome' = Outcome
    BY <1>1, OutcomeSame DEF vars, Over
  <2> QED
    BY <1>1, <2>1 DEF vars, Promised!contractVars
<1>2. CASE \/ Find \/ CallFails \/ EnqueueNext
           \/ \E d \in Delivery, n \in Attempt : Take(d, n) \/ Promote(d, n) \/ Stall(d, n)
  BY <1>2, HiddenSteps DEF KeepsInv
<1>3. CASE \E ok \in BOOLEAN : Post(ok)
  BY <1>0, <1>3, PostCalls DEF Promised!ContractNext
<1>4. CASE Record \/ MarkDeliveryFailed \/ MarkDeliveryRetrying
  BY <1>0, <1>4, StoreDecides DEF Promised!ContractNext
<1>5. CASE Settle
  BY <1>0, <1>5, SettleDecides DEF Promised!ContractNext
<1>6. CASE Crash
  BY <1>0, <1>6, CrashInterrupts DEF Promised!ContractNext
<1>7. CASE AnswerLost
  BY <1>0, <1>7, LostDecides DEF Promised!ContractNext
<1> QED
  BY <1>1, <1>2, <1>3, <1>4, <1>5, <1>6, <1>7 DEF Next, Process

\* The processor implements the contract, but for the promise that an outcome
\* comes: SENT is stored for a 2xx answer only, and FAILED stays only after
\* MaxAttempts refusals.  Both are for good and no call follows either, unless the
\* process died in a run of the delivery or the call that stored SENT
\* (webhooks.service.ts:105-110) or that enqueued the next attempt
\* (queue.service.ts:102) took effect and its answer was lost
\* (webhook-delivery.processor.ts:19-47).
THEOREM KeepsContract ==
    ASSUME EnoughAttempts
    PROVE  Spec => Promised!ContractSafety
<1>1. Init => KeepsInv
  BY InitKeeps
<1>2. KeepsInv /\ [Next]_vars => KeepsInv'
  BY NextKeeps
<1> QED
  BY <1>1, <1>2, InitPromised, NextPromised, PTL DEF Spec, Promised!ContractSafety
=============================================================================
