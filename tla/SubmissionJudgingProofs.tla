---------------------- MODULE SubmissionJudgingProofs ----------------------
(***************************************************************************)
(* Proofs about the judging pipeline, for every number of submissions,     *)
(* test cases, worker slots, attempts and faults: its types, the bound on  *)
(* executions, that verdicts are earned; then the order of the rows, the   *)
(* score of an error, the status of a job that is over and the safety part *)
(* of SubmissionContract.                                                  *)
(***************************************************************************)
EXTENDS SubmissionJudging, FiniteSetTheorems, TLAPS

-----------------------------------------------------------------------------
(* Type correctness *)

\* A run that judges has test cases to judge: one that found none has thrown.
\* TypeOK needs it, for the score divides by their number.
RunsHaveCases == \A w \in Worker : run[w].pc = "judge" => run[w].cases # {}

\* A set of test cases is finite, and its size a number that is zero only for
\* the empty set (submission.processor.ts:67-69 guards the division by it).
LEMMA CasesCounted ==
    ASSUME NEW S \in SUBSET TestCase
    PROVE  /\ IsFiniteSet(S)
           /\ Cardinality(S) \in Nat
           /\ S # {} => Cardinality(S) > 0
<1>1. IsFiniteSet(S)
  BY TestsAssumption, FS_Subset
<1>2. Cardinality(S) \in Nat /\ (Cardinality(S) = 0 <=> S = {})
  BY <1>1, FS_CardinalityType, FS_EmptySet
<1> QED
  BY <1>1, <1>2

\* A score is a natural number (submission.processor.ts:166-169).
LEMMA ScoreIsNat ==
    ASSUME NEW p \in Nat, NEW n \in Nat, n > 0
    PROVE  Score(p, n) \in Nat
<1>1. 200 * p + n \in Nat /\ 2 * n \in Nat /\ 2 * n > 0
  OBVIOUS
<1>2. \A a, b \in Nat : b > 0 => a \div b \in Nat
  OBVIOUS
<1> QED
  BY <1>1, <1>2 DEF Score

Typed == TypeOK /\ RunsHaveCases

LEMMA InitTyped == Init => Typed
<1> SUFFICES ASSUME Init PROVE Typed
  OBVIOUS
<1>1. IdleRun \in Run
  BY SubmissionAssumption DEF IdleRun, Run, PC
<1>2. NoJob \in Job
  BY DEF NoJob, Job, JobState
<1>3. RunsHaveCases
  BY DEF Init, RunsHaveCases, IdleRun
<1> QED
  BY <1>1, <1>2, <1>3, TestsAssumption DEF Init, Typed, TypeOK, Request, Status

LEMMA SpendTyped ==
    ASSUME used \in [Fault -> Nat], NEW f \in Fault, Spend(f)
    PROVE  used' \in [Fault -> Nat]
BY DEF Spend

\* Whatever the outcome of a run, its job stays a job.
LEMMA JobTyped ==
    ASSUME NEW j \in Job
    PROVE  /\ Requeue(j) \in Job
           /\ Retry(j) \in Job
           /\ [j EXCEPT !.state = "done", !.owner = NoWorker] \in Job
<1>1. j.made + 1 \in Nat /\ j.stalls + 1 \in Nat
  BY DEF Job
<1>3. Requeue(j) \in Job
  <2>1. \A st \in JobState, stalls \in Nat :
           [j EXCEPT !.state = st, !.stalls = stalls, !.owner = NoWorker] \in Job
    BY DEF Job
  <2>2. (IF j.stalls < MaxStalledCount THEN "waiting" ELSE "failed") \in JobState
    BY DEF JobState
  <2> QED
    BY <1>1, <2>1, <2>2 DEF Requeue
<1>4. Retry(j) \in Job
  <2>1. \A st \in JobState, made \in Nat :
           [j EXCEPT !.state = st, !.made = made, !.owner = NoWorker] \in Job
    BY DEF Job
  <2>2. (IF j.made + 1 < Attempts THEN "delayed" ELSE "failed") \in JobState
    BY DEF JobState
  <2> QED
    BY <1>1, <2>1, <2>2 DEF Retry
<1> QED
  BY <1>3, <1>4 DEF Job, JobState

\* The requests and the queue keep the types.
LEMMA QueueTyped ==
    ASSUME Typed,
           \/ \E s \in Submission : Serve(s) \/ Promote(s) \/ Stall(s)
           \/ \E w \in Worker, s \in Submission : Take(w, s)
           \/ \E w \in Worker : Settle(w)
    PROVE  Typed'
<1> USE DEF Typed, TypeOK, database
<1>0. IdleRun \in Run /\ NoJob \in Job /\ Fault = {"reject", "ack", "crash", "lock", "edit", "request"}
  BY SubmissionAssumption DEF IdleRun, Run, PC, NoJob, Job, JobState, Fault, Limit
<1>1. ASSUME NEW s \in Submission, CheckRequest(s) PROVE Typed'
  BY <1>1 DEF CheckRequest, RequestStep, Request, RunsHaveCases
<1>2. ASSUME NEW s \in Submission, SaveSubmission(s) PROVE Typed'
  BY <1>2 DEF SaveSubmission, RequestStep, Request, RunsHaveCases, Status
<1>3. ASSUME NEW s \in Submission, AddJob(s) PROVE job' \in [Submission -> Job]
  BY <1>0, <1>3 DEF AddJob, Job, JobState
<1>4. ASSUME NEW s \in Submission, Enqueue(s) PROVE Typed'
  BY <1>3, <1>4 DEF Enqueue, RequestStep, Request, RunsHaveCases
<1>5. ASSUME NEW s \in Submission, EnqueueFails(s) PROVE Typed'
  BY <1>0, <1>3, <1>5, SpendTyped DEF EnqueueFails, RequestStep, Request, RunsHaveCases
<1>6. ASSUME NEW s \in Submission, Promote(s) PROVE Typed'
  BY <1>6 DEF Promote, Job, JobState, RunsHaveCases
<1>7. ASSUME NEW s \in Submission, Stall(s) PROVE Typed'
  <2>1. Requeue(job[s]) \in Job
    BY JobTyped
  <2>2. used' \in [Fault -> Nat]
    <3>1. CASE Dead(s)
      BY <1>7, <3>1 DEF Stall
    <3>2. CASE ~Dead(s)
      BY <1>0, <1>7, <3>2, SpendTyped DEF Stall
    <3> QED
      BY <3>1, <3>2
  <2> QED
    BY <1>7, <2>1, <2>2 DEF Stall, RunsHaveCases
<1>8. ASSUME NEW w \in Worker, NEW s \in Submission, Take(w, s) PROVE Typed'
  <2>1. job' \in [Submission -> Job]
    BY <1>8 DEF Take, Job, JobState
  <2> DEFINE new == [IdleRun EXCEPT !.pc = "fetch", !.sub = s, !.exec = execs[s] + 1]
  <2>2. new \in Run /\ new.pc = "fetch"
    <3>1. execs[s] + 1 \in Nat
      OBVIOUS
    <3> QED
      BY <3>1 DEF IdleRun, Run, PC, Trying
  <2>3. run' = [run EXCEPT ![w] = new]
    BY <1>8 DEF Take
  <2>5. execs' \in [Submission -> Nat]
    <3>1. execs[s] + 1 \in Nat
      OBVIOUS
    <3> QED
      BY <1>8, <3>1 DEF Take
  <2> HIDE DEF new
  <2>4. run' \in [Worker -> Run] /\ RunsHaveCases'
    BY <2>2, <2>3 DEF RunsHaveCases
  <2> QED
    BY <1>8, <2>1, <2>4, <2>5 DEF Take
<1>9. ASSUME NEW w \in Worker, Settle(w) PROVE Typed'
  <2> DEFINE s == run[w].sub
             done == [job[s] EXCEPT !.state = "done", !.owner = NoWorker]
  <2>1. s \in Submission
    BY DEF Run
  <2>2. Retry(job[s]) \in Job /\ done \in Job
    BY <2>1, JobTyped
  <2>3. job' \in [Submission -> Job]
    <3>1. \/ job' = job
          \/ job' = [job EXCEPT ![s] = done]
          \/ job' = [job EXCEPT ![s] = Retry(job[s])]
      BY <1>9, <2>1 DEF Settle
    <3> QED
      BY <2>1, <2>2, <3>1
  <2>4. RunsHaveCases'
    <3>1. IdleRun.pc # "judge" /\ run' = [run EXCEPT ![w] = IdleRun]
      BY <1>9 DEF IdleRun, Settle
    <3> QED
      BY <3>1 DEF RunsHaveCases
  <2> QED
    BY <1>0, <1>9, <2>3, <2>4 DEF Settle
<1> QED
  BY <1>1, <1>2, <1>4, <1>5, <1>6, <1>7, <1>8, <1>9 DEF Serve

\* The writes of a run keep the types of the database.
LEMMA WritesTyped ==
    ASSUME Typed, NEW w \in Worker,
           \/ \E st \in Status : WriteStatus(w, st)
           \/ \E c \in TestCase, passed \in BOOLEAN : WriteRow(w, c, passed)
           \/ run[w].pc = "judge" /\ WriteVerdict(w)
    PROVE  /\ status' \in [Submission -> Status]
           /\ score' \in [Submission -> Nat]
           /\ results' \in [Submission -> SUBSET Row]
           /\ judged' \in [Submission -> [exec: Nat, cases: SUBSET TestCase]]
<1> USE DEF Typed, TypeOK
<1> DEFINE r == run[w]
<1>0. r \in Run
  OBVIOUS
<1>1. /\ r.sub \in Submission /\ r.exec \in Nat /\ r.score \in Nat
      /\ r.cases \in SUBSET TestCase /\ r.passed \in SUBSET TestCase
  BY <1>0 DEF Run
<1>2. ASSUME NEW st \in Status, WriteStatus(w, st)
      PROVE  /\ status' \in [Submission -> Status] /\ score' \in [Submission -> Nat]
             /\ results' = results /\ judged' = judged
  BY <1>1, <1>2 DEF WriteStatus
<1>3. ASSUME NEW c \in TestCase, NEW passed \in BOOLEAN, WriteRow(w, c, passed)
      PROVE  /\ results' \in [Submission -> SUBSET Row]
             /\ status' = status /\ score' = score /\ judged' = judged
  <2>1. [exec |-> r.exec, case |-> c, passed |-> passed] \in Row
    BY <1>1 DEF Row
  <2> QED
    BY <1>1, <1>3, <2>1 DEF WriteRow
<1>4. ASSUME r.pc = "judge", WriteVerdict(w)
      PROVE  /\ status' \in [Submission -> Status] /\ score' \in [Submission -> Nat]
             /\ judged' \in [Submission -> [exec: Nat, cases: SUBSET TestCase]]
             /\ results' = results
  <2>1. Verdict(r) \in Status
    BY DEF Verdict, Status, Final
  <2>2. r.cases # {}
    BY <1>4 DEF RunsHaveCases
  <2>3. Score(Cardinality(r.passed), Cardinality(r.cases)) \in Nat
    BY <1>1, <2>2, CasesCounted, ScoreIsNat
  <2>4. [exec |-> r.exec, cases |-> r.cases] \in [exec: Nat, cases: SUBSET TestCase]
    BY <1>1
  <2> QED
    BY <1>1, <1>4, <2>1, <2>3, <2>4 DEF WriteVerdict
<1> QED
  BY <1>2, <1>3, <1>4

\* A run that only moves to another place of the code that is not "judge".
LEMMA GoToTyped ==
    ASSUME Typed, NEW w \in Worker, NEW pc \in PC \ {"judge"}, GoTo(w, pc)
    PROVE  run' \in [Worker -> Run] /\ RunsHaveCases'
<1>1. run[w] \in Run
  BY DEF Typed, TypeOK
<1>2. [run[w] EXCEPT !.pc = pc] \in Run /\ [run[w] EXCEPT !.pc = pc].pc = pc
  BY <1>1 DEF Run
<1> QED
  BY <1>2 DEF GoTo, Typed, TypeOK, RunsHaveCases

\* The steps of processSubmission, failing or not, keep the types.
LEMMA RunTyped ==
    ASSUME Typed, NEW w \in Worker,
           Process(w) \/ CallFails(w) \/ AckLost(w), ~Settle(w)
    PROVE  Typed'
<1> USE DEF Typed, TypeOK, database
<1> DEFINE r == run[w]
<1>0. r \in Run /\ r.sub \in Submission /\ score[r.sub] \in Nat
  <2>1. r \in Run
    OBVIOUS
  <2> QED
    BY <2>1 DEF Run
<1>a. Final \subseteq Status /\ "running" \in Status /\ "runtime_error" \in Status
  BY DEF Final, Status
<1>b. /\ {"start", "load", "announce", "settle", "mark", "rethrow", "refetch"} \subseteq PC \ {"judge"}
      /\ \A pc \in PC : Handler(pc) \in PC \ {"judge"}
  BY DEF PC, Trying, Catching, Ending, Handler
<1>c. ASSUME NEW f \in {"reject", "ack"}, Spend(f) PROVE used' \in [Fault -> Nat]
  BY <1>c, SpendTyped DEF Fault, Limit
<1>1. ASSUME FetchSubmission(w) \/ Refetch(w) PROVE Typed'
  <2>1. PICK pc \in PC \ {"judge"} : run' = [run EXCEPT ![w] = [r EXCEPT !.pc = pc, !.score = score[r.sub]]]
    BY <1>1, <1>b DEF FetchSubmission, Refetch
  <2>2. [r EXCEPT !.pc = pc, !.score = score[r.sub]] \in Run
    BY <1>0 DEF Run
  <2>3. [r EXCEPT !.pc = pc, !.score = score[r.sub]].pc = pc
    BY <1>0 DEF Run
  <2>4. run' \in [Worker -> Run] /\ RunsHaveCases'
    BY <2>1, <2>2, <2>3 DEF RunsHaveCases
  <2> QED
    BY <1>1, <2>4 DEF FetchSubmission, Refetch
<1>2. ASSUME MarkRunning(w) \/ MarkError(w) PROVE Typed'
  <2>1. \E st \in Status : WriteStatus(w, st)
    BY <1>2, <1>a DEF MarkRunning, MarkError
  <2>2. run' \in [Worker -> Run] /\ RunsHaveCases'
    BY <1>2, <1>b, GoToTyped DEF MarkRunning, MarkError
  <2> QED
    BY <1>2, <2>1, <2>2, WritesTyped DEF MarkRunning, MarkError
<1>3. ASSUME LoadTests(w) PROVE Typed'
  <2> DEFINE pc == IF tests = {} THEN Handler("load") ELSE "judge"
             new == [r EXCEPT !.pc = pc, !.cases = tests]
  <2>1. run' = [run EXCEPT ![w] = new]
    BY <1>3 DEF LoadTests
  <2>2. pc \in PC
    BY <1>b DEF PC, Trying
  <2>3. pc = "judge" => tests # {}
    BY DEF Handler, Trying
  <2> HIDE DEF pc
  <2>4. new \in Run /\ new.pc = pc /\ new.cases = tests
    BY <1>0, <2>2 DEF Run
  <2> HIDE DEF new
  <2>5. run' \in [Worker -> Run] /\ RunsHaveCases'
    BY <2>1, <2>3, <2>4 DEF RunsHaveCases
  <2> QED
    BY <1>3, <2>5 DEF LoadTests
<1>4. ASSUME NEW c \in TestCase, NEW passed \in BOOLEAN, JudgeCase(w, c, passed) PROVE Typed'
  <2> DEFINE now == IF passed THEN r.passed \cup {c} ELSE r.passed
             new == [r EXCEPT !.ran = r.ran \cup {c}, !.passed = now]
  <2>1. run' = [run EXCEPT ![w] = new]
    BY <1>4 DEF JudgeCase
  <2>2. r.ran \cup {c} \in SUBSET TestCase /\ now \in SUBSET TestCase
    BY <1>0 DEF Run
  <2> HIDE DEF now
  <2>3. new \in Run /\ new.pc = r.pc /\ new.cases = r.cases
    BY <1>0, <2>2 DEF Run
  <2> HIDE DEF new
  <2>4. run' \in [Worker -> Run] /\ RunsHaveCases'
    BY <2>1, <2>3 DEF RunsHaveCases
  <2> QED
    BY <1>4, <2>4, WritesTyped DEF JudgeCase
<1>5. ASSUME SaveVerdict(w) PROVE Typed'
  <2>1. run' \in [Worker -> Run] /\ RunsHaveCases'
    BY <1>5, <1>b, GoToTyped DEF SaveVerdict
  <2> QED
    BY <1>5, <2>1, WritesTyped DEF SaveVerdict
<1>6. ASSUME Announce(w) PROVE Typed'
  <2>1. run' \in [Worker -> Run] /\ RunsHaveCases'
    BY <1>6, <1>b, GoToTyped DEF Announce
  <2> QED
    BY <1>6, <2>1 DEF Announce
<1>7. ASSUME CallFails(w) PROVE Typed'
  <2>1. run' \in [Worker -> Run] /\ RunsHaveCases'
    BY <1>7, <1>0, <1>b, GoToTyped DEF CallFails, Throw, Run
  <2> QED
    BY <1>7, <1>c, <2>1 DEF CallFails
<1>8. ASSUME AckLost(w) PROVE Typed'
  <2>1. run' \in [Worker -> Run] /\ RunsHaveCases'
    BY <1>8, <1>0, <1>b, GoToTyped DEF AckLost, Throw, Run
  <2>2. \/ \E st \in Status : WriteStatus(w, st)
        \/ \E c \in TestCase, passed \in BOOLEAN : WriteRow(w, c, passed)
        \/ run[w].pc = "judge" /\ WriteVerdict(w)
    <3>1. NextCases(r) \subseteq TestCase
      BY <1>0 DEF NextCases, Phase, Run
    <3> QED
      BY <1>8, <1>a, <3>1 DEF AckLost
  <2> QED
    BY <1>8, <1>c, <2>1, <2>2, WritesTyped DEF AckLost
<1> QED
  BY <1>1, <1>2, <1>3, <1>4, <1>5, <1>6, <1>7, <1>8 DEF Process

\* The environment keeps the types.
LEMMA EnvironmentTyped ==
    ASSUME Typed, Crash \/ EditTests
    PROVE  Typed'
<1> USE DEF Typed, TypeOK, database
<1>0. ASSUME NEW f \in {"crash", "edit"}, Spend(f) PROVE used' \in [Fault -> Nat]
  BY <1>0, SpendTyped DEF Fault, Limit
<1>1. CASE Crash
  <2>1. IdleRun \in Run /\ IdleRun.pc # "judge"
    BY SubmissionAssumption DEF IdleRun, Run, PC
  <2>2. run' \in [Worker -> Run] /\ RunsHaveCases'
    BY <1>1, <2>1 DEF Crash, RunsHaveCases
  <2>3. request' \in [Submission -> Request]
    BY <1>1 DEF Crash, Request
  <2> QED
    BY <1>0, <1>1, <2>2, <2>3 DEF Crash
<1>2. CASE EditTests
  BY <1>0, <1>2 DEF EditTests, RunsHaveCases
<1> QED
  BY <1>1, <1>2

\* Every step keeps the types.
LEMMA NextTyped == Typed /\ [Next]_vars => Typed'
<1> SUFFICES ASSUME Typed, [Next]_vars PROVE Typed'
  OBVIOUS
<1>1. CASE UNCHANGED vars
  BY <1>1 DEF vars, Typed, TypeOK, RunsHaveCases
<1>2. ASSUME NEW w \in Worker, Process(w) \/ CallFails(w) \/ AckLost(w) PROVE Typed'
  BY <1>2, QueueTyped, RunTyped
<1> QED
  BY <1>1, <1>2, QueueTyped, EnvironmentTyped DEF Next

\* The values of every variable stay in their types: in particular every stored
\* score is a natural number, since no run that judges is without test cases.
THEOREM TypeCorrect == Spec => []TypeOK
<1>1. Spec => []Typed
  BY InitTyped, NextTyped, PTL DEF Spec
<1> QED
  BY <1>1, PTL DEF Typed
-----------------------------------------------------------------------------
(* Executions are bounded *)

\* The account behind the bound: every start of the processor is the job's
\* current run, its successful run, a failed attempt or a stall; a job that goes
\* on has attempts and stalls to spare; nothing ran before it was enqueued.
ExecutionsAccounted ==
    \A s \in Submission :
        LET j == job[s] IN
        /\ execs[s] = j.made + j.stalls + (IF j.state \in {"active", "done"} THEN 1 ELSE 0)
        /\ IF j.state = "failed" THEN j.made + j.stalls <= Attempts + MaxStalledCount
           ELSE j.made < Attempts /\ j.stalls <= MaxStalledCount
        /\ request[s] \in {"none", "checked", "saved"} => j = NoJob

LEMMA InitAccounted == Init => ExecutionsAccounted
BY QueueAssumption DEF Init, ExecutionsAccounted, NoJob

\* A step that leaves the job, the count and the request of a submission alone
\* keeps its account; so does one whose request only stays out of the queue.
LEMMA AccountKept ==
    ASSUME Typed, ExecutionsAccounted, job' = job, execs' = execs,
           \A s \in Submission :
              request'[s] \in {"none", "checked", "saved"} =>
                  request[s] \in {"none", "checked", "saved"}
    PROVE  ExecutionsAccounted'
BY DEF ExecutionsAccounted

\* A step that moves the job of one submission keeps the account when it keeps
\* the account of that one.
LEMMA AccountOf ==
    ASSUME Typed, ExecutionsAccounted, NEW s \in Submission, NEW j \in Job, NEW n \in Nat,
           job' = [job EXCEPT ![s] = j],
           execs' = [execs EXCEPT ![s] = n],
           request' = request \/ request' = [request EXCEPT ![s] = "answered"]
                              \/ request' = [request EXCEPT ![s] = "failed"],
           request'[s] \notin {"none", "checked", "saved"},
           n = j.made + j.stalls + (IF j.state \in {"active", "done"} THEN 1 ELSE 0),
           IF j.state = "failed" THEN j.made + j.stalls <= Attempts + MaxStalledCount
           ELSE j.made < Attempts /\ j.stalls <= MaxStalledCount
    PROVE  ExecutionsAccounted'
<1> SUFFICES ASSUME NEW u \in Submission
             PROVE  LET i == job'[u] IN
                    /\ execs'[u] = i.made + i.stalls + (IF i.state \in {"active", "done"} THEN 1 ELSE 0)
                    /\ IF i.state = "failed" THEN i.made + i.stalls <= Attempts + MaxStalledCount
                       ELSE i.made < Attempts /\ i.stalls <= MaxStalledCount
                    /\ request'[u] \in {"none", "checked", "saved"} => i = NoJob
  BY DEF ExecutionsAccounted
<1>1. CASE u = s
  BY <1>1 DEF Typed, TypeOK
<1>2. CASE u # s
  BY <1>2 DEF Typed, TypeOK, ExecutionsAccounted
<1> QED
  BY <1>1, <1>2

LEMMA NextAccounted == Typed /\ ExecutionsAccounted /\ [Next]_vars => ExecutionsAccounted'
<1> SUFFICES ASSUME Typed, ExecutionsAccounted, [Next]_vars PROVE ExecutionsAccounted'
  OBVIOUS
<1> USE DEF database
<1>0. /\ Attempts \in Nat \ {0} /\ MaxStalledCount \in Nat
      /\ \A s \in Submission : /\ job[s] \in Job /\ execs[s] \in Nat
                               /\ job[s].made \in Nat /\ job[s].stalls \in Nat
  BY QueueAssumption DEF Typed, TypeOK, Job
<1>1. CASE UNCHANGED vars
  BY <1>1, AccountKept DEF vars
<1>2. ASSUME NEW s \in Submission, CheckRequest(s) \/ SaveSubmission(s)
      PROVE  ExecutionsAccounted'
  BY <1>2, AccountKept DEF CheckRequest, SaveSubmission, RequestStep, Typed, TypeOK
<1>3. ASSUME NEW s \in Submission, Enqueue(s) \/ EnqueueFails(s)
      PROVE  ExecutionsAccounted'
  <2>1. request[s] = "saved" /\ execs' = execs
        /\ (request' = [request EXCEPT ![s] = "answered"] \/ request' = [request EXCEPT ![s] = "failed"])
        /\ (AddJob(s) \/ job' = job)
    BY <1>3 DEF Enqueue, EnqueueFails, RequestStep
  <2>2. job[s] = NoJob /\ execs[s] = 0
    BY <2>1 DEF ExecutionsAccounted, NoJob
  <2>3. CASE AddJob(s)
    <3> DEFINE j == [NoJob EXCEPT !.state = "waiting"]
    <3>1. j \in Job /\ j.made = 0 /\ j.stalls = 0 /\ j.state = "waiting"
      BY DEF NoJob, Job, JobState
    <3>2. job' = [job EXCEPT ![s] = j] /\ execs' = [execs EXCEPT ![s] = 0]
      BY <2>1, <2>2, <2>3 DEF AddJob, Typed, TypeOK
    <3>3. request'[s] \notin {"none", "checked", "saved"}
      BY <2>1 DEF Typed, TypeOK
    <3> HIDE DEF j
    <3>4. 0 = j.made + j.stalls + (IF j.state \in {"active", "done"} THEN 1 ELSE 0)
      BY <3>1
    <3>5. IF j.state = "failed" THEN j.made + j.stalls <= Attempts + MaxStalledCount
          ELSE j.made < Attempts /\ j.stalls <= MaxStalledCount
      BY <1>0, <3>1
    <3> QED
      BY <2>1, <3>1, <3>2, <3>3, <3>4, <3>5, AccountOf
  <2>4. CASE job' = job
    BY <2>1, <2>4, AccountKept DEF Typed, TypeOK
  <2> QED
    BY <2>1, <2>3, <2>4
<1>4. ASSUME NEW s \in Submission, job[s].state # "none", NEW j \in Job, NEW n \in Nat,
             job' = [job EXCEPT ![s] = j], execs' = [execs EXCEPT ![s] = n],
             request' = request,
             n = j.made + j.stalls + (IF j.state \in {"active", "done"} THEN 1 ELSE 0),
             IF j.state = "failed" THEN j.made + j.stalls <= Attempts + MaxStalledCount
             ELSE j.made < Attempts /\ j.stalls <= MaxStalledCount
      PROVE  ExecutionsAccounted'
  <2>1. request'[s] \notin {"none", "checked", "saved"}
    BY <1>4 DEF ExecutionsAccounted, NoJob
  <2> QED
    BY <1>4, <2>1, AccountOf
<1>5. ASSUME NEW s \in Submission, Promote(s) PROVE ExecutionsAccounted'
  <2> DEFINE j == [job[s] EXCEPT !.state = "waiting"]
  <2>1. j \in Job /\ j.state = "waiting" /\ j.made = job[s].made /\ j.stalls = job[s].stalls
    BY <1>0 DEF Job, JobState
  <2>2. job' = [job EXCEPT ![s] = j] /\ execs' = [execs EXCEPT ![s] = execs[s]]
    BY <1>5 DEF Promote, Typed, TypeOK
  <2> HIDE DEF j
  <2>3. job[s].state = "delayed" /\ request' = request
    BY <1>5 DEF Promote
  <2> QED
    BY <1>0, <1>4, <2>1, <2>2, <2>3 DEF ExecutionsAccounted
<1>6. ASSUME NEW s \in Submission, Stall(s) PROVE ExecutionsAccounted'
  <2> DEFINE j == Requeue(job[s])
  <2>1. j \in Job /\ j.made = job[s].made /\ j.stalls = job[s].stalls + 1
        /\ j.state = IF job[s].stalls < MaxStalledCount THEN "waiting" ELSE "failed"
    BY <1>0, JobTyped DEF Requeue, Job
  <2>2. job' = [job EXCEPT ![s] = j] /\ execs' = [execs EXCEPT ![s] = execs[s]]
    BY <1>6 DEF Stall, Typed, TypeOK
  <2> HIDE DEF j
  <2>3. job[s].state = "active" /\ request' = request
    BY <1>6 DEF Stall
  <2>4. execs[s] = j.made + j.stalls + (IF j.state \in {"active", "done"} THEN 1 ELSE 0)
    BY <1>0, <2>1, <2>3 DEF ExecutionsAccounted
  <2>5. IF j.state = "failed" THEN j.made + j.stalls <= Attempts + MaxStalledCount
        ELSE j.made < Attempts /\ j.stalls <= MaxStalledCount
    BY <1>0, <2>1, <2>3 DEF ExecutionsAccounted
  <2> QED
    BY <1>0, <1>4, <2>1, <2>2, <2>3, <2>4, <2>5
<1>7. ASSUME NEW w \in Worker, NEW s \in Submission, Take(w, s) PROVE ExecutionsAccounted'
  <2> DEFINE j == [job[s] EXCEPT !.state = "active", !.owner = w]
  <2>1. j \in Job /\ j.made = job[s].made /\ j.stalls = job[s].stalls /\ j.state = "active"
    BY <1>0 DEF Job, JobState
  <2>2. job' = [job EXCEPT ![s] = j] /\ execs' = [execs EXCEPT ![s] = execs[s] + 1]
    BY <1>7 DEF Take
  <2> HIDE DEF j
  <2>3. job[s].state = "waiting" /\ request' = request
    BY <1>7 DEF Take
  <2>4. execs[s] + 1 = j.made + j.stalls + (IF j.state \in {"active", "done"} THEN 1 ELSE 0)
    BY <1>0, <2>1, <2>3 DEF ExecutionsAccounted
  <2>5. IF j.state = "failed" THEN j.made + j.stalls <= Attempts + MaxStalledCount
        ELSE j.made < Attempts /\ j.stalls <= MaxStalledCount
    BY <1>0, <2>1, <2>3 DEF ExecutionsAccounted
  <2>6. execs[s] + 1 \in Nat
    BY <1>0
  <2> QED
    BY <1>4, <2>1, <2>2, <2>3, <2>4, <2>5, <2>6
<1>8. ASSUME NEW w \in Worker, Settle(w) PROVE ExecutionsAccounted'
  <2> DEFINE s == run[w].sub
             done == [job[s] EXCEPT !.state = "done", !.owner = NoWorker]
             again == Retry(job[s])
  <2>0. s \in Submission
    BY DEF Typed, TypeOK, Run
  <2>1. /\ done \in Job /\ done.made = job[s].made /\ done.stalls = job[s].stalls
        /\ done.state = "done"
    BY <1>0, <2>0, JobTyped DEF Job
  <2>2. /\ again \in Job /\ again.made = job[s].made + 1 /\ again.stalls = job[s].stalls
        /\ again.state = IF job[s].made + 1 < Attempts THEN "delayed" ELSE "failed"
    BY <1>0, <2>0, JobTyped DEF Retry, Job
  <2>3. /\ execs' = execs /\ request' = request
        /\ \/ job' = job
           \/ job[s].state = "active" /\ job' = [job EXCEPT ![s] = done]
           \/ job[s].state = "active" /\ job' = [job EXCEPT ![s] = again]
    BY <1>8 DEF Settle, Owned
  <2>4. execs' = [execs EXCEPT ![s] = execs[s]]
    BY <2>3 DEF Typed, TypeOK
  <2> HIDE DEF done, again, s
  <2>5. CASE job' = job
    BY <2>3, <2>5, AccountKept
  <2>6. CASE job[s].state = "active" /\ job' = [job EXCEPT ![s] = done]
    BY <1>0, <1>4, <2>0, <2>1, <2>3, <2>4, <2>6 DEF ExecutionsAccounted
  <2>7. CASE job[s].state = "active" /\ job' = [job EXCEPT ![s] = again]
    <3>1. execs[s] = again.made + again.stalls
                     + (IF again.state \in {"active", "done"} THEN 1 ELSE 0)
      BY <1>0, <2>0, <2>2, <2>7 DEF ExecutionsAccounted
    <3>2. IF again.state = "failed" THEN again.made + again.stalls <= Attempts + MaxStalledCount
          ELSE again.made < Attempts /\ again.stalls <= MaxStalledCount
      BY <1>0, <2>0, <2>2, <2>7 DEF ExecutionsAccounted
    <3> QED
      BY <1>0, <1>4, <2>0, <2>2, <2>3, <2>4, <2>7, <3>1, <3>2
  <2> QED
    BY <2>3, <2>5, <2>6, <2>7
<1>9. ASSUME NEW w \in Worker, Process(w) \/ CallFails(w) \/ AckLost(w), ~Settle(w)
      PROVE  ExecutionsAccounted'
  <2>1. UNCHANGED <<job, execs, request>>
    BY <1>9 DEF Process, CallFails, AckLost, FetchSubmission, MarkRunning, LoadTests,
                JudgeCase, SaveVerdict, Announce, Refetch, MarkError
  <2> QED
    BY <2>1, AccountKept
<1>10. CASE Crash \/ EditTests
  BY <1>10, AccountKept DEF Crash, EditTests, Typed, TypeOK
<1> QED
  BY <1>1, <1>2, <1>3, <1>5, <1>6, <1>7, <1>8, <1>9, <1>10 DEF Next, Serve

\* Attempts + MaxStalledCount bounds the runs of a submission, with any number
\* of slots, crashes, expired locks and database faults.
THEOREM ExecutionsAreBounded == Spec => []ExecutionsBounded
<1>1. Spec => [](Typed /\ ExecutionsAccounted)
  BY InitTyped, NextTyped, InitAccounted, NextAccounted, PTL DEF Spec
<1>2. Typed /\ ExecutionsAccounted => ExecutionsBounded
  <2> SUFFICES ASSUME Typed, ExecutionsAccounted, NEW s \in Submission
               PROVE  execs[s] <= Attempts + MaxStalledCount
    BY DEF ExecutionsBounded
  <2>1. job[s].made \in Nat /\ job[s].stalls \in Nat /\ Attempts \in Nat /\ MaxStalledCount \in Nat
    BY QueueAssumption DEF Typed, TypeOK, Job
  <2> QED
    BY <2>1 DEF ExecutionsAccounted
<1> QED
  BY <1>1, <1>2, PTL
-----------------------------------------------------------------------------
(* Verdicts are earned *)

\* Two runs of one submission, which an expired lock may set side by side, have
\* different numbers, none above the count of executions; so have the rows and
\* the stored verdict.
RunsApart ==
    /\ \A w \in Worker : run[w].pc # "idle" => run[w].exec <= execs[run[w].sub]
    /\ \A v, w \in Worker :
          v # w /\ run[v].pc # "idle" /\ run[w].pc # "idle" /\ run[v].sub = run[w].sub
             => run[v].exec # run[w].exec
    /\ \A s \in Submission : /\ judged[s].exec <= execs[s]
                             /\ \A q \in results[s] : q.exec <= execs[s]

\* What a run r that may still write remembers of its rows is what the table
\* holds, and the stored verdict is not its own.
Faithful(r) ==
    r.pc \in Trying =>
        /\ r.exec # judged[r.sub].exec
        /\ \A q \in RowsOf(r.sub, r.exec) : q.passed => q.case \in r.passed
        /\ \A c \in r.passed : \E q \in RowsOf(r.sub, r.exec) : q.case = c /\ q.passed
        /\ r.passed \subseteq r.cases
        /\ r.pc # "judge" => r.passed = {}

RunsFaithful == \A w \in Worker : Faithful(run[w])

Earned(s) ==
    status[s] \in {"accepted", "wrong"} =>
        LET cases == judged[s].cases
            passed == {c \in cases : \E q \in RowsOf(s, judged[s].exec) :
                                          q.case = c /\ q.passed}
        IN  /\ cases # {}
            /\ status[s] = "accepted" <=> passed = cases
            /\ score[s] = Score(Cardinality(passed), Cardinality(cases))

Judged == RunsApart /\ RunsFaithful /\ \A s \in Submission : Earned(s)

LEMMA InitJudged == Init => Judged
BY DEF Init, Judged, RunsApart, RunsFaithful, Faithful, Earned, IdleRun, Trying

\* Nothing Judged speaks of changes, but for a status that is not a verdict.
LEMMA JudgedKept ==
    ASSUME Typed, Judged, UNCHANGED <<score, results, judged, run, execs>>,
           \A s \in Submission : status'[s] = status[s] \/ status'[s] = "pending"
    PROVE  Judged'
BY DEF Judged, RunsApart, RunsFaithful, Faithful, Earned, RowsOf

LEMMA CrashJudged ==
    ASSUME Typed, Judged, Crash
    PROVE  Judged'
<1>1. \A w \in Worker : run'[w].pc = "idle"
  BY DEF Crash, IdleRun
<1>2. RunsApart' /\ RunsFaithful'
  BY <1>1 DEF Crash, database, Judged, RunsApart, RunsFaithful, Faithful, Trying
<1>3. \A s \in Submission : Earned(s)'
  BY DEF Crash, database, Judged, Earned, RowsOf
<1> QED
  BY <1>2, <1>3 DEF Judged

\* A new run has a new number, which no row has.
LEMMA TakeJudged ==
    ASSUME Typed, Judged, NEW w \in Worker, NEW s \in Submission, Take(w, s)
    PROVE  Judged'
<1>0. PICK new : new = [IdleRun EXCEPT !.pc = "fetch", !.sub = s, !.exec = execs[s] + 1]
  OBVIOUS
<1>1. /\ new.pc = "fetch" /\ new.sub = s /\ new.exec = execs[s] + 1
      /\ new.passed = {} /\ new.cases = {}
  BY <1>0 DEF IdleRun
<1>2. /\ run' = [run EXCEPT ![w] = new] /\ execs' = [execs EXCEPT ![s] = execs[s] + 1]
      /\ UNCHANGED <<status, score, results, judged>>
  BY <1>0 DEF Take, database
<1>3. /\ \A u \in Submission : execs[u] \in Nat /\ execs'[u] \in Nat /\ execs[u] <= execs'[u]
      /\ execs'[s] = execs[s] + 1
      /\ \A u \in Submission : judged[u].exec \in Nat /\ \A q \in results[u] : q.exec \in Nat
      /\ \A v \in Worker : run[v].exec \in Nat /\ run[v].sub \in Submission
  BY <1>2 DEF Typed, TypeOK, Run, Row
<1>4. \A v \in Worker : run'[v] = IF v = w THEN new ELSE run[v]
  BY <1>2 DEF Typed, TypeOK
<1>5. RunsApart'
  <2>1. \A v \in Worker : run'[v].pc # "idle" => run'[v].exec <= execs'[run'[v].sub]
    BY <1>1, <1>3, <1>4 DEF Judged, RunsApart
  <2>2. \A v \in Worker : v # w /\ run[v].pc # "idle" /\ run[v].sub = s => run[v].exec < new.exec
    BY <1>1, <1>3 DEF Judged, RunsApart
  <2>3. \A u, v \in Worker :
          u # v /\ run'[u].pc # "idle" /\ run'[v].pc # "idle" /\ run'[u].sub = run'[v].sub
             => run'[u].exec # run'[v].exec
    BY <1>1, <1>3, <1>4, <2>2 DEF Judged, RunsApart
  <2>4. \A u \in Submission : /\ judged'[u].exec <= execs'[u]
                              /\ \A q \in results'[u] : q.exec <= execs'[u]
    BY <1>2, <1>3 DEF Judged, RunsApart
  <2> QED
    BY <2>1, <2>3, <2>4 DEF RunsApart
<1>6. RunsFaithful'
  <2>1. RowsOf(s, new.exec)' = {} /\ judged'[s].exec # new.exec
    BY <1>1, <1>2, <1>3 DEF Judged, RunsApart, RowsOf
  <2>2. Faithful(new)'
    BY <1>1, <2>1 DEF Faithful
  <2>3. \A v \in Worker : v # w => Faithful(run[v])'
    BY <1>2, <1>4 DEF Judged, RunsFaithful, Faithful, RowsOf
  <2> QED
    BY <1>4, <2>2, <2>3 DEF RunsFaithful
<1>7. \A u \in Submission : Earned(u)'
  BY <1>2 DEF Judged, Earned, RowsOf
<1> QED
  BY <1>5, <1>6, <1>7 DEF Judged

\* Runs stay apart when one of them goes on, or ends, and what is written has
\* the number of a run.
LEMMA StepApart ==
    ASSUME Typed, Judged, NEW w \in Worker, NEW new \in Run, run[w].pc # "idle",
           new.pc = "idle" \/ (new.sub = run[w].sub /\ new.exec = run[w].exec),
           run' = [run EXCEPT ![w] = new], execs' = execs,
           \A s \in Submission : /\ judged'[s].exec <= execs[s]
                                 /\ \A q \in results'[s] : q.exec <= execs[s]
    PROVE  RunsApart'
<1>1. \A v \in Worker : run'[v] = IF v = w THEN new ELSE run[v]
  BY DEF Typed, TypeOK
<1>2. \A v \in Worker : run'[v].pc # "idle" => run'[v].exec <= execs'[run'[v].sub]
  BY <1>1 DEF Judged, RunsApart
<1>3. \A u, v \in Worker :
          u # v /\ run'[u].pc # "idle" /\ run'[v].pc # "idle" /\ run'[u].sub = run'[v].sub
             => run'[u].exec # run'[v].exec
  BY <1>1 DEF Judged, RunsApart
<1> QED
  BY <1>2, <1>3 DEF RunsApart

\* A step of a run that writes neither a row nor a verdict.
LEMMA QuietJudged ==
    ASSUME Typed, Judged, NEW w \in Worker, NEW new \in Run, run[w].pc # "idle",
           new.pc = "idle" \/ (new.sub = run[w].sub /\ new.exec = run[w].exec),
           run' = [run EXCEPT ![w] = new], UNCHANGED <<execs, results, judged>>,
           \A s \in Submission : \/ status'[s] = status[s] /\ score'[s] = score[s]
                                 \/ status'[s] \notin {"accepted", "wrong"},
           Faithful(new)
    PROVE  Judged'
<1>1. RunsApart'
  BY StepApart DEF Judged, RunsApart
<1>2. \A v \in Worker : run'[v] = IF v = w THEN new ELSE run[v]
  BY DEF Typed, TypeOK
<1>3. \A v \in Worker : Faithful(run[v])'
  <2>1. Faithful(new)'
    BY DEF Faithful, RowsOf
  <2>2. \A v \in Worker : v # w => Faithful(run[v])'
    BY <1>2 DEF Judged, RunsFaithful, Faithful, RowsOf
  <2> QED
    BY <1>2, <2>1, <2>2
<1>4. \A s \in Submission : Earned(s)'
  BY DEF Judged, Earned, RowsOf
<1> QED
  BY <1>1, <1>3, <1>4 DEF Judged, RunsFaithful

\* A run that writes a row: no other run and no verdict has its number.
LEMMA RowJudged ==
    ASSUME Typed, Judged, NEW w \in Worker, NEW new \in Run, run[w].pc = "judge",
           NEW c \in run[w].cases, NEW passed \in BOOLEAN, WriteRow(w, c, passed),
           new.sub = run[w].sub, new.exec = run[w].exec, new.cases = run[w].cases,
           \/ new.pc \notin Trying
           \/ /\ new.pc = "judge"
              /\ new.passed = IF passed THEN run[w].passed \cup {c} ELSE run[w].passed,
           run' = [run EXCEPT ![w] = new], execs' = execs
    PROVE  Judged'
<1>0. PICK r \in Run : r = run[w]
  BY DEF Typed, TypeOK
<1>a. PICK row : row = [exec |-> r.exec, case |-> c, passed |-> passed]
  OBVIOUS
<1>b. row.exec = r.exec /\ row.case = c /\ row.passed = passed
  BY <1>a
<1>c. /\ results' = [results EXCEPT ![r.sub] = @ \cup {row}]
      /\ UNCHANGED <<status, score, judged>>
  BY <1>0, <1>a DEF WriteRow
<1>d. r.sub \in Submission /\ r.exec <= execs[r.sub]
  BY <1>0 DEF Judged, RunsApart, Run
<1>1. RunsApart'
  <2>1. \A s \in Submission : \A q \in results'[s] : q.exec <= execs[s]
    BY <1>b, <1>c, <1>d DEF Judged, RunsApart, Typed, TypeOK
  <2>2. run[w].pc # "idle"
    OBVIOUS
  <2> QED
    BY <1>c, <2>1, <2>2, StepApart DEF Judged, RunsApart
<1>2. \A v \in Worker : run'[v] = IF v = w THEN new ELSE run[v]
  BY DEF Typed, TypeOK
<1>3. /\ RowsOf(r.sub, r.exec)' = RowsOf(r.sub, r.exec) \cup {row}
      /\ \A s \in Submission, e \in Nat :
            s # r.sub \/ e # r.exec => RowsOf(s, e)' = RowsOf(s, e)
  BY <1>b, <1>c, <1>d DEF RowsOf, Typed, TypeOK
<1>4. r.pc \in Trying /\ Faithful(r)
  BY <1>0 DEF Judged, RunsFaithful, Trying
<1>5. \A v \in Worker : Faithful(run[v])'
  <2>1. Faithful(new)'
    <3>1. CASE new.pc \notin Trying
      BY <3>1 DEF Faithful
    <3>2. CASE new.pc = "judge" /\ new.passed = IF passed THEN run[w].passed \cup {c} ELSE run[w].passed
      <4>1. new.exec # judged'[new.sub].exec
        BY <1>0, <1>4, <1>c DEF Faithful
      <4>2. \A q \in RowsOf(new.sub, new.exec)' : q.passed => q.case \in new.passed
        BY <1>0, <1>3, <1>4, <1>b, <3>2 DEF Faithful
      <4>3. \A d \in new.passed : \E q \in RowsOf(new.sub, new.exec)' : q.case = d /\ q.passed
        BY <1>0, <1>3, <1>4, <1>b, <3>2 DEF Faithful
      <4>4. new.passed \subseteq new.cases
        BY <1>0, <1>4, <3>2 DEF Faithful
      <4> QED
        BY <3>2, <4>1, <4>2, <4>3, <4>4 DEF Faithful
    <3> QED
      BY <3>1, <3>2
  <2>2. ASSUME NEW v \in Worker, v # w PROVE Faithful(run[v])'
    <3>1. run'[v] = run[v] /\ Faithful(run[v])
      BY <1>2, <2>2 DEF Judged, RunsFaithful
    <3>2. CASE run[v].pc \in Trying
      <4>1. run[v].sub # r.sub \/ run[v].exec # r.exec
        BY <1>0, <1>4, <2>2, <3>2 DEF Judged, RunsApart, Trying
      <4>2. run[v].sub \in Submission /\ run[v].exec \in Nat
        BY DEF Typed, TypeOK, Run
      <4>3. RowsOf(run[v].sub, run[v].exec)' = RowsOf(run[v].sub, run[v].exec)
        BY <1>3, <3>1, <4>1, <4>2 DEF RowsOf
      <4> QED
        BY <1>c, <3>1, <3>2, <4>3 DEF Faithful
    <3>3. CASE run[v].pc \notin Trying
      BY <3>1, <3>3 DEF Faithful
    <3> QED
      BY <3>2, <3>3
  <2> QED
    BY <1>2, <2>1, <2>2
<1>6. \A s \in Submission : Earned(s)'
  <2> SUFFICES ASSUME NEW s \in Submission PROVE Earned(s)'
    OBVIOUS
  <2>1. judged[s].exec \in Nat /\ (s # r.sub \/ judged[s].exec # r.exec)
    BY <1>4 DEF Faithful, Typed, TypeOK
  <2>2. RowsOf(s, judged[s].exec)' = RowsOf(s, judged[s].exec)
    BY <1>3, <1>c, <2>1 DEF RowsOf
  <2> QED
    BY <1>c, <2>2 DEF Judged, Earned
<1> QED
  BY <1>1, <1>5, <1>6 DEF Judged, RunsFaithful

\* A run that stores its verdict: what it counted is what the table holds.
LEMMA VerdictJudged ==
    ASSUME Typed, Judged, NEW w \in Worker, NEW new \in Run, run[w].pc = "judge",
           WriteVerdict(w),
           new.sub = run[w].sub, new.exec = run[w].exec, new.pc \notin Trying,
           run' = [run EXCEPT ![w] = new], execs' = execs
    PROVE  Judged'
<1>0. PICK r \in Run : r = run[w]
  BY DEF Typed, TypeOK
<1>a. r.sub \in Submission /\ r.exec <= execs[r.sub] /\ r.cases # {}
  BY <1>0 DEF Judged, RunsApart, Run, Typed, RunsHaveCases
<1>b. /\ status' = [status EXCEPT ![r.sub] = Verdict(r)]
      /\ score' = [score EXCEPT ![r.sub] = Score(Cardinality(r.passed), Cardinality(r.cases))]
      /\ judged' = [judged EXCEPT ![r.sub] = [exec |-> r.exec, cases |-> r.cases]]
      /\ results' = results
  BY <1>0 DEF WriteVerdict
<1>1. RunsApart'
  <2>1. \A s \in Submission : judged'[s].exec <= execs[s]
    BY <1>a, <1>b DEF Judged, RunsApart, Typed, TypeOK
  <2>2. run[w].pc # "idle"
    OBVIOUS
  <2> QED
    BY <1>b, <2>1, <2>2, StepApart DEF Judged, RunsApart
<1>2. \A v \in Worker : run'[v] = IF v = w THEN new ELSE run[v]
  BY DEF Typed, TypeOK
<1>3. r.pc \in Trying /\ Faithful(r)
  BY <1>0 DEF Judged, RunsFaithful, Trying
<1>4. \A v \in Worker : Faithful(run[v])'
  <2>1. Faithful(new)'
    BY DEF Faithful
  <2>2. ASSUME NEW v \in Worker, v # w PROVE Faithful(run[v])'
    <3>1. run'[v] = run[v] /\ Faithful(run[v])
      BY <1>2, <2>2 DEF Judged, RunsFaithful
    <3>2. CASE run[v].pc \in Trying
      <4>1. run[v].sub = r.sub => run[v].exec # r.exec
        BY <1>0, <1>3, <2>2, <3>2 DEF Judged, RunsApart, Trying
      <4>2. run[v].sub \in Submission
        BY DEF Typed, TypeOK, Run
      <4>3. run[v].exec # judged'[run[v].sub].exec
        BY <1>a, <1>b, <3>1, <3>2, <4>1, <4>2 DEF Faithful, Typed, TypeOK
      <4> QED
        BY <1>b, <3>1, <3>2, <4>3 DEF Faithful, RowsOf
    <3>3. CASE run[v].pc \notin Trying
      BY <3>1, <3>3 DEF Faithful
    <3> QED
      BY <3>2, <3>3
  <2> QED
    BY <1>2, <2>1, <2>2
<1>5. \A s \in Submission : Earned(s)'
  <2>1. Earned(r.sub)'
    <3>1. /\ status'[r.sub] = Verdict(r) /\ judged'[r.sub].cases = r.cases
          /\ judged'[r.sub].exec = r.exec
          /\ score'[r.sub] = Score(Cardinality(r.passed), Cardinality(r.cases))
      BY <1>a, <1>b DEF Typed, TypeOK
    <3>2. {c \in r.cases : \E q \in RowsOf(r.sub, r.exec)' : q.case = c /\ q.passed} = r.passed
      BY <1>b, <1>3 DEF Faithful, RowsOf
    <3>3. r.passed = r.cases <=> Verdict(r) = "accepted"
      BY DEF Verdict
    <3> QED
      BY <1>a, <3>1, <3>2, <3>3 DEF Earned
  <2>2. ASSUME NEW s \in Submission, s # r.sub PROVE Earned(s)'
    <3>1. status'[s] = status[s] /\ score'[s] = score[s] /\ judged'[s] = judged[s]
      BY <1>b, <2>2 DEF Typed, TypeOK
    <3> QED
      BY <1>b, <3>1 DEF Judged, Earned, RowsOf
  <2> QED
    BY <2>1, <2>2
<1> QED
  BY <1>1, <1>4, <1>5 DEF Judged, RunsFaithful

\* The steps of processSubmission, failing or not, keep verdicts earned.
LEMMA ProcessJudged ==
    ASSUME Typed, Judged, NEW w \in Worker, Process(w) \/ CallFails(w) \/ AckLost(w)
    PROVE  Judged'
<1> USE DEF database
<1>0. PICK r \in Run : r = run[w] /\ Faithful(r)
  BY DEF Typed, TypeOK, Judged, RunsFaithful
<1>a. r.sub \in Submission /\ r.cases \in SUBSET TestCase
  BY <1>0 DEF Run
<1>b. NextCases(r) \subseteq r.cases
  BY DEF NextCases, Phase
<1>c. ASSUME NEW pc \in PC \ Trying, run[w].pc # "idle", GoTo(w, pc)
      PROVE  \E new \in Run : /\ new.sub = r.sub /\ new.exec = r.exec /\ new.pc = pc
                              /\ Faithful(new) /\ run' = [run EXCEPT ![w] = new]
  <2>1. PICK new : new = [r EXCEPT !.pc = pc]
    OBVIOUS
  <2>2. new \in Run /\ new.sub = r.sub /\ new.exec = r.exec /\ new.pc = pc
    BY <2>1 DEF Run
  <2>3. run' = [run EXCEPT ![w] = new]
    BY <1>0, <1>c, <2>1 DEF GoTo
  <2> QED
    BY <2>2, <2>3 DEF Faithful
<1>d. /\ {"announce", "settle", "mark", "rethrow", "refetch"} \subseteq PC \ Trying
      /\ \A pc \in PC : Handler(pc) \in PC \ Trying
      /\ r.pc \in PC
  BY DEF PC, Trying, Catching, Ending, Handler, Run
<1>e. ASSUME NEW st \in {"running", "runtime_error"}, WriteStatus(w, st)
      PROVE  /\ UNCHANGED <<results, judged>>
             /\ \A s \in Submission : \/ status'[s] = status[s] /\ score'[s] = score[s]
                                      \/ status'[s] \notin {"accepted", "wrong"}
  BY <1>e DEF WriteStatus, Typed, TypeOK
<1>1. ASSUME FetchSubmission(w) PROVE Judged'
  <2>1. PICK new : new = [r EXCEPT !.pc = "start", !.score = score[r.sub]]
    OBVIOUS
  <2>2. score[r.sub] \in Nat
    BY <1>a DEF Typed, TypeOK
  <2>3. /\ new \in Run /\ new.sub = r.sub /\ new.exec = r.exec /\ new.pc = "start"
        /\ new.passed = r.passed /\ new.cases = r.cases
    BY <2>1, <2>2 DEF Run, PC, Trying
  <2>4. run' = [run EXCEPT ![w] = new] /\ r.pc = "fetch"
    BY <1>0, <1>1, <2>1 DEF FetchSubmission
  <2>5. Faithful(new)
    BY <1>0, <2>3, <2>4 DEF Faithful, Trying
  <2> QED
    BY <1>0, <1>1, <2>3, <2>4, <2>5, QuietJudged DEF FetchSubmission
<1>2. ASSUME MarkRunning(w) PROVE Judged'
  <2>1. PICK new : new = [r EXCEPT !.pc = "load"]
    OBVIOUS
  <2>2. /\ new \in Run /\ new.sub = r.sub /\ new.exec = r.exec /\ new.pc = "load"
        /\ new.passed = r.passed /\ new.cases = r.cases
    BY <2>1 DEF Run, PC, Trying
  <2>3. run' = [run EXCEPT ![w] = new] /\ r.pc = "start"
    BY <1>0, <1>2, <2>1 DEF MarkRunning, GoTo
  <2>4. Faithful(new)
    BY <1>0, <2>2, <2>3 DEF Faithful, Trying
  <2> QED
    BY <1>0, <1>2, <1>e, <2>2, <2>3, <2>4, QuietJudged DEF MarkRunning
<1>3. ASSUME LoadTests(w) PROVE Judged'
  <2> DEFINE pc == IF tests = {} THEN Handler("load") ELSE "judge"
  <2>1. PICK new : new = [r EXCEPT !.pc = pc, !.cases = tests]
    OBVIOUS
  <2>2. pc \in PC \ {"fetch", "start", "load"} /\ tests \in SUBSET TestCase
    BY DEF Handler, Trying, Catching, PC, Typed, TypeOK
  <2> HIDE DEF pc
  <2>3. /\ new \in Run /\ new.sub = r.sub /\ new.exec = r.exec /\ new.pc = pc
        /\ new.passed = r.passed
    BY <2>1, <2>2 DEF Run
  <2>4. run' = [run EXCEPT ![w] = new] /\ r.pc = "load"
    BY <1>0, <1>3, <2>1 DEF LoadTests, pc
  <2>5. Faithful(new)
    <3>1. r.passed = {}
      BY <1>0, <2>4 DEF Faithful, Trying
    <3> QED
      BY <1>0, <2>3, <2>4, <3>1 DEF Faithful, Trying
  <2> QED
    BY <1>0, <1>3, <2>3, <2>4, <2>5, QuietJudged DEF LoadTests
<1>4. ASSUME NEW c \in TestCase, NEW passed \in BOOLEAN, JudgeCase(w, c, passed) PROVE Judged'
  <2> DEFINE now == IF passed THEN r.passed \cup {c} ELSE r.passed
  <2>1. PICK new : new = [r EXCEPT !.ran = r.ran \cup {c}, !.passed = now]
    OBVIOUS
  <2>2. r.ran \cup {c} \in SUBSET TestCase /\ now \in SUBSET TestCase
    BY DEF Run
  <2>3. /\ new \in Run /\ new.sub = r.sub /\ new.exec = r.exec /\ new.pc = r.pc
        /\ new.passed = now /\ new.cases = r.cases
    BY <2>1, <2>2 DEF Run
  <2>4. run' = [run EXCEPT ![w] = new] /\ r.pc = "judge" /\ c \in r.cases
    <3>1. run' = [run EXCEPT ![w].ran = r.ran \cup {c}, ![w].passed = now]
      BY <1>0, <1>4 DEF JudgeCase
    <3>2. run' = [run EXCEPT ![w] = new]
      BY <1>0, <2>1, <3>1 DEF Typed, TypeOK
    <3>3. r.pc = "judge" /\ c \in NextCases(r)
      BY <1>0, <1>4 DEF JudgeCase
    <3> QED
      BY <1>b, <3>2, <3>3
  <2>5. /\ run[w].pc = "judge" /\ c \in run[w].cases /\ new.pc = "judge" /\ new \in Run
        /\ new.sub = run[w].sub /\ new.exec = run[w].exec /\ new.cases = run[w].cases
        /\ new.passed = IF passed THEN run[w].passed \cup {c} ELSE run[w].passed
    BY <1>0, <2>3, <2>4
  <2>6. WriteRow(w, c, passed) /\ execs' = execs
    BY <1>4 DEF JudgeCase
  <2> HIDE DEF now
  <2> QED
    BY <2>4, <2>5, <2>6, RowJudged
<1>5. ASSUME SaveVerdict(w) PROVE Judged'
  BY <1>0, <1>5, <1>c, <1>d, VerdictJudged DEF SaveVerdict
<1>6. ASSUME Announce(w) PROVE Judged'
  BY <1>0, <1>6, <1>c, <1>d, QuietJudged DEF Announce
<1>7. ASSUME Refetch(w) PROVE Judged'
  <2>1. PICK new : new = [r EXCEPT !.pc = "mark", !.score = score[r.sub]]
    OBVIOUS
  <2>2. score[r.sub] \in Nat
    BY <1>a DEF Typed, TypeOK
  <2>3. new \in Run /\ new.sub = r.sub /\ new.exec = r.exec /\ new.pc = "mark"
    BY <2>1, <2>2 DEF Run, PC, Catching
  <2>4. run' = [run EXCEPT ![w] = new] /\ r.pc = "refetch"
    BY <1>0, <1>7, <2>1 DEF Refetch
  <2>5. Faithful(new)
    BY <2>3 DEF Faithful, Trying
  <2> QED
    BY <1>0, <1>7, <2>3, <2>4, <2>5, QuietJudged DEF Refetch
<1>8. ASSUME MarkError(w) PROVE Judged'
  BY <1>0, <1>8, <1>c, <1>d, <1>e, QuietJudged DEF MarkError
<1>9. ASSUME Settle(w) PROVE Judged'
  <2>1. IdleRun \in Run /\ IdleRun.pc = "idle" /\ Faithful(IdleRun)
    BY SubmissionAssumption DEF IdleRun, Run, PC, Faithful, Trying
  <2> QED
    BY <1>9, <2>1, QuietJudged DEF Settle
<1>10. ASSUME CallFails(w) PROVE Judged'
  <2>1. run[w].pc # "idle"
    BY <1>10 DEF CallFails, Trying, Catching
  <2> QED
    BY <1>0, <1>10, <1>c, <1>d, <2>1, QuietJudged DEF CallFails, Throw
<1>11. ASSUME AckLost(w) PROVE Judged'
  <2>1. run[w].pc # "idle"
    BY <1>11 DEF AckLost
  <2>2. PICK new \in Run : /\ new.sub = r.sub /\ new.exec = r.exec /\ new.pc \notin Trying
                           /\ Faithful(new) /\ run' = [run EXCEPT ![w] = new]
    BY <1>0, <1>11, <1>c, <1>d, <2>1 DEF AckLost, Throw
  <2>3. CASE \E st \in {"running", "runtime_error"} : WriteStatus(w, st)
    BY <1>0, <1>11, <1>e, <2>1, <2>2, <2>3, QuietJudged DEF AckLost
  <2>4. ASSUME run[w].pc = "judge", NEW c \in NextCases(r), NEW passed \in BOOLEAN,
               WriteRow(w, c, passed)
        PROVE  Judged'
    <3>2. c \in run[w].cases
      BY <1>0, <1>b
    <3>3. new.cases = run[w].cases
      BY <1>0, <1>11, <2>2 DEF AckLost, Throw, GoTo, Typed, TypeOK, Run
    <3> QED
      BY <1>0, <1>11, <2>2, <2>4, <3>2, <3>3, RowJudged DEF AckLost
  <2>5. CASE run[w].pc = "judge" /\ WriteVerdict(w)
    BY <1>0, <1>11, <2>2, <2>5, VerdictJudged DEF AckLost
  <2> QED
    BY <1>0, <1>11, <2>3, <2>4, <2>5 DEF AckLost
<1> QED
  BY <1>1, <1>2, <1>3, <1>4, <1>5, <1>6, <1>7, <1>8, <1>9, <1>10, <1>11 DEF Process

LEMMA NextJudged == Typed /\ Judged /\ [Next]_vars => Judged'
<1> SUFFICES ASSUME Typed, Judged, [Next]_vars PROVE Judged'
  OBVIOUS
<1> USE DEF database
<1>1. CASE UNCHANGED vars
  BY <1>1, JudgedKept DEF vars
<1>2. ASSUME NEW s \in Submission, Serve(s) \/ Promote(s) \/ Stall(s) PROVE Judged'
  <2>1. /\ UNCHANGED <<score, results, judged, run, execs>>
        /\ \A u \in Submission : status'[u] = status[u] \/ status'[u] = "pending"
    BY <1>2 DEF Serve, CheckRequest, SaveSubmission, Enqueue, EnqueueFails, Promote, Stall,
                Typed, TypeOK
  <2> QED
    BY <2>1, JudgedKept
<1>3. CASE EditTests
  BY <1>3, JudgedKept DEF EditTests
<1> QED
  BY <1>1, <1>2, <1>3, TakeJudged, ProcessJudged, CrashJudged DEF Next

\* However many runs of a submission crash, lose their lock, fail or run side by
\* side, the stored verdict and score are those of the rows one run wrote.
THEOREM VerdictsAreEarned == Spec => []VerdictEarned
<1>1. Spec => [](Typed /\ Judged)
  BY InitTyped, NextTyped, InitJudged, NextJudged, PTL DEF Spec
<1>2. Judged => VerdictEarned
  BY DEF Judged, Earned, VerdictEarned
<1> QED
  BY <1>1, <1>2, PTL


-----------------------------------------------------------------------------
(* Definitions *)

\* The rows of a run that may still write are the test cases it ran, in order: as
\* soon as a hidden one is among them, those left are hidden and come after it.
Listing(r) ==
    r.pc \in Trying =>
        /\ RowsOf(r.sub, r.exec) =
              {[exec |-> r.exec, case |-> c, passed |-> c \in r.passed] : c \in r.ran}
        /\ r.passed \subseteq r.ran /\ r.ran \subseteq r.cases
        /\ r.pc # "judge" => r.ran = {}
        /\ \A h \in r.ran \cap Hidden, c \in r.cases \ r.ran : c \in Hidden /\ h <= c

Listed == RowsInOrder /\ \A w \in Worker : Listing(run[w])

\* Only the loss of a lock lets two runs of a submission live at once.
Sole(s) == MaxLockLosses = 0 \/ job[s].stalls = 0

Owners == \A w \in Worker : run[w].pc # "idle" /\ Sole(run[w].sub) => Owned(w)

Verdicts == {"accepted", "wrong"}

On(w, s) == run[w].pc # "idle" /\ run[w].sub = s

\* Points come with a verdict, and after a verdict a run has only to return.
Unscored(s) ==
    job[s].stalls = 0 =>
        /\ score[s] # 0 => status[s] \in Verdicts
        /\ status[s] \in Verdicts => job[s].state \in {"active", "done"}
        /\ \A w \in Worker : On(w, s) /\ run[w].pc \notin {"announce", "settle"} =>
              status[s] \notin Verdicts /\ run[w].score = 0

Scores == \A s \in Submission : Unscored(s)

\* Faults that no slot, attempt or stall is left to answer for do not happen.
FewFaults ==
    /\ MaxLockLosses = 0
    /\ MaxCrashes <= MaxStalledCount
    /\ MaxRejects + MaxLostAcks <= Attempts
    /\ MaxEdits < Cardinality(InitialTests)

Errors == used["reject"] + used["ack"]

\* What the faults of a job have paid for: each attempt, each stall, and a second
\* time an attempt whose catch block failed as well.
Spared(s) ==
    /\ job[s].made <= Errors
    /\ job[s].stalls <= used["crash"]
    /\ job[s].state = "active" =>
          job[s].owner \in Worker /\ (Dead(s) => job[s].stalls < used["crash"])
    /\ \A w \in Worker : On(w, s) =>
          /\ run[w].pc \in {"refetch", "mark"} => job[s].made < Errors
          /\ run[w].pc = "rethrow" =>
                job[s].made < Errors /\ (status[s] \in Final \/ job[s].made + 1 < Errors)

\* What a submission's status says of its request, its job and its run.
StatusFits(s) ==
    /\ Settled(s) => status[s] \in Final
    /\ request[s] \in {"none", "checked"} => status[s] = "none"
    /\ request[s] \in {"saved", "answered"} => status[s] # "none"
    /\ job[s].state # "none" => status[s] # "none"
    /\ \A w \in Worker : On(w, s) =>
          /\ run[w].pc \in {"load", "judge"} => status[s] = "running"
          /\ run[w].pc \in {"announce", "settle"} => status[s] \in Verdicts

TestsLeft ==
    /\ \A f \in Fault : used[f] <= Limit[f]
    /\ Cardinality(tests) + used["edit"] >= Cardinality(InitialTests)

Kept == TestsLeft /\ \A s \in Submission : Spared(s) /\ StatusFits(s)

-----------------------------------------------------------------------------
(* The steps of a run *)

LEMMA SubTyped ==
    ASSUME Typed, NEW w \in Worker
    PROVE  /\ run[w] \in Run /\ run[w].sub \in Submission /\ run[w].pc \in PC
           /\ run[w].exec \in Nat /\ run[w].score \in Nat
           /\ job[run[w].sub] \in Job
<1>1. run[w] \in Run
  BY DEF Typed, TypeOK
<1> QED
  BY <1>1 DEF Run, Typed, TypeOK

LEMMA JobFields ==
    ASSUME Typed, NEW s \in Submission
    PROVE  /\ job[s] \in Job /\ job[s].state \in JobState
           /\ job[s].made \in Nat /\ job[s].stalls \in Nat
<1>1. job[s] \in Job
  BY DEF Typed, TypeOK
<1> QED
  BY <1>1 DEF Job

\* A run moves on by itself: the other runs, the queue and the requests stay.
LEMMA RunStep ==
    ASSUME Typed, NEW w \in Worker, Process(w) \/ CallFails(w) \/ AckLost(w), ~Settle(w)
    PROVE  /\ run[w].pc # "idle" /\ run'[w].pc # "idle"
           /\ run'[w].sub = run[w].sub /\ run'[w].exec = run[w].exec
           /\ \A v \in Worker : v # w => run'[v] = run[v]
           /\ job' = job /\ execs' = execs /\ request' = request
<1>0. /\ run \in [Worker -> Run] /\ run[w] \in Run /\ run[w].pc \in PC
      /\ \A pc \in PC : Handler(pc) # "idle"
  BY SubTyped DEF Typed, TypeOK, Handler
<1>1. ASSUME NEW pc, pc # "idle", GoTo(w, pc)
      PROVE  /\ run'[w].pc # "idle" /\ run'[w].sub = run[w].sub /\ run'[w].exec = run[w].exec
             /\ \A v \in Worker : v # w => run'[v] = run[v]
  BY <1>0, <1>1 DEF GoTo, Run
<1>2. CASE FetchSubmission(w)
  BY <1>0, <1>2 DEF FetchSubmission, Run
<1>3. CASE Refetch(w)
  BY <1>0, <1>3 DEF Refetch, Run
<1>4. CASE MarkRunning(w)
  BY <1>1, <1>4 DEF MarkRunning
<1>5. CASE SaveVerdict(w)
  BY <1>1, <1>5 DEF SaveVerdict
<1>6. CASE Announce(w)
  BY <1>1, <1>6 DEF Announce
<1>7. CASE MarkError(w)
  BY <1>1, <1>7 DEF MarkError
<1>8. CASE LoadTests(w)
  BY <1>0, <1>8 DEF LoadTests, Run
<1>9. CASE \E c \in TestCase, passed \in BOOLEAN : JudgeCase(w, c, passed)
  BY <1>0, <1>9 DEF JudgeCase, Run
<1>10. CASE CallFails(w)
  BY <1>0, <1>1, <1>10 DEF CallFails, Throw, Trying, Catching
<1>11. CASE AckLost(w)
  BY <1>0, <1>1, <1>11 DEF AckLost, Throw
<1> QED
  BY <1>2, <1>3, <1>4, <1>5, <1>6, <1>7, <1>8, <1>9, <1>10, <1>11 DEF Process

\* A step of the queue or of a request touches one submission's job.
LEMMA QueueStep ==
    ASSUME Typed, NEW s \in Submission,
           Serve(s) \/ Promote(s) \/ Stall(s) \/ \E w \in Worker : Take(w, s)
    PROVE  /\ \A u \in Submission : u # s => job'[u] = job[u] /\ request'[u] = request[u]
           /\ score' = score /\ results' = results /\ judged' = judged
           /\ \A u \in Submission : u # s => status'[u] = status[u] /\ execs'[u] = execs[u]
<1> USE DEF Typed, TypeOK, database
<1>1. CASE CheckRequest(s) \/ SaveSubmission(s)
  BY <1>1 DEF CheckRequest, SaveSubmission, RequestStep
<1>2. CASE Enqueue(s)
  BY <1>2 DEF Enqueue, RequestStep, AddJob
<1>3. CASE EnqueueFails(s)
  BY <1>3 DEF EnqueueFails, RequestStep, AddJob
<1>4. CASE Promote(s) \/ Stall(s)
  BY <1>4 DEF Promote, Stall
<1>5. CASE \E w \in Worker : Take(w, s)
  BY <1>5 DEF Take
<1> QED
  BY <1>1, <1>2, <1>3, <1>4, <1>5 DEF Serve

\* A slot that takes a job starts a run of its own.
LEMMA TakeStep ==
    ASSUME Typed, NEW w \in Worker, NEW s \in Submission, Take(w, s)
    PROVE  /\ run[w].pc = "idle" /\ run'[w].pc = "fetch" /\ run'[w].sub = s
           /\ run'[w].score = 0 /\ run'[w].ran = {} /\ run'[w].passed = {}
           /\ run'[w].exec = execs[s] + 1
           /\ \A v \in Worker : v # w => run'[v] = run[v]
           /\ job[s].state = "waiting" /\ job'[s].state = "active" /\ job'[s].owner = w
           /\ job'[s].made = job[s].made /\ job'[s].stalls = job[s].stalls
           /\ status' = status /\ request' = request /\ used' = used /\ tests' = tests
           /\ execs'[s] = execs[s] + 1
<1> USE DEF Typed, TypeOK, database
<1>1. /\ job'[s].state = "active" /\ job'[s].owner = w
      /\ job'[s].made = job[s].made /\ job'[s].stalls = job[s].stalls
  BY DEF Take, Job
<1>2. /\ run'[w].pc = "fetch" /\ run'[w].sub = s
      /\ run'[w].score = 0 /\ run'[w].ran = {} /\ run'[w].passed = {}
      /\ run'[w].exec = execs[s] + 1
  BY DEF Take, IdleRun
<1>3. \A v \in Worker : v # w => run'[v] = run[v]
  BY DEF Take
<1> QED
  BY <1>1, <1>2, <1>3 DEF Take

\* The end of a run: its job is done, or fails its attempt, if it still has it.
LEMMA SettleStep ==
    ASSUME Typed, NEW w \in Worker, Settle(w)
    PROVE  /\ run[w].pc \in {"settle", "rethrow"} /\ run'[w].pc = "idle"
           /\ \A v \in Worker : v # w => run'[v] = run[v]
           /\ \A u \in Submission : u # run[w].sub => job'[u] = job[u]
           /\ ~Owned(w) => job' = job
           /\ Owned(w) /\ run[w].pc = "settle" =>
                 /\ job'[run[w].sub].state = "done"
                 /\ job'[run[w].sub].made = job[run[w].sub].made
           /\ Owned(w) /\ run[w].pc = "rethrow" =>
                 /\ job'[run[w].sub].state =
                       IF job[run[w].sub].made + 1 < Attempts THEN "delayed" ELSE "failed"
                 /\ job'[run[w].sub].made = job[run[w].sub].made + 1
           /\ job'[run[w].sub].stalls = job[run[w].sub].stalls
           /\ UNCHANGED <<tests, request, execs, used, database>>
<1> USE DEF Typed, TypeOK
<1>0. run[w].sub \in Submission /\ job[run[w].sub] \in Job
  BY SubTyped
<1>1. CASE ~Owned(w)
  BY <1>0, <1>1 DEF Settle, IdleRun
<1>2. CASE Owned(w) /\ run[w].pc = "settle"
  <2>1. job' = [job EXCEPT ![run[w].sub] = [@ EXCEPT !.state = "done", !.owner = NoWorker]]
    BY <1>2 DEF Settle
  <2> QED
    BY <1>0, <1>2, <2>1 DEF Settle, IdleRun, Job
<1>3. CASE Owned(w) /\ run[w].pc = "rethrow"
  <2>1. job' = [job EXCEPT ![run[w].sub] = Retry(@)]
    BY <1>3 DEF Settle
  <2> QED
    BY <1>0, <1>3, <2>1 DEF Settle, IdleRun, Job, Retry
<1> QED
  BY <1>1, <1>2, <1>3 DEF Settle

-----------------------------------------------------------------------------
(* A run owns its job *)

LEMMA InitOwners == Init => Owners
BY DEF Init, Owners, IdleRun

\* One live run of a submission at a time.
LEMMA RunIsSole ==
    ASSUME Typed, Owners, NEW v \in Worker, NEW w \in Worker, NEW s \in Submission,
           On(v, s), On(w, s), Sole(s)
    PROVE  v = w
BY DEF Owners, Owned, On

\* Runs stay owners when they move on and keep their jobs.
LEMMA OwnersKept ==
    ASSUME Typed, Owners, job' = job,
           \A w \in Worker : run'[w].pc # "idle" =>
               run[w].pc # "idle" /\ run'[w].sub = run[w].sub
    PROVE  Owners'
BY DEF Owners, Owned, Sole

LEMMA TakeOwners ==
    ASSUME Typed, Owners, NEW w \in Worker, NEW s \in Submission, Take(w, s)
    PROVE  Owners'
<1>1. \A u \in Submission : u # s => job'[u] = job[u]
  BY QueueStep
<1> SUFFICES ASSUME NEW v \in Worker, run'[v].pc # "idle", Sole(run[v].sub)'
             PROVE  Owned(v)'
  BY DEF Owners
<1>2. CASE v = w
  BY <1>2, TakeStep DEF Owned
<1>3. CASE v # w
  <2>1. run'[v] = run[v] /\ run[v].sub \in Submission
    BY <1>3, TakeStep, SubTyped
  <2>2. Sole(run[v].sub)
    BY <1>1, <2>1, TakeStep DEF Sole
  <2>3. Owned(v) /\ run[v].sub # s
    BY <2>1, <2>2, TakeStep DEF Owners, Owned
  <2> QED
    BY <1>1, <2>1, <2>3 DEF Owned
<1> QED
  BY <1>2, <1>3

LEMMA StallOwners ==
    ASSUME Typed, Owners, NEW s \in Submission, Stall(s)
    PROVE  Owners'
<1>1. run' = run /\ \A u \in Submission : u # s => job'[u] = job[u]
  BY QueueStep DEF Stall
<1>2. job'[s].stalls = job[s].stalls + 1 /\ job[s].state = "active"
  BY JobFields DEF Stall, Requeue, Job, Typed, TypeOK
<1>3. MaxLockLosses = 0 => Dead(s)
  <2>1. "lock" \in Fault /\ Limit["lock"] = MaxLockLosses /\ used["lock"] \in Nat
    BY DEF Fault, Limit, Typed, TypeOK
  <2> QED
    BY <2>1 DEF Stall, Spend
<1> SUFFICES ASSUME NEW v \in Worker, run[v].pc # "idle", Sole(run[v].sub)'
             PROVE  Owned(v)'
  BY <1>1 DEF Owners
<1>4. run[v].sub \in Submission /\ job[s].stalls \in Nat
  BY SubTyped, JobFields
<1>5. CASE run[v].sub = s
  <2>1. MaxLockLosses = 0
    BY <1>1, <1>2, <1>4, <1>5 DEF Sole
  <2>2. Owned(v)
    BY <2>1 DEF Owners, Sole
  <2> QED
    BY <1>3, <1>5, <2>1, <2>2 DEF Dead, Owned
<1>6. CASE run[v].sub # s
  BY <1>1, <1>4, <1>6 DEF Owners, Owned, Sole
<1> QED
  BY <1>5, <1>6

LEMMA SettleOwners ==
    ASSUME Typed, Owners, NEW w \in Worker, Settle(w)
    PROVE  Owners'
<1> SUFFICES ASSUME NEW v \in Worker, run'[v].pc # "idle", Sole(run[v].sub)'
             PROVE  Owned(v)'
  BY DEF Owners
<1>1. v # w /\ run'[v] = run[v]
  BY SettleStep
<1>2. run[v].sub \in Submission /\ run[w].sub \in Submission /\ run[w].pc # "idle"
  BY SubTyped, SettleStep
<1>3. Sole(run[v].sub)
  BY <1>1, <1>2, SettleStep DEF Sole
<1>4. Owned(v)
  BY <1>1, <1>3 DEF Owners
<1>5. run[v].sub # run[w].sub \/ ~Owned(w)
  BY <1>1, <1>4 DEF Owned
<1> QED
  BY <1>1, <1>2, <1>4, <1>5, SettleStep DEF Owned

LEMMA QueueOwners ==
    ASSUME Typed, Owners, ExecutionsAccounted, NEW s \in Submission, Serve(s) \/ Promote(s)
    PROVE  Owners'
<1>1. run' = run /\ \A u \in Submission : u # s => job'[u] = job[u]
  BY QueueStep DEF Serve, CheckRequest, SaveSubmission, Enqueue, EnqueueFails, Promote
<1>2. job' = job \/ job[s].state \in {"none", "delayed"}
  <2>1. CASE CheckRequest(s) \/ SaveSubmission(s)
    BY <2>1 DEF CheckRequest, SaveSubmission
  <2>2. CASE Enqueue(s) \/ EnqueueFails(s)
    BY <2>2 DEF Enqueue, EnqueueFails, RequestStep, ExecutionsAccounted, NoJob
  <2>3. CASE Promote(s)
    BY <2>3 DEF Promote
  <2> QED
    BY <2>1, <2>2, <2>3 DEF Serve
<1>3. job'[s].stalls = job[s].stalls
  <2>1. CASE Enqueue(s) \/ EnqueueFails(s)
    <3>1. job[s] = NoJob
      BY <2>1 DEF Enqueue, EnqueueFails, RequestStep, ExecutionsAccounted
    <3>2. job' = job \/ AddJob(s)
      BY <2>1 DEF Enqueue, EnqueueFails
    <3> QED
      BY <3>1, <3>2 DEF AddJob, NoJob, Typed, TypeOK
  <2>2. CASE CheckRequest(s) \/ SaveSubmission(s)
    BY <2>2 DEF CheckRequest, SaveSubmission
  <2>3. CASE Promote(s)
    BY <2>3, JobFields DEF Promote, Job, Typed, TypeOK
  <2> QED
    BY <2>1, <2>2, <2>3 DEF Serve
<1>4. CASE job' = job
  BY <1>1, <1>4, OwnersKept
<1>5. CASE job[s].state \in {"none", "delayed"}
  <2> SUFFICES ASSUME NEW v \in Worker, run[v].pc # "idle", Sole(run[v].sub)'
               PROVE  Owned(v)'
    BY <1>1 DEF Owners
  <2>1. run[v].sub \in Submission /\ Sole(run[v].sub)
    BY <1>1, <1>3, SubTyped DEF Sole
  <2>2. Owned(v) /\ run[v].sub # s
    BY <1>5, <2>1 DEF Owners, Owned
  <2> QED
    BY <1>1, <2>1, <2>2 DEF Owned
<1> QED
  BY <1>2, <1>4, <1>5

LEMMA NextOwners == Typed /\ ExecutionsAccounted /\ Owners /\ [Next]_vars => Owners'
<1> SUFFICES ASSUME Typed, ExecutionsAccounted, Owners, [Next]_vars PROVE Owners'
  OBVIOUS
<1>1. CASE UNCHANGED vars
  BY <1>1, OwnersKept DEF vars
<1>2. ASSUME NEW w \in Worker, Process(w) \/ CallFails(w) \/ AckLost(w), ~Settle(w)
      PROVE  Owners'
  <2>1. /\ job' = job
        /\ \A v \in Worker : run'[v].pc # "idle" =>
               run[v].pc # "idle" /\ run'[v].sub = run[v].sub
    BY <1>2, RunStep
  <2> QED
    BY <2>1, OwnersKept
<1>3. CASE Crash
  <2>1. job' = job /\ \A v \in Worker : run'[v].pc = "idle"
    BY <1>3 DEF Crash, IdleRun
  <2> QED
    BY <2>1, OwnersKept
<1>4. CASE EditTests
  BY <1>4, OwnersKept DEF EditTests
<1> QED
  BY <1>1, <1>2, <1>3, <1>4, TakeOwners, StallOwners, SettleOwners, QueueOwners DEF Next

-----------------------------------------------------------------------------
(* Rows follow the judging order *)

\* The next test case of a run has no row yet; a hidden one comes when all that
\* ran have passed, and before the others that are left.
LEMMA NextCaseFits ==
    ASSUME NEW r \in Run, NEW c \in NextCases(r)
    PROVE  /\ c \in TestCase /\ c \in r.cases \ r.ran
           /\ c \in Hidden => /\ r.ran \subseteq r.passed
                             /\ \A d \in r.cases \ r.ran : d \in Hidden /\ c <= d
<1>0. r.cases \in SUBSET TestCase /\ c \in Phase(r) /\ \A d \in Phase(r) : c <= d
  BY DEF NextCases, Run
<1>1. CASE ~(r.cases \ Hidden \subseteq r.ran)
  BY <1>0, <1>1 DEF Phase
<1>2. CASE r.cases \ Hidden \subseteq r.ran
  BY <1>0, <1>2 DEF Phase
<1> QED
  BY <1>1, <1>2

LEMMA InitListed == Init => Listed
BY DEF Init, Listed, RowsInOrder, Listing, IdleRun, Trying

\* No row is written, and whoever moves writes none any more.
LEMMA ListedKept ==
    ASSUME Listed, results' = results,
           \A v \in Worker : run'[v] = run[v] \/ run'[v].pc \notin Trying
    PROVE  Listed'
<1>1. RowsInOrder'
  BY DEF Listed, RowsInOrder
<1>2. ASSUME NEW v \in Worker PROVE Listing(run[v])'
  BY DEF Listed, Listing, RowsOf
<1> QED
  BY <1>1, <1>2 DEF Listed

\* A run that has no rows yet goes on without any.
LEMMA StartListed ==
    ASSUME Listed, NEW w \in Worker, results' = results,
           \A v \in Worker : v # w => run'[v] = run[v],
           run'[w].pc \notin Trying \/
              /\ run'[w].ran = {} /\ run'[w].passed = {}
              /\ RowsOf(run'[w].sub, run'[w].exec) = {}
    PROVE  Listed'
<1>1. RowsInOrder'
  BY DEF Listed, RowsInOrder
<1>2. ASSUME NEW v \in Worker, v # w PROVE Listing(run[v])'
  BY <1>2 DEF Listed, Listing, RowsOf
<1>3. Listing(run[w])'
  BY DEF Listing, RowsOf
<1> QED
  BY <1>1, <1>2, <1>3 DEF Listed

\* A new row fits the rows its run wrote before.
LEMMA RowFits ==
    ASSUME Typed, Listed, NEW w \in Worker, run[w].pc = "judge",
           NEW c \in NextCases(run[w]), NEW passed \in BOOLEAN, WriteRow(w, c, passed)
    PROVE  RowsInOrder'
<1>0. PICK r \in Run : r = run[w] /\ r.sub \in Submission
  BY SubTyped
<1>1. PICK row : row = [exec |-> r.exec, case |-> c, passed |-> passed]
  OBVIOUS
<1>2. row.exec = r.exec /\ row.case = c /\ row.passed = passed
  BY <1>1
<1>3. results' = [results EXCEPT ![r.sub] = @ \cup {row}]
  BY <1>0, <1>1 DEF WriteRow
<1>4. /\ c \in TestCase /\ c \in r.cases \ r.ran
      /\ c \in Hidden => r.ran \subseteq r.passed
  BY <1>0, NextCaseFits
<1>5. c \in Nat
  BY <1>4, TestsAssumption
<1>6. ASSUME NEW q \in results[r.sub], q.exec = r.exec
      PROVE  /\ q.case \in r.ran /\ (q.passed <=> q.case \in r.passed)
             /\ q.case \in Hidden => c \in Hidden /\ q.case <= c
  <2>1. Listing(r) /\ r.pc \in Trying
    BY <1>0 DEF Listed, Trying
  <2>2. q \in RowsOf(r.sub, r.exec)
    BY <1>6 DEF RowsOf
  <2>3. PICK d \in r.ran : q = [exec |-> r.exec, case |-> d, passed |-> d \in r.passed]
    BY <2>1, <2>2 DEF Listing
  <2>4. q.case = d /\ (q.passed <=> d \in r.passed)
    BY <2>3
  <2> QED
    BY <1>4, <2>1, <2>4 DEF Listing
<1> SUFFICES ASSUME NEW s \in Submission, NEW p \in results'[s], NEW q \in results'[s],
                    p.exec = q.exec
             PROVE  /\ p.case = q.case => p = q
                    /\ p.case \in Hidden /\ ~q.passed => q.case \in Hidden /\ p.case <= q.case
  BY DEF RowsInOrder
<1>7. \/ p \in results[s] /\ q \in results[s]
      \/ s = r.sub /\ (p = row \/ p \in results[s]) /\ (q = row \/ q \in results[s])
  BY <1>0, <1>3 DEF Typed, TypeOK
<1>8. CASE p \in results[s] /\ q \in results[s]
  BY <1>8 DEF Listed, RowsInOrder
<1>9. CASE p = row /\ q = row
  BY <1>2, <1>5, <1>9
<1>10. CASE s = r.sub /\ p = row /\ q \in results[s]
  BY <1>2, <1>4, <1>6, <1>10
<1>11. CASE s = r.sub /\ p \in results[s] /\ q = row
  BY <1>2, <1>4, <1>6, <1>11
<1> QED
  BY <1>7, <1>8, <1>9, <1>10, <1>11

\* The run that wrote it knows it, and no other run does.
LEMMA JudgeListed ==
    ASSUME Typed, Judged, Listed, NEW w \in Worker, NEW c \in TestCase, NEW passed \in BOOLEAN,
           JudgeCase(w, c, passed)
    PROVE  Listed'
<1>0. PICK r \in Run : r = run[w] /\ r.sub \in Submission /\ r.exec \in Nat
  BY SubTyped
<1>1. PICK row : row = [exec |-> r.exec, case |-> c, passed |-> passed]
  OBVIOUS
<1>2. row.exec = r.exec /\ row.case = c /\ row.passed = passed
  BY <1>1
<1>3. /\ results' = [results EXCEPT ![r.sub] = @ \cup {row}]
      /\ r.pc = "judge" /\ c \in NextCases(r) /\ WriteRow(w, c, passed)
  BY <1>0, <1>1 DEF JudgeCase, WriteRow
<1>4. RowsInOrder'
  BY <1>0, <1>3, RowFits
<1>5. /\ c \in r.cases \ r.ran
      /\ c \in Hidden => \A d \in r.cases \ r.ran : d \in Hidden /\ c <= d
  BY <1>0, <1>3, NextCaseFits
<1>6. /\ run'[w].ran = r.ran \cup {c}
      /\ run'[w].passed = IF passed THEN r.passed \cup {c} ELSE r.passed
      /\ run'[w].cases = r.cases /\ run'[w].pc = "judge"
      /\ run'[w].sub = r.sub /\ run'[w].exec = r.exec
      /\ \A v \in Worker : v # w => run'[v] = run[v]
  BY <1>0, <1>3 DEF JudgeCase, Typed, TypeOK, Run
<1>7. Listing(run[w])'
  <2>1. /\ RowsOf(r.sub, r.exec) =
              {[exec |-> r.exec, case |-> d, passed |-> d \in r.passed] : d \in r.ran}
        /\ r.passed \subseteq r.ran /\ r.ran \subseteq r.cases
        /\ \A h \in r.ran \cap Hidden, d \in r.cases \ r.ran : d \in Hidden /\ h <= d
    BY <1>0, <1>3 DEF Listed, Listing, Trying
  <2> DEFINE now == IF passed THEN r.passed \cup {c} ELSE r.passed
             Entry(d, P) == [exec |-> r.exec, case |-> d, passed |-> d \in P]
  <2>2. RowsOf(r.sub, r.exec)' = RowsOf(r.sub, r.exec) \cup {row}
    BY <1>0, <1>2, <1>3 DEF RowsOf, Typed, TypeOK
  <2>3. row = Entry(c, now) /\ \A d \in r.ran : Entry(d, now) = Entry(d, r.passed)
    BY <1>1, <1>5, <2>1
  <2>4. RowsOf(r.sub, r.exec)' = {Entry(d, now) : d \in r.ran \cup {c}}
    <3> HIDE DEF now
    <3>1. RowsOf(r.sub, r.exec) = {Entry(d, now) : d \in r.ran}
      BY <2>1, <2>3
    <3> QED
      BY <2>2, <2>3, <3>1
  <2>5. \A h \in (r.ran \cup {c}) \cap Hidden, d \in r.cases \ (r.ran \cup {c}) :
            d \in Hidden /\ h <= d
    BY <1>5, <2>1
  <2>6. now \subseteq r.ran \cup {c} /\ r.ran \cup {c} \subseteq r.cases
    BY <1>5, <2>1
  <2>7. RowsOf(run[w].sub, run[w].exec)' = RowsOf(r.sub, r.exec)'
    BY <1>6 DEF RowsOf
  <2> QED
    BY <1>6, <2>4, <2>5, <2>6, <2>7 DEF Listing
<1>8. ASSUME NEW v \in Worker, v # w PROVE Listing(run[v])'
  <2>1. run'[v] = run[v] /\ Listing(run[v])
    BY <1>6, <1>8 DEF Listed
  <2>2. CASE run[v].pc \notin Trying
    BY <2>1, <2>2 DEF Listing
  <2>3. CASE run[v].pc \in Trying
    <3>1. run[v].sub # r.sub \/ run[v].exec # r.exec
      BY <1>0, <1>3, <1>8, <2>3 DEF Judged, RunsApart, Trying
    <3>2. RowsOf(run[v].sub, run[v].exec)' = RowsOf(run[v].sub, run[v].exec)
      BY <1>0, <1>2, <1>3, <2>1, <3>1, SubTyped DEF RowsOf, Typed, TypeOK
    <3> QED
      BY <2>1, <3>2 DEF Listing
  <2> QED
    BY <2>2, <2>3
<1> QED
  BY <1>4, <1>7, <1>8 DEF Listed

\* A row whose write was not acknowledged is the last of its run.
LEMMA AckListed ==
    ASSUME Typed, Judged, Listed, NEW w \in Worker, AckLost(w)
    PROVE  Listed'
<1>0. /\ run[w].pc \in Trying \cup Catching /\ run'[w].pc \notin Trying
      /\ \A v \in Worker : v # w => run'[v] = run[v]
  BY SubTyped DEF AckLost, Throw, GoTo, Handler, Typed, TypeOK, Run, Trying, Catching
<1>1. CASE results' = results
  <2>1. \A v \in Worker : run'[v] = run[v] \/ run'[v].pc \notin Trying
    BY <1>0
  <2> QED
    BY <1>1, <2>1, ListedKept
<1>2. CASE run[w].pc = "judge"
           /\ \E c \in NextCases(run[w]), passed \in BOOLEAN : WriteRow(w, c, passed)
  <2>1. PICK c \in NextCases(run[w]), passed \in BOOLEAN : WriteRow(w, c, passed)
    BY <1>2
  <2>2. RowsInOrder'
    BY <1>2, <2>1, RowFits
  <2>3. /\ run[w].sub \in Submission /\ run[w].exec \in Nat
        /\ results' = [results EXCEPT ![run[w].sub] = @ \cup
                          {[exec |-> run[w].exec, case |-> c, passed |-> passed]}]
    BY <2>1, SubTyped DEF WriteRow
  <2>4. ASSUME NEW v \in Worker, v # w PROVE Listing(run[v])'
    <3>1. run'[v] = run[v] /\ Listing(run[v])
      BY <1>0, <2>4 DEF Listed
    <3>2. CASE run[v].pc \notin Trying
      BY <3>1, <3>2 DEF Listing
    <3>3. CASE run[v].pc \in Trying
      <4>1. run[v].sub # run[w].sub \/ run[v].exec # run[w].exec
        BY <1>2, <2>4, <3>3 DEF Judged, RunsApart, Trying
      <4>2. RowsOf(run[v].sub, run[v].exec)' = RowsOf(run[v].sub, run[v].exec)
        BY <2>3, <3>1, <4>1, SubTyped DEF RowsOf, Typed, TypeOK
      <4> QED
        BY <3>1, <4>2 DEF Listing
    <3> QED
      BY <3>2, <3>3
  <2>5. Listing(run[w])'
    BY <1>0 DEF Listing
  <2> QED
    BY <2>2, <2>4, <2>5 DEF Listed
<1> QED
  BY <1>1, <1>2 DEF AckLost, WriteStatus, WriteVerdict

LEMMA NextListed == Typed /\ Judged /\ Listed /\ [Next]_vars => Listed'
<1> SUFFICES ASSUME Typed, Judged, Listed, [Next]_vars PROVE Listed'
  OBVIOUS
<1> USE DEF database
<1>1. CASE UNCHANGED vars
  BY <1>1, ListedKept DEF vars
<1>2. ASSUME NEW s \in Submission, Serve(s) \/ Promote(s) \/ Stall(s) PROVE Listed'
  <2>1. results' = results /\ run' = run
    BY <1>2 DEF Serve, CheckRequest, SaveSubmission, Enqueue, EnqueueFails, Promote, Stall
  <2> QED
    BY <2>1, ListedKept
<1>3. ASSUME NEW w \in Worker, NEW s \in Submission, Take(w, s) PROVE Listed'
  <2>1. execs[s] \in Nat /\ \A q \in results[s] : q.exec \in Nat /\ q.exec <= execs[s]
    BY DEF Judged, RunsApart, Typed, TypeOK, Row
  <2>2. RowsOf(s, execs[s] + 1) = {}
    BY <2>1 DEF RowsOf
  <2>3. run'[w].sub = s /\ run'[w].exec = execs[s] + 1
    BY <1>3, TakeStep
  <2>4. RowsOf(run'[w].sub, run'[w].exec) = {}
    BY <2>2, <2>3
  <2>5. results' = results
    BY <1>3 DEF Take
  <2> QED
    BY <1>3, <2>4, <2>5, TakeStep, StartListed
<1>4. ASSUME NEW w \in Worker, FetchSubmission(w) \/ MarkRunning(w) \/ LoadTests(w)
      PROVE  Listed'
  <2>1. /\ run[w].pc \in {"fetch", "start", "load"} /\ results' = results
        /\ run'[w].ran = run[w].ran /\ run'[w].passed = run[w].passed
    BY <1>4, SubTyped DEF FetchSubmission, MarkRunning, LoadTests, GoTo, WriteStatus,
                          Typed, TypeOK, Run
  <2>2. /\ run[w].ran = {} /\ run[w].passed = {}
        /\ RowsOf(run[w].sub, run[w].exec) = {}
    BY <2>1 DEF Listed, Listing, Trying
  <2>3. /\ run'[w].sub = run[w].sub /\ run'[w].exec = run[w].exec
        /\ \A v \in Worker : v # w => run'[v] = run[v]
    <3>1. ~Settle(w)
      BY <2>1 DEF Settle
    <3> QED
      BY <1>4, <3>1, RunStep DEF Process
  <2>4. RowsOf(run'[w].sub, run'[w].exec) = {}
    BY <2>2, <2>3
  <2> QED
    BY <2>1, <2>2, <2>3, <2>4, StartListed
<1>5. ASSUME NEW w \in Worker,
             \/ SaveVerdict(w) \/ Announce(w) \/ Refetch(w) \/ MarkError(w) \/ Settle(w)
             \/ CallFails(w)
      PROVE  Listed'
  <2>1. results' = results /\ run'[w].pc \notin Trying
    BY <1>5, SubTyped DEF SaveVerdict, Announce, Refetch, MarkError, Settle, CallFails,
       Throw, GoTo, Handler, WriteStatus, WriteVerdict, Typed, TypeOK, Run, Trying, Catching,
       IdleRun
  <2>2. \A v \in Worker : v # w => run'[v] = run[v]
    BY <1>5, RunStep, SettleStep DEF Process
  <2> QED
    BY <2>1, <2>2, ListedKept
<1>6. CASE Crash \/ EditTests
  BY <1>6, ListedKept DEF Crash, EditTests, IdleRun, Trying
<1> QED
  BY <1>1, <1>2, <1>3, <1>4, <1>5, <1>6, JudgeListed, AckListed DEF Next, Process

\* In whatever order runs of one submission crash, lose their lock or write side
\* by side, the rows of each follow processSubmission: one per test case, none of
\* a hidden case beside a failed visible one, none after a failed hidden one
\* (submission.processor.ts:139-163).
THEOREM RowsAreInOrder == Spec => []RowsInOrder
<1>1. Listed => RowsInOrder
  BY DEF Listed
<1> QED
  BY <1>1, InitTyped, NextTyped, InitJudged, NextJudged, InitListed, NextListed, PTL DEF Spec
-----------------------------------------------------------------------------
(* A submission marked as an error has no points *)

Returning == {"announce", "settle"}

\* A run writes the columns of its own submission only.
LEMMA RunElsewhere ==
    ASSUME Typed, NEW w \in Worker, Process(w) \/ CallFails(w) \/ AckLost(w),
           NEW u \in Submission, u # run[w].sub
    PROVE  status'[u] = status[u] /\ score'[u] = score[u]
<1> USE DEF database, Typed, TypeOK
<1>1. ASSUME NEW st, WriteStatus(w, st) PROVE status'[u] = status[u] /\ score'[u] = score[u]
  BY <1>1 DEF WriteStatus
<1>2. ASSUME WriteVerdict(w) PROVE status'[u] = status[u] /\ score'[u] = score[u]
  BY <1>2 DEF WriteVerdict
<1>3. ASSUME NEW c, NEW passed, WriteRow(w, c, passed)
      PROVE  status'[u] = status[u] /\ score'[u] = score[u]
  BY <1>3 DEF WriteRow
<1>4. CASE FetchSubmission(w) \/ LoadTests(w) \/ Announce(w) \/ Refetch(w) \/ Settle(w)
           \/ CallFails(w)
  BY <1>4 DEF FetchSubmission, LoadTests, Announce, Refetch, Settle, CallFails
<1>5. CASE MarkRunning(w) \/ MarkError(w)
  BY <1>1, <1>5 DEF MarkRunning, MarkError
<1>6. CASE SaveVerdict(w)
  BY <1>2, <1>6 DEF SaveVerdict
<1>7. CASE \E c \in TestCase, passed \in BOOLEAN : JudgeCase(w, c, passed)
  BY <1>3, <1>7 DEF JudgeCase
<1>8. CASE AckLost(w)
  BY <1>1, <1>2, <1>3, <1>8 DEF AckLost
<1> QED
  BY <1>4, <1>5, <1>6, <1>7, <1>8 DEF Process

LEMMA InitScores == Init => Scores
BY DEF Init, Scores, Unscored, On, IdleRun, Verdicts

\* Nothing is written, the job stays or leaves no verdict behind, and whoever
\* moves returns or keeps the score it read.
LEMMA UnscoredKept ==
    ASSUME NEW u \in Submission, Unscored(u),
           status'[u] = status[u], score'[u] = score[u],
           job'[u].stalls = job[u].stalls,
           \/ job'[u].state = job[u].state
           \/ job[u].stalls = 0 => status[u] \notin Verdicts,
           \A w \in Worker : On(w, u)' =>
               \/ run'[w].pc \in Returning
               \/ On(w, u) /\ run[w].pc \notin Returning /\ run'[w].score = run[w].score
    PROVE  Unscored(u)'
<1> SUFFICES ASSUME job'[u].stalls = 0
             PROVE  /\ score'[u] # 0 => status'[u] \in Verdicts
                    /\ status'[u] \in Verdicts => job'[u].state \in {"active", "done"}
                    /\ \A w \in Worker :
                          On(w, u)' /\ run'[w].pc \notin Returning =>
                              status'[u] \notin Verdicts /\ run'[w].score = 0
  BY DEF Unscored, Verdicts, Returning
<1>1. job[u].stalls = 0
  OBVIOUS
<1> QED
  BY <1>1 DEF Unscored, Returning

LEMMA ServeScores ==
    ASSUME Typed, ExecutionsAccounted, Scores, NEW s \in Submission, Serve(s) \/ Promote(s)
    PROVE  Scores'
<1> USE DEF Typed, TypeOK, database
<1>0. run' = run /\ score' = score
  BY QueueStep DEF Serve, CheckRequest, SaveSubmission, Enqueue, EnqueueFails, Promote
<1>2. \A u \in Submission, w \in Worker : On(w, u)' =>
          \/ run'[w].pc \in Returning
          \/ On(w, u) /\ run[w].pc \notin Returning /\ run'[w].score = run[w].score
  BY <1>0 DEF On
<1>3. ASSUME NEW u \in Submission, u # s PROVE Unscored(u)'
  <2>1. job'[u] = job[u] /\ status'[u] = status[u]
    BY <1>3, QueueStep
  <2> QED
    BY <1>0, <1>2, <2>1, UnscoredKept DEF Scores
<1>4. Unscored(s)'
  <2>0. Unscored(s) /\ job[s] \in Job
    BY JobFields DEF Scores
  <2>1. CASE CheckRequest(s)
    BY <1>0, <1>2, <2>0, <2>1, UnscoredKept DEF CheckRequest
  <2>2. CASE SaveSubmission(s)
    <3>1. job[s] = NoJob /\ job' = job /\ status'[s] = "pending"
      BY <2>2 DEF SaveSubmission, RequestStep, ExecutionsAccounted
    <3>2. score[s] = 0
      BY <2>0, <3>1 DEF Unscored, NoJob
    <3>3. \A w \in Worker : On(w, s) /\ run[w].pc \notin Returning => run[w].score = 0
      BY <2>0, <3>1 DEF Unscored, NoJob, Returning
    <3> QED
      BY <1>0, <3>1, <3>2, <3>3 DEF Unscored, Verdicts, On, Returning
  <2>3. CASE Enqueue(s) \/ EnqueueFails(s)
    <3>1. job[s] = NoJob
      BY <2>3 DEF Enqueue, EnqueueFails, RequestStep, ExecutionsAccounted
    <3>2. job' = job \/ AddJob(s)
      BY <2>3 DEF Enqueue, EnqueueFails
    <3>3. job'[s].stalls = job[s].stalls
      BY <3>1, <3>2 DEF AddJob, NoJob
    <3>4. status[s] \notin Verdicts
      BY <2>0, <3>1 DEF Unscored, NoJob
    <3>5. status'[s] = status[s]
      BY <2>3 DEF Enqueue, EnqueueFails
    <3> QED
      BY <1>0, <1>2, <2>0, <3>3, <3>4, <3>5, UnscoredKept
  <2>4. CASE Promote(s)
    <3>1. job'[s].stalls = job[s].stalls /\ status' = status /\ job[s].state = "delayed"
      BY <2>0, <2>4 DEF Promote, Job
    <3>2. job[s].stalls = 0 => status[s] \notin Verdicts
      BY <2>0, <3>1 DEF Unscored
    <3> QED
      BY <1>0, <1>2, <2>0, <3>1, <3>2, UnscoredKept
  <2> QED
    BY <2>1, <2>2, <2>3, <2>4 DEF Serve
<1> QED
  BY <1>3, <1>4 DEF Scores

LEMMA StallScores ==
    ASSUME Typed, Scores, NEW s \in Submission, Stall(s)
    PROVE  Scores'
<1>1. run' = run /\ score' = score /\ status' = status
  BY DEF Stall, database
<1>2. job'[s].stalls = job[s].stalls + 1
  BY JobFields DEF Stall, Requeue, Job, Typed, TypeOK
<1>3. job[s].stalls \in Nat
  BY JobFields
<1>4. Unscored(s)'
  BY <1>2, <1>3 DEF Unscored
<1>5. ASSUME NEW u \in Submission, u # s PROVE Unscored(u)'
  <2>1. job'[u] = job[u]
    BY <1>5, QueueStep
  <2> QED
    BY <1>1, <2>1 DEF Scores, Unscored, On
<1> QED
  BY <1>4, <1>5 DEF Scores

LEMMA TakeScores ==
    ASSUME Typed, Scores, NEW w \in Worker, NEW s \in Submission, Take(w, s)
    PROVE  Scores'
<1>1. score' = score /\ status' = status
  BY QueueStep, TakeStep
<1>2. ASSUME NEW u \in Submission, u # s PROVE Unscored(u)'
  <2>1. job'[u] = job[u]
    BY <1>2, QueueStep
  <2>2. \A v \in Worker : On(v, u)' => v # w /\ run'[v] = run[v]
    BY <1>2, TakeStep DEF On
  <2> QED
    BY <1>1, <2>1, <2>2 DEF Scores, Unscored, On
<1>3. Unscored(s)'
  <2>1. Unscored(s) /\ job[s].state = "waiting" /\ job'[s].stalls = job[s].stalls
    BY TakeStep DEF Scores
  <2>2. job[s].stalls = 0 => status[s] \notin Verdicts /\ score[s] = 0
    BY <2>1 DEF Unscored
  <2>3. \A v \in Worker : On(v, s)' => run'[v].score = 0 \/ run'[v] = run[v]
    BY TakeStep DEF On
  <2> QED
    BY <1>1, <2>1, <2>2, <2>3 DEF Unscored, On
<1> QED
  BY <1>2, <1>3 DEF Scores


\* What a step of a run does to a submission that still has no verdict: it
\* writes the points the run read, none, or nothing.
LEMMA MovesScores ==
    ASSUME Typed, Scores, NEW w \in Worker, NEW s \in Submission, s = run[w].sub,
           Process(w) \/ CallFails(w), ~Settle(w), ~SaveVerdict(w)
    PROVE  Unscored(s)'
<1> USE DEF Typed, TypeOK, database
<1>0. /\ Unscored(s) /\ run[w] \in Run /\ run[w].pc \in PC /\ run \in [Worker -> Run]
      /\ s \in Submission /\ status \in [Submission -> Status] /\ score \in [Submission -> Nat]
  BY SubTyped DEF Scores
<1>1. /\ On(w, s) /\ job' = job
      /\ \A v \in Worker : v # w => run'[v] = run[v]
  BY RunStep DEF On
<1>2. \A v \in Worker : v # w /\ On(v, s)' =>
          \/ run'[v].pc \in Returning
          \/ On(v, s) /\ run[v].pc \notin Returning /\ run'[v].score = run[v].score
  BY <1>1 DEF On
<1>3. CASE FetchSubmission(w) \/ Refetch(w)
  <2>1. /\ run[w].pc \in {"fetch", "refetch"} /\ status' = status /\ score' = score
        /\ run'[w].score = score[s]
    BY <1>0, <1>3 DEF FetchSubmission, Refetch, Run
  <2>2. job[s].stalls = 0 => status[s] \notin Verdicts /\ score[s] = 0
    BY <1>0, <1>1, <2>1 DEF Unscored
  <2> QED
    BY <1>0, <1>1, <2>1, <2>2 DEF Unscored, On
<1>4. CASE MarkRunning(w) \/ MarkError(w)
  <2>1. /\ run[w].pc \in {"start", "mark"} /\ status'[s] \notin Verdicts
        /\ score'[s] = run[w].score
    BY <1>0, <1>4 DEF MarkRunning, MarkError, WriteStatus, Verdicts
  <2>2. run'[w].score = run[w].score
    BY <1>0, <1>4 DEF MarkRunning, MarkError, GoTo, Run
  <2>3. job[s].stalls = 0 => run[w].score = 0
    BY <1>0, <1>1, <2>1 DEF Unscored
  <2>4. \A v \in Worker : job[s].stalls = 0 /\ On(v, s)' /\ run'[v].pc \notin Returning
            => run'[v].score = 0
    BY <1>0, <1>1, <2>2, <2>3 DEF Unscored, On, Returning
  <2> QED
    BY <1>1, <2>1, <2>3, <2>4 DEF Unscored, Returning
<1>5. CASE LoadTests(w) \/ CallFails(w) \/ Announce(w)
           \/ \E c \in TestCase, passed \in BOOLEAN : JudgeCase(w, c, passed)
  <2>1. status' = status /\ score' = score
    BY <1>5 DEF LoadTests, CallFails, Announce, JudgeCase, WriteRow
  <2>2. CASE Announce(w)
    <3>1. run'[w].pc \in Returning
      BY <1>0, <2>2 DEF Announce, GoTo, Run, Returning
    <3> QED
      BY <1>0, <1>1, <1>2, <2>1, <3>1, UnscoredKept
  <2>3. CASE ~Announce(w)
    <3>1. run[w].pc \notin Returning
      BY <1>5, <2>3 DEF LoadTests, CallFails, JudgeCase, Returning, Trying, Catching
    <3>2. run'[w].score = run[w].score
      <4>1. CASE LoadTests(w)
        BY <1>0, <4>1 DEF LoadTests, Run
      <4>2. CASE CallFails(w)
        BY <1>0, <4>2 DEF CallFails, Throw, GoTo, Run
      <4>3. ASSUME NEW c \in TestCase, NEW passed \in BOOLEAN, JudgeCase(w, c, passed)
            PROVE  run'[w].score = run[w].score
        BY <1>0, <4>3 DEF JudgeCase, Run
      <4> QED
        BY <1>5, <2>3, <4>1, <4>2, <4>3
    <3> QED
      BY <1>0, <1>1, <1>2, <2>1, <3>1, <3>2, UnscoredKept
  <2> QED
    BY <2>2, <2>3
<1> QED
  BY <1>3, <1>4, <1>5 DEF Process

\* A verdict is stored by the run that has the job: no other one is left.
LEMMA VerdictScores ==
    ASSUME Typed, Owners, Scores, NEW w \in Worker, NEW s \in Submission, s = run[w].sub,
           SaveVerdict(w)
    PROVE  Unscored(s)'
<1> USE DEF Typed, TypeOK
<1>0. /\ Unscored(s) /\ run[w] \in Run /\ run \in [Worker -> Run]
      /\ s \in Submission /\ status \in [Submission -> Status] /\ score \in [Submission -> Nat]
  BY SubTyped DEF Scores
<1>1. On(w, s) /\ On(w, s)' /\ job' = job
  BY <1>0 DEF SaveVerdict, On, GoTo, Run
<1>2. run'[w].pc = "announce" /\ \A v \in Worker : v # w => run'[v] = run[v]
  BY <1>0 DEF SaveVerdict, GoTo, Run
<1>3. status'[s] \in Verdicts
  BY <1>0 DEF SaveVerdict, WriteVerdict, Verdict, Verdicts
<1> SUFFICES ASSUME job[s].stalls = 0
             PROVE  /\ job[s].state = "active"
                    /\ \A v \in Worker : On(v, s)' => run'[v].pc \in Returning
  BY <1>1, <1>3 DEF Unscored, Returning
<1>4. Sole(s)
  BY DEF Sole
<1>5. job[s].state = "active"
  BY <1>1, <1>4 DEF Owners, Owned, On
<1>6. \A v \in Worker : On(v, s) => v = w
  BY <1>1, <1>4, RunIsSole
<1> QED
  BY <1>2, <1>5, <1>6 DEF On, Returning

LEMMA SettleScores ==
    ASSUME Typed, Scores, NEW w \in Worker, Settle(w)
    PROVE  Scores'
<1> SUFFICES ASSUME NEW s \in Submission PROVE Unscored(s)'
  BY DEF Scores
<1>0. /\ Unscored(s) /\ run[w].sub \in Submission /\ job'[run[w].sub].stalls = job[run[w].sub].stalls
      /\ status' = status /\ score' = score
  BY SubTyped, SettleStep DEF Scores, database
<1>1. \A v \in Worker : On(v, s)' => run'[v] = run[v]
  BY SettleStep DEF On
<1>2. \A v \in Worker : On(v, s)' =>
          \/ run'[v].pc \in Returning
          \/ On(v, s) /\ run[v].pc \notin Returning /\ run'[v].score = run[v].score
  BY <1>1 DEF On
<1>3. CASE s # run[w].sub \/ ~Owned(w)
  <2>1. job'[s] = job[s]
    BY <1>3, SettleStep
  <2> QED
    BY <1>0, <1>2, <2>1, UnscoredKept
<1>4. CASE s = run[w].sub /\ Owned(w) /\ run[w].pc = "settle"
  <2>1. job'[s].state = "done" /\ job'[s].stalls = job[s].stalls
    BY <1>4, SettleStep
  <2> QED
    BY <1>0, <1>1, <2>1 DEF Unscored, On
<1>5. CASE s = run[w].sub /\ Owned(w) /\ run[w].pc = "rethrow"
  <2>1. job[s].stalls = 0 => status[s] \notin Verdicts
    BY <1>0, <1>5 DEF Unscored, On
  <2>2. job'[s].stalls = job[s].stalls
    BY <1>0, <1>5
  <2> QED
    BY <1>0, <1>2, <2>1, <2>2, UnscoredKept
<1> QED
  BY <1>3, <1>4, <1>5, SettleStep

LEMMA NextScores ==
    ASSUME MaxLostAcks = 0
    PROVE  Typed /\ ExecutionsAccounted /\ Owners /\ Scores /\ [Next]_vars => Scores'
<1> SUFFICES ASSUME Typed, ExecutionsAccounted, Owners, Scores, [Next]_vars PROVE Scores'
  OBVIOUS
<1>1. CASE UNCHANGED vars
  BY <1>1 DEF vars, Scores, Unscored, On
<1>2. ASSUME NEW w \in Worker, Process(w) \/ CallFails(w), ~Settle(w) PROVE Scores'
  <2>1. ASSUME NEW u \in Submission, u # run[w].sub PROVE Unscored(u)'
    <3>1. status'[u] = status[u] /\ score'[u] = score[u] /\ job' = job
      BY <1>2, <2>1, RunElsewhere, RunStep
    <3>2. \A v \in Worker : On(v, u)' => run'[v] = run[v]
      BY <1>2, <2>1, RunStep DEF On
    <3> QED
      BY <3>1, <3>2 DEF Scores, Unscored, On
  <2>2. run[w].sub \in Submission
    BY SubTyped
  <2>3. ASSUME NEW u \in Submission, u = run[w].sub PROVE Unscored(u)'
    BY <1>2, <2>3, MovesScores, VerdictScores
  <2> QED
    BY <2>1, <2>3 DEF Scores
<1>3. ASSUME NEW w \in Worker, AckLost(w) PROVE FALSE
  <2>1. "ack" \in Fault /\ Limit["ack"] = 0 /\ used["ack"] \in Nat
    BY DEF Fault, Limit, Typed, TypeOK
  <2> QED
    BY <1>3, <2>1 DEF AckLost, Spend
<1>4. CASE Crash
  <2>1. /\ job' = job /\ status' = status /\ score' = score
        /\ \A v \in Worker : run'[v].pc = "idle"
    BY <1>4 DEF Crash, IdleRun, database
  <2> QED
    BY <2>1 DEF Scores, Unscored, On
<1>5. CASE EditTests
  BY <1>5 DEF EditTests, Scores, Unscored, On, database
<1> QED
  BY <1>1, <1>2, <1>3, <1>4, <1>5, ServeScores, StallScores, TakeScores, SettleScores DEF Next

\* As long as no write commits without its acknowledgement, a submission marked as
\* an error whose job never stalled has no points, whatever runs failed or lost
\* their lock: the stale score the catch block writes back is zero
\* (submission.processor.ts:219-227).
THEOREM ErrorsHaveNoScore == ASSUME MaxLostAcks = 0 PROVE Spec => []ErrorHasNoScore
<1>1. Scores => ErrorHasNoScore
  BY DEF Scores, Unscored, ErrorHasNoScore, Verdicts
<1>2. Typed /\ ExecutionsAccounted /\ Owners /\ Scores /\ [Next]_vars => Scores'
  BY NextScores
<1> QED
  BY <1>1, <1>2, InitTyped, NextTyped, InitAccounted, NextAccounted, InitOwners, NextOwners,
     InitScores, PTL DEF Spec

-----------------------------------------------------------------------------
(* A job that is over leaves a final status *)

LEMMA LimitsAre ==
    /\ {"reject", "ack", "crash", "lock", "edit", "request"} = Fault
    /\ Limit["reject"] = MaxRejects /\ Limit["ack"] = MaxLostAcks
    /\ Limit["crash"] = MaxCrashes /\ Limit["lock"] = MaxLockLosses
    /\ Limit["edit"] = MaxEdits
    /\ \A f \in Fault : Limit[f] \in Nat
BY BoundsAssumption DEF Fault, Limit

\* One more fault is within its limit, and the others stay.
LEMMA SpendStep ==
    ASSUME Typed, NEW f \in Fault, Spend(f)
    PROVE  /\ used'[f] = used[f] + 1 /\ used'[f] <= Limit[f]
           /\ \A g \in Fault : used[g] \in Nat /\ used'[g] \in Nat /\ (g # f => used'[g] = used[g])
<1>1. used \in [Fault -> Nat]
  BY DEF Typed, TypeOK
<1>2. used'[f] = used[f] + 1 /\ \A g \in Fault : g # f => used'[g] = used[g]
  BY <1>1 DEF Spend
<1>3. used[f] \in Nat /\ Limit[f] \in Nat /\ used[f] < Limit[f]
  BY <1>1, LimitsAre DEF Spend
<1> QED
  BY <1>1, <1>2, <1>3

LEMMA TestsTyped ==
    ASSUME Typed
    PROVE  /\ IsFiniteSet(tests) /\ IsFiniteSet(InitialTests)
           /\ Cardinality(tests) \in Nat /\ Cardinality(InitialTests) \in Nat
           /\ \A f \in Fault : used[f] \in Nat
<1>1. IsFiniteSet(tests) /\ IsFiniteSet(InitialTests)
  BY TestsAssumption, FS_Subset DEF Typed, TypeOK
<1> QED
  BY <1>1, FS_CardinalityType DEF Typed, TypeOK

\* Faults stay within their limits, and editors leave a test case.
LEMMA NextTestsLeft ==
    ASSUME Typed, TestsLeft, [Next]_vars
    PROVE  TestsLeft'
<1>0. /\ \A f \in Fault : used[f] \in Nat /\ Limit[f] \in Nat /\ used[f] <= Limit[f]
      /\ Cardinality(tests) \in Nat /\ Cardinality(InitialTests) \in Nat
      /\ {"reject", "ack", "crash", "lock", "edit", "request"} = Fault
  BY TestsTyped, LimitsAre DEF TestsLeft
<1>1. ASSUME tests' = tests, used' = used \/ \E f \in Fault \ {"edit"} : Spend(f)
      PROVE  TestsLeft'
  <2>1. CASE used' = used
    BY <1>1, <2>1 DEF TestsLeft
  <2>2. ASSUME NEW f \in Fault \ {"edit"}, Spend(f) PROVE TestsLeft'
    BY <1>0, <1>1, <2>2, SpendStep DEF TestsLeft
  <2> QED
    BY <1>1, <2>1, <2>2
<1>2. CASE EditTests
  <2>1. /\ used'["edit"] = used["edit"] + 1 /\ used'["edit"] <= Limit["edit"]
        /\ \A g \in Fault : used'[g] \in Nat /\ (g # "edit" => used'[g] = used[g])
    BY <1>0, <1>2, SpendStep DEF EditTests
  <2>2. PICK c \in TestCase : tests' = tests \cup {c} \/ tests' = tests \ {c}
    BY <1>2 DEF EditTests
  <2>3. Cardinality(tests') \in Nat /\ Cardinality(tests') >= Cardinality(tests) - 1
    <3>0. IsFiniteSet(tests) /\ Cardinality(tests) \in Nat
      BY TestsTyped
    <3>1. CASE tests' = tests \cup {c}
      <4>1. Cardinality(tests \cup {c}) \in {Cardinality(tests), Cardinality(tests) + 1}
        BY <3>0, FS_AddElement
      <4> QED
        BY <3>0, <3>1, <4>1
    <3>2. CASE tests' = tests \ {c}
      <4>1. Cardinality(tests \ {c}) \in {Cardinality(tests), Cardinality(tests) - 1}
        BY <3>0, FS_RemoveElement
      <4>2. Cardinality(tests \ {c}) \in Nat
        BY <3>0, FS_RemoveElement, FS_CardinalityType
      <4> QED
        BY <3>0, <3>2, <4>1, <4>2
    <3> QED
      BY <2>2, <3>1, <3>2
  <2> QED
    BY <1>0, <2>1, <2>3 DEF TestsLeft
<1>3. CASE UNCHANGED vars
  BY <1>3 DEF vars, TestsLeft
<1>4. ASSUME NEW s \in Submission, Serve(s) \/ Promote(s) \/ Stall(s) PROVE TestsLeft'
  <2>1. tests' = tests /\ (used' = used \/ Spend("request") \/ Spend("lock"))
    BY <1>4 DEF Serve, CheckRequest, SaveSubmission, Enqueue, EnqueueFails, Promote, Stall
  <2> QED
    BY <1>0, <1>1, <2>1
<1>5. ASSUME NEW w \in Worker, NEW s \in Submission, Take(w, s) PROVE TestsLeft'
  BY <1>1, <1>5, TakeStep
<1>6. ASSUME NEW w \in Worker, Process(w) \/ CallFails(w) \/ AckLost(w) PROVE TestsLeft'
  <2>1. tests' = tests /\ (used' = used \/ Spend("reject") \/ Spend("ack"))
    BY <1>6 DEF Process, FetchSubmission, MarkRunning, LoadTests, JudgeCase, SaveVerdict,
                Announce, Refetch, MarkError, Settle, CallFails, AckLost
  <2> QED
    BY <1>0, <1>1, <2>1
<1>7. CASE Crash
  BY <1>0, <1>1, <1>7 DEF Crash
<1> QED
  BY <1>2, <1>3, <1>4, <1>5, <1>6, <1>7 DEF Next

LEMMA InitKept == Init => Kept
<1> SUFFICES ASSUME Init PROVE Kept
  OBVIOUS
<1>1. TestsLeft
  <2>1. \A f \in Fault : used[f] = 0
    BY DEF Init
  <2>2. Cardinality(InitialTests) \in Nat
    BY TestsAssumption, FS_Subset, FS_CardinalityType
  <2> QED
    BY <2>1, <2>2, LimitsAre DEF Init, TestsLeft
<1>2. ASSUME NEW s \in Submission PROVE Spared(s) /\ StatusFits(s)
  <2>1. Errors = 0 /\ used["crash"] = 0
    BY LimitsAre DEF Init, Errors
  <2>2. job[s] = NoJob /\ status[s] = "none" /\ request[s] = "none"
        /\ \A w \in Worker : ~On(w, s)
    BY DEF Init, On, IdleRun
  <2> QED
    BY <2>1, <2>2 DEF Spared, StatusFits, Settled, NoJob
<1> QED
  BY <1>1, <1>2 DEF Kept

\* What keeps a submission: its job, status and request stay, faults grow by what
\* its runs do not answer for.
LEMMA OtherKept ==
    ASSUME Typed, NEW u \in Submission, Spared(u), StatusFits(u),
           job'[u] = job[u], status'[u] = status[u], request'[u] = request[u],
           Errors \in Nat, Errors' \in Nat, Errors <= Errors', used'["crash"] = used["crash"],
           \A w \in Worker : On(w, u)' => run'[w] = run[w],
           \A w \in Worker : On(w, u) => On(w, u)'
    PROVE  Spared(u)' /\ StatusFits(u)'
<1>1. job[u].made \in Nat /\ job[u].stalls \in Nat
  BY JobFields
<1>2. \A w \in Worker : On(w, u)' => On(w, u)
  BY DEF On
<1>3. job[u].state = "active" => job[u].owner \in Worker /\ (Dead(u)' => Dead(u))
  BY DEF Spared, Dead, On
<1>4. StatusFits(u)'
  BY <1>2 DEF StatusFits, Settled
<1>5. /\ job'[u].made <= Errors'
      /\ job'[u].stalls <= used'["crash"]
  BY <1>1 DEF Spared
<1>6. job'[u].state = "active" =>
          job'[u].owner \in Worker /\ (Dead(u)' => job'[u].stalls < used'["crash"])
  BY <1>3 DEF Spared
<1>7. ASSUME NEW w \in Worker, On(w, u)'
      PROVE  /\ run'[w].pc \in {"refetch", "mark"} => job'[u].made < Errors'
             /\ run'[w].pc = "rethrow" =>
                   job'[u].made < Errors' /\ (status'[u] \in Final \/ job'[u].made + 1 < Errors')
  BY <1>1, <1>2, <1>7 DEF Spared
<1> QED
  BY <1>4, <1>5, <1>6, <1>7 DEF Spared

\* No fault: the numbers they are counted by stay.
LEMMA ErrorsStay ==
    ASSUME Typed, used' = used
    PROVE  Errors \in Nat /\ Errors' \in Nat /\ Errors' = Errors /\ used'["crash"] = used["crash"]
BY TestsTyped, LimitsAre DEF Errors

\* A job that is not active has no run, and an active one has a single run.
LEMMA RunsHold ==
    ASSUME Typed, Owners, MaxLockLosses = 0, NEW s \in Submission, NEW w \in Worker, On(w, s)
    PROVE  /\ job[s].state = "active" /\ job[s].owner = w /\ ~Dead(s)
           /\ \A v \in Worker : On(v, s) => v = w
<1>1. Sole(s) /\ run[w].sub = s /\ run[w].pc # "idle"
  BY DEF Sole, On
<1>2. Owned(w)
  BY <1>1 DEF Owners
<1> QED
  BY <1>1, <1>2, RunIsSole DEF Owned, Dead

LEMMA ServeKept ==
    ASSUME Typed, ExecutionsAccounted, Owners, Kept, MaxLockLosses = 0,
           NEW s \in Submission, Serve(s) \/ Promote(s)
    PROVE  \A u \in Submission : Spared(u)' /\ StatusFits(u)'
<1> USE DEF database
<1>0. /\ run' = run /\ Errors \in Nat /\ Errors' \in Nat /\ Errors' = Errors
      /\ used'["crash"] = used["crash"]
  <2>1. run' = run /\ (used' = used \/ Spend("request"))
    BY DEF Serve, CheckRequest, SaveSubmission, Enqueue, EnqueueFails, Promote
  <2>2. Errors \in Nat
    BY TestsTyped, LimitsAre DEF Errors
  <2>3. used' = used \/ \A f \in Fault \ {"request"} : used'[f] = used[f]
    BY <2>1, LimitsAre, SpendStep
  <2> QED
    BY <2>1, <2>2, <2>3, LimitsAre DEF Errors
<1>1. ASSUME NEW u \in Submission, u # s PROVE Spared(u)' /\ StatusFits(u)'
  <2>1. job'[u] = job[u] /\ request'[u] = request[u] /\ status'[u] = status[u]
    BY <1>1, QueueStep
  <2>2. \A w \in Worker : On(w, u)' <=> On(w, u)
    BY <1>0 DEF On
  <2> QED
    BY <1>0, <2>1, <2>2, OtherKept DEF Kept
<1>2. Spared(s) /\ StatusFits(s) /\ job[s] \in Job /\ job[s].made \in Nat /\ job[s].stalls \in Nat
  BY JobFields DEF Kept
<1>3. /\ request \in [Submission -> Request] /\ status \in [Submission -> Status]
      /\ job \in [Submission -> Job]
  BY DEF Typed, TypeOK
<1>4. ASSUME NEW w \in Worker, On(w, s)' PROVE job[s].state = "active"
  BY <1>0, <1>4, RunsHold DEF On
<1>5. ASSUME job'[s].state \notin {"active", "done", "failed"}, job[s].state # "active",
             job'[s].made = job[s].made, job'[s].stalls = job[s].stalls,
             job'[s].state # "none" => status'[s] # "none",
             request'[s] \in {"none", "checked"} => status'[s] = "none",
             request'[s] \in {"saved", "answered"} => status'[s] # "none"
      PROVE  Spared(s)' /\ StatusFits(s)'
  <2>1. \A w \in Worker : ~On(w, s)'
    BY <1>4, <1>5
  <2> QED
    BY <1>0, <1>2, <1>5, <2>1 DEF Spared, StatusFits, Settled
<1>6. CASE CheckRequest(s)
  <2>1. /\ job[s] = NoJob /\ job' = job /\ status' = status /\ status[s] = "none"
        /\ request'[s] = "checked"
    BY <1>2, <1>3, <1>6 DEF CheckRequest, RequestStep, ExecutionsAccounted, StatusFits
  <2> QED
    BY <1>1, <1>5, <2>1 DEF NoJob
<1>7. CASE SaveSubmission(s)
  <2>1. /\ job[s] = NoJob /\ job' = job /\ status'[s] = "pending" /\ request'[s] = "saved"
    BY <1>3, <1>7 DEF SaveSubmission, RequestStep, ExecutionsAccounted
  <2> QED
    BY <1>1, <1>5, <2>1 DEF NoJob
<1>8. CASE Enqueue(s) \/ EnqueueFails(s)
  <2>1. /\ job[s] = NoJob /\ status' = status /\ status[s] # "none"
        /\ request'[s] \in {"answered", "failed"}
    BY <1>2, <1>3, <1>8 DEF Enqueue, EnqueueFails, RequestStep, ExecutionsAccounted, StatusFits
  <2>2. job' = job \/ AddJob(s)
    BY <1>8 DEF Enqueue, EnqueueFails
  <2>3. /\ job'[s].state \in {"none", "waiting"}
        /\ job'[s].made = job[s].made /\ job'[s].stalls = job[s].stalls
    BY <1>3, <2>1, <2>2 DEF AddJob, NoJob
  <2> QED
    BY <1>1, <1>5, <2>1, <2>3 DEF NoJob
<1>9. CASE Promote(s)
  <2>1. /\ job[s].state = "delayed" /\ job'[s].state = "waiting"
        /\ job'[s].made = job[s].made /\ job'[s].stalls = job[s].stalls
        /\ status' = status /\ request' = request
    BY <1>2, <1>3, <1>9 DEF Promote, Job
  <2>2. /\ status'[s] # "none" /\ (request'[s] \in {"none", "checked"} => status'[s] = "none")
    BY <1>2, <2>1 DEF StatusFits
  <2> QED
    BY <1>1, <1>5, <2>1, <2>2
<1> QED
  BY <1>1, <1>6, <1>7, <1>8, <1>9 DEF Serve

\* Crashes alone stall jobs, and stay within the stalls a job may have: a stalled
\* job waits for another run.
LEMMA StallKept ==
    ASSUME Typed, ExecutionsAccounted, Owners, Kept, FewFaults,
           NEW s \in Submission, Stall(s)
    PROVE  /\ job'[s].state = "waiting"
           /\ \A u \in Submission : Spared(u)' /\ StatusFits(u)'
<1>0. MaxLockLosses = 0 /\ MaxCrashes <= MaxStalledCount
  BY DEF FewFaults
<1>1. /\ run' = run /\ status' = status /\ request' = request /\ job[s].state = "active"
      /\ Dead(s) /\ used' = used
  <2>1. Dead(s) \/ Spend("lock")
    BY DEF Stall
  <2>2. ~Spend("lock")
    BY <1>0, TestsTyped, LimitsAre DEF Spend
  <2> QED
    BY <2>1, <2>2 DEF Stall, database
<1>2. ASSUME NEW u \in Submission, u # s PROVE Spared(u)' /\ StatusFits(u)'
  <2>1. job'[u] = job[u] /\ status'[u] = status[u] /\ request'[u] = request[u]
    BY <1>1, <1>2, QueueStep
  <2>2. \A w \in Worker : On(w, u)' <=> On(w, u)
    BY <1>1 DEF On
  <2> QED
    BY <1>1, <2>1, <2>2, ErrorsStay, OtherKept DEF Kept
<1>3. /\ Spared(s) /\ StatusFits(s) /\ job[s] \in Job /\ job[s].made \in Nat /\ job[s].stalls \in Nat
      /\ used["crash"] \in Nat /\ used["crash"] <= MaxCrashes /\ job \in [Submission -> Job]
  BY JobFields, TestsTyped, LimitsAre DEF Kept, TestsLeft, Typed, TypeOK
<1>4. job[s].stalls < used["crash"]
  BY <1>1, <1>3 DEF Spared
<1>5. job[s].stalls < MaxStalledCount
  BY <1>0, <1>3, <1>4, BoundsAssumption, QueueAssumption
<1>6. /\ job'[s].state = "waiting" /\ job'[s].stalls = job[s].stalls + 1
      /\ job'[s].made = job[s].made
  BY <1>3, <1>5 DEF Stall, Requeue, Job
<1>7. \A w \in Worker : ~On(w, s)'
  BY <1>0, <1>1, RunsHold DEF On
<1>8. Spared(s)'
  BY <1>1, <1>3, <1>4, <1>6, <1>7, ErrorsStay DEF Spared
<1>9. StatusFits(s)'
  BY <1>1, <1>3, <1>6, <1>7 DEF StatusFits, Settled
<1> QED
  BY <1>2, <1>6, <1>8, <1>9

LEMMA TakeKept ==
    ASSUME Typed, Owners, Kept, MaxLockLosses = 0,
           NEW w \in Worker, NEW s \in Submission, Take(w, s)
    PROVE  \A u \in Submission : Spared(u)' /\ StatusFits(u)'
<1>1. ASSUME NEW u \in Submission, u # s PROVE Spared(u)' /\ StatusFits(u)'
  <2>1. job'[u] = job[u] /\ status'[u] = status[u] /\ request'[u] = request[u] /\ used' = used
    BY <1>1, QueueStep, TakeStep
  <2>2. \A v \in Worker : On(v, u)' <=> On(v, u)
    BY <1>1, TakeStep DEF On
  <2>3. \A v \in Worker : On(v, u)' => run'[v] = run[v]
    BY <1>1, TakeStep DEF On
  <2> QED
    BY <2>1, <2>2, <2>3, ErrorsStay, OtherKept DEF Kept
<1>2. Spared(s) /\ StatusFits(s) /\ job[s].made \in Nat /\ job[s].stalls \in Nat
  BY JobFields DEF Kept
<1>3. \A v \in Worker : On(v, s)' => v = w
  BY RunsHold, TakeStep DEF On
<1>4. ~Dead(s)'
  BY TakeStep DEF Dead
<1>5. Spared(s)'
  BY <1>2, <1>3, <1>4, TakeStep, ErrorsStay DEF Spared
<1>6. StatusFits(s)'
  BY <1>2, <1>3, TakeStep DEF StatusFits, Settled
<1> QED
  BY <1>1, <1>5, <1>6

\* A run that moves on keeps its submission when it is where the status and the
\* faults allow it to be.
LEMMA RunKeeps ==
    ASSUME Typed, ExecutionsAccounted, Owners, Kept, MaxLockLosses = 0,
           NEW w \in Worker, NEW s \in Submission, s = run[w].sub,
           Process(w) \/ CallFails(w) \/ AckLost(w), ~Settle(w),
           Errors' \in Nat, Errors <= Errors', used'["crash"] = used["crash"],
           status'[s] # "none",
           run'[w].pc \in {"refetch", "mark"} => job[s].made < Errors',
           run'[w].pc = "rethrow" =>
               job[s].made < Errors' /\ (status'[s] \in Final \/ job[s].made + 1 < Errors'),
           run'[w].pc \in {"load", "judge"} => status'[s] = "running",
           run'[w].pc \in {"announce", "settle"} => status'[s] \in Verdicts
    PROVE  Spared(s)' /\ StatusFits(s)'
<1>1. /\ On(w, s) /\ On(w, s)' /\ job' = job /\ request' = request
      /\ \A v \in Worker : v # w => run'[v] = run[v]
  BY RunStep DEF On
<1>2. /\ job[s].state = "active" /\ job[s].owner = w
      /\ \A v \in Worker : On(v, s) => v = w
  BY <1>1, RunsHold
<1>3. \A v \in Worker : On(v, s)' => v = w
  BY <1>1, <1>2 DEF On
<1>4. /\ Spared(s) /\ job[s].made \in Nat /\ job[s].stalls \in Nat /\ Errors \in Nat
      /\ ~Dead(s)'
  BY <1>1, <1>2, JobFields, TestsTyped, LimitsAre DEF Kept, Errors, Dead, On
<1>5. request[s] \notin {"none", "checked"}
  BY <1>2 DEF ExecutionsAccounted, NoJob
<1>6. Spared(s)'
  BY <1>1, <1>2, <1>3, <1>4 DEF Spared
<1>7. StatusFits(s)'
  BY <1>1, <1>2, <1>3, <1>5 DEF StatusFits, Settled
<1> QED
  BY <1>6, <1>7

\* A run without a fault.
LEMMA CalmKept ==
    ASSUME Typed, ExecutionsAccounted, Owners, Kept, FewFaults,
           NEW w \in Worker, NEW s \in Submission, s = run[w].sub,
           Process(w), ~Settle(w)
    PROVE  Spared(s)' /\ StatusFits(s)'
<1> USE DEF database
<1>0. /\ Spared(s) /\ StatusFits(s) /\ On(w, s) /\ MaxLockLosses = 0 /\ run[w] \in Run
      /\ run \in [Worker -> Run] /\ status \in [Submission -> Status]
      /\ run[w].pc \in PC
  BY SubTyped, RunStep DEF Kept, On, FewFaults, Typed, TypeOK
<1>1. used' = used
  BY DEF Process, FetchSubmission, MarkRunning, LoadTests, JudgeCase, SaveVerdict, Announce,
         Refetch, MarkError, Settle
<1>2. Errors' \in Nat /\ Errors' = Errors /\ used'["crash"] = used["crash"] /\ Errors \in Nat
  BY <1>1, ErrorsStay
<1>3. status[s] # "none"
  BY <1>0, RunsHold DEF StatusFits
<1>4. ASSUME status'[s] = status[s], run'[w].pc \in {"start", "fetch"}
      PROVE  Spared(s)' /\ StatusFits(s)'
  BY <1>0, <1>2, <1>3, <1>4, RunKeeps
<1>5. CASE FetchSubmission(w)
  <2>1. status' = status /\ run'[w].pc = "start"
    BY <1>0, <1>5 DEF FetchSubmission, Run
  <2> QED
    BY <1>4, <2>1
<1>6. CASE MarkRunning(w)
  <2>1. status'[s] = "running" /\ run'[w].pc = "load"
    BY <1>0, <1>6 DEF MarkRunning, WriteStatus, GoTo, Run
  <2> QED
    BY <1>0, <1>2, <2>1, RunKeeps
<1>7. CASE LoadTests(w)
  <2>1. tests # {}
    <3>1. /\ used["edit"] <= MaxEdits /\ MaxEdits < Cardinality(InitialTests)
          /\ Cardinality(tests) + used["edit"] >= Cardinality(InitialTests)
      BY LimitsAre DEF Kept, TestsLeft, FewFaults
    <3>2. Cardinality(tests) \in Nat /\ used["edit"] \in Nat /\ MaxEdits \in Nat
          /\ Cardinality(InitialTests) \in Nat
      BY TestsTyped, LimitsAre
    <3>3. Cardinality(tests) # 0
      BY <3>1, <3>2
    <3> QED
      BY <3>3, FS_EmptySet
  <2>2. status' = status /\ status[s] = "running" /\ run'[w].pc = "judge"
    BY <1>0, <1>7, <2>1 DEF LoadTests, Run, StatusFits
  <2> QED
    BY <1>0, <1>2, <2>2, RunKeeps
<1>8. CASE \E c \in TestCase, passed \in BOOLEAN : JudgeCase(w, c, passed)
  <2>1. status' = status /\ run[w].pc = "judge" /\ run'[w].pc = "judge"
    BY <1>0, <1>8 DEF JudgeCase, WriteRow, Run
  <2>2. status[s] = "running"
    BY <1>0, <2>1 DEF StatusFits
  <2> QED
    BY <1>0, <1>2, <2>1, <2>2, RunKeeps
<1>9. CASE SaveVerdict(w)
  <2>1. status'[s] \in Verdicts /\ run'[w].pc = "announce"
    BY <1>0, <1>9 DEF SaveVerdict, WriteVerdict, Verdict, Verdicts, GoTo, Run
  <2> QED
    BY <1>0, <1>2, <2>1, RunKeeps DEF Verdicts
<1>10. CASE Announce(w)
  <2>1. status' = status /\ status[s] \in Verdicts /\ run'[w].pc = "settle"
    BY <1>0, <1>10 DEF Announce, GoTo, Run, StatusFits
  <2> QED
    BY <1>0, <1>2, <1>3, <2>1, RunKeeps
<1>11. CASE Refetch(w)
  <2>1. status' = status /\ run'[w].pc = "mark" /\ job[s].made < Errors
    BY <1>0, <1>11 DEF Refetch, Run, Spared
  <2> QED
    BY <1>0, <1>2, <1>3, <2>1, RunKeeps
<1>12. CASE MarkError(w)
  <2>1. status'[s] = "runtime_error" /\ run'[w].pc = "rethrow" /\ job[s].made < Errors
    BY <1>0, <1>12 DEF MarkError, WriteStatus, GoTo, Run, Spared
  <2> QED
    BY <1>0, <1>2, <2>1, RunKeeps DEF Final
<1> QED
  BY <1>5, <1>6, <1>7, <1>8, <1>9, <1>10, <1>11, <1>12 DEF Process

\* A call that fails, or succeeds unheard, pays for the attempt it costs; a second
\* one, in the catch block, for the error that is not stored.
LEMMA FaultKept ==
    ASSUME Typed, ExecutionsAccounted, Owners, Kept, MaxLockLosses = 0,
           NEW w \in Worker, CallFails(w) \/ AckLost(w)
    PROVE  \A s \in Submission : Spared(s)' /\ StatusFits(s)'
<1> USE DEF database
<1>0. /\ run[w] \in Run /\ run \in [Worker -> Run] /\ status \in [Submission -> Status]
      /\ run[w].pc \in PC /\ run[w].sub \in Submission /\ Verdicts \subseteq Final
  BY SubTyped DEF Typed, TypeOK, Verdicts, Final
<1>1. ~Settle(w) /\ run[w].pc \in Trying \cup Catching
  BY DEF CallFails, AckLost, Settle, Trying, Catching
<1>2. Errors \in Nat /\ Errors' = Errors + 1 /\ used'["crash"] = used["crash"]
  <2>1. CASE Spend("reject")
    BY <2>1, SpendStep, LimitsAre DEF Errors
  <2>2. CASE Spend("ack")
    BY <2>2, SpendStep, LimitsAre DEF Errors
  <2> QED
    BY <2>1, <2>2 DEF CallFails, AckLost
<1>3. run'[w].pc = Handler(run[w].pc) /\ job' = job
  BY <1>0 DEF CallFails, AckLost, Throw, GoTo, Run
<1>4. ASSUME NEW u \in Submission, u # run[w].sub PROVE Spared(u)' /\ StatusFits(u)'
  <2>1. status'[u] = status[u] /\ job'[u] = job[u] /\ request'[u] = request[u]
    BY <1>1, <1>4, RunElsewhere, RunStep
  <2>2. \A v \in Worker : (On(v, u)' <=> On(v, u)) /\ (On(v, u)' => run'[v] = run[v])
    BY <1>1, <1>4, RunStep DEF On
  <2> QED
    BY <1>2, <2>1, <2>2, OtherKept DEF Kept
<1>5. ASSUME NEW s \in Submission, s = run[w].sub PROVE Spared(s)' /\ StatusFits(s)'
  <2>1. Spared(s) /\ StatusFits(s) /\ On(w, s) /\ job[s].made \in Nat
    BY <1>1, <1>5, RunStep, JobFields DEF Kept, On
  <2>2. status'[s] # "none"
    <3>1. status[s] # "none"
      BY <2>1, RunsHold DEF StatusFits
    <3>2. \/ status' = status \/ WriteStatus(w, "running") \/ WriteStatus(w, "runtime_error")
          \/ WriteVerdict(w)
      BY DEF CallFails, AckLost, WriteRow
    <3> QED
      BY <1>0, <1>5, <3>1, <3>2 DEF WriteStatus, WriteVerdict, Verdict
  <2>3. CASE run[w].pc \in Trying
    <3>1. run'[w].pc = "refetch" /\ job[s].made < Errors'
      BY <1>2, <1>3, <2>1, <2>3 DEF Handler, Spared
    <3> QED
      BY <1>1, <1>2, <1>5, <2>2, <3>1, RunKeeps
  <2>4. CASE run[w].pc \in Catching
    <3>1. /\ run'[w].pc = "rethrow" /\ job[s].made < Errors' /\ job[s].made + 1 < Errors'
      BY <1>2, <1>3, <2>1, <2>4 DEF Handler, Spared, Trying, Catching
    <3> QED
      BY <1>1, <1>2, <1>5, <2>2, <3>1, RunKeeps
  <2> QED
    BY <1>1, <2>3, <2>4
<1> QED
  BY <1>4, <1>5

\* An attempt ends with a verdict, or with an error as long as another follows or
\* a fault is left to pay for the error that was not stored.
LEMMA SettleKept ==
    ASSUME Typed, Owners, Kept, FewFaults, NEW w \in Worker, Settle(w)
    PROVE  \A s \in Submission : Spared(s)' /\ StatusFits(s)'
<1>0. /\ MaxLockLosses = 0 /\ run[w].pc # "idle" /\ run[w].sub \in Submission
      /\ status' = status /\ request' = request /\ used' = used
  BY SettleStep, SubTyped DEF FewFaults, database
<1>1. ASSUME NEW u \in Submission, u # run[w].sub PROVE Spared(u)' /\ StatusFits(u)'
  <2>1. job'[u] = job[u]
    BY <1>1, SettleStep
  <2>2. \A v \in Worker : (On(v, u)' <=> On(v, u)) /\ (On(v, u)' => run'[v] = run[v])
    BY <1>1, SettleStep DEF On
  <2> QED
    BY <1>0, <2>1, <2>2, ErrorsStay, OtherKept DEF Kept
<1>2. ASSUME NEW s \in Submission, s = run[w].sub PROVE Spared(s)' /\ StatusFits(s)'
  <2>1. /\ Spared(s) /\ StatusFits(s) /\ On(w, s) /\ job[s].made \in Nat /\ job[s].stalls \in Nat
    BY <1>0, <1>2, JobFields DEF Kept, On
  <2>2. /\ job[s].state = "active" /\ Owned(w) /\ \A v \in Worker : On(v, s) => v = w
    BY <1>0, <1>2, <2>1, RunsHold DEF Owned
  <2>3. \A v \in Worker : ~On(v, s)'
    BY <2>2, SettleStep DEF On
  <2>4. status[s] # "none" /\ job'[s].stalls = job[s].stalls
    BY <1>2, <2>1, <2>2, SettleStep DEF StatusFits
  <2>5. /\ Errors \in Nat /\ Errors' = Errors /\ used'["crash"] = used["crash"]
        /\ Errors <= Attempts
    <3>1. /\ used["reject"] <= MaxRejects /\ used["ack"] <= MaxLostAcks
          /\ used["reject"] \in Nat /\ used["ack"] \in Nat
          /\ MaxRejects \in Nat /\ MaxLostAcks \in Nat /\ MaxRejects + MaxLostAcks <= Attempts
      BY TestsTyped, LimitsAre DEF Kept, TestsLeft, FewFaults
    <3>2. Errors = used["reject"] + used["ack"]
      BY DEF Errors
    <3>3. Errors <= Attempts
      BY <3>1, <3>2, QueueAssumption
    <3> QED
      BY <1>0, <3>3, ErrorsStay
  <2>6. CASE run[w].pc = "settle"
    <3>1. /\ job'[s].state = "done" /\ job'[s].made = job[s].made /\ status[s] \in Verdicts
      BY <1>2, <2>1, <2>2, <2>6, SettleStep DEF StatusFits
    <3>2. Spared(s)'
      BY <2>1, <2>3, <2>4, <2>5, <3>1 DEF Spared
    <3>3. StatusFits(s)'
      BY <1>0, <2>1, <2>3, <2>4, <3>1 DEF StatusFits, Verdicts, Final
    <3> QED
      BY <3>2, <3>3
  <2>7. CASE run[w].pc = "rethrow"
    <3>1. /\ job'[s].state = IF job[s].made + 1 < Attempts THEN "delayed" ELSE "failed"
          /\ job'[s].made = job[s].made + 1
      BY <1>2, <2>2, <2>7, SettleStep
    <3>2. job[s].made < Errors /\ (status[s] \in Final \/ job[s].made + 1 < Errors)
      BY <2>1, <2>7 DEF Spared, On
    <3>3. job'[s].state = "failed" => status[s] \in Final
      BY <2>1, <2>5, <3>1, <3>2, QueueAssumption
    <3>4. Spared(s)'
      BY <2>1, <2>3, <2>4, <2>5, <3>1, <3>2 DEF Spared
    <3>5. StatusFits(s)'
      BY <1>0, <2>1, <2>3, <2>4, <3>1, <3>3 DEF StatusFits, Settled
    <3> QED
      BY <3>4, <3>5
  <2> QED
    BY <2>6, <2>7, SettleStep
<1> QED
  BY <1>1, <1>2

LEMMA CrashKept ==
    ASSUME Typed, Kept, Crash
    PROVE  \A s \in Submission : Spared(s)' /\ StatusFits(s)'
<1>1. /\ job' = job /\ status' = status /\ \A w \in Worker, s \in Submission : ~On(w, s)'
  BY DEF Crash, On, IdleRun, database
<1>2. /\ Errors \in Nat /\ Errors' = Errors
      /\ used["crash"] \in Nat /\ used'["crash"] = used["crash"] + 1
  BY SpendStep, TestsTyped, LimitsAre DEF Crash, Errors
<1>3. TAKE s \in Submission
<1>4. /\ Spared(s) /\ StatusFits(s) /\ job[s].made \in Nat /\ job[s].stalls \in Nat
  BY JobFields DEF Kept
<1>5. /\ request'[s] \in {"none", "checked"} => request[s] \in {"none", "checked"}
      /\ request'[s] \in {"saved", "answered"} => request[s] \in {"saved", "answered"}
  BY DEF Crash, Typed, TypeOK
<1>6. Spared(s)'
  BY <1>1, <1>2, <1>4 DEF Spared
<1>7. StatusFits(s)'
  BY <1>1, <1>4, <1>5 DEF StatusFits, Settled
<1> QED
  BY <1>6, <1>7

\* A step that moves no job, request, run or status of any submission.
LEMMA StillKept ==
    ASSUME Typed, Kept, UNCHANGED vars \/ EditTests
    PROVE  \A s \in Submission : Spared(s)' /\ StatusFits(s)'
<1>1. UNCHANGED <<request, job, run, status>>
  BY DEF vars, EditTests, database
<1>2. /\ Errors \in Nat /\ Errors' = Errors /\ used'["crash"] = used["crash"]
  BY SpendStep, TestsTyped, LimitsAre DEF vars, EditTests, Errors
<1> QED
  BY <1>1, <1>2, OtherKept DEF Kept, On

LEMMA NextKept ==
    ASSUME FewFaults
    PROVE  Typed /\ ExecutionsAccounted /\ Owners /\ Kept /\ [Next]_vars => Kept'
<1> SUFFICES ASSUME Typed, ExecutionsAccounted, Owners, Kept, [Next]_vars PROVE Kept'
  OBVIOUS
<1>0. MaxLockLosses = 0 /\ TestsLeft'
  BY NextTestsLeft DEF FewFaults, Kept
<1> SUFFICES \A s \in Submission : Spared(s)' /\ StatusFits(s)'
  BY <1>0 DEF Kept
<1>1. ASSUME NEW w \in Worker, Process(w), ~Settle(w)
      PROVE  \A s \in Submission : Spared(s)' /\ StatusFits(s)'
  <2>1. used' = used
    BY <1>1 DEF Process, FetchSubmission, MarkRunning, LoadTests, JudgeCase, SaveVerdict,
                Announce, Refetch, MarkError
  <2>2. ASSUME NEW u \in Submission, u # run[w].sub PROVE Spared(u)' /\ StatusFits(u)'
    <3>1. status'[u] = status[u] /\ job'[u] = job[u] /\ request'[u] = request[u]
      BY <1>1, <2>2, RunElsewhere, RunStep
    <3>2. \A v \in Worker : (On(v, u)' <=> On(v, u)) /\ (On(v, u)' => run'[v] = run[v])
      BY <1>1, <2>2, RunStep DEF On
    <3> QED
      BY <2>1, <3>1, <3>2, ErrorsStay, OtherKept DEF Kept
  <2>3. ASSUME NEW u \in Submission, u = run[w].sub PROVE Spared(u)' /\ StatusFits(u)'
    BY <1>1, <2>3, CalmKept
  <2> QED
    BY <2>2, <2>3
<1>2. ASSUME NEW w \in Worker, Process(w) \/ CallFails(w) \/ AckLost(w)
      PROVE  \A s \in Submission : Spared(s)' /\ StatusFits(s)'
  BY <1>0, <1>1, <1>2, FaultKept, SettleKept
<1>3. ASSUME NEW s \in Submission, Serve(s) \/ Promote(s) \/ Stall(s)
      PROVE  \A u \in Submission : Spared(u)' /\ StatusFits(u)'
  BY <1>0, <1>3, ServeKept, StallKept
<1>4. ASSUME NEW w \in Worker, NEW s \in Submission, Take(w, s)
      PROVE  \A u \in Submission : Spared(u)' /\ StatusFits(u)'
  BY <1>0, <1>4, TakeKept
<1>5. CASE Crash
  BY <1>5, CrashKept
<1>6. CASE UNCHANGED vars \/ EditTests
  BY <1>6, StillKept
<1> QED
  BY <1>2, <1>3, <1>4, <1>5, <1>6 DEF Next

\* When locks do not expire under a live run, crashes stall no job for good, calls
\* that fail are no more than the attempts and editors leave a test case, a job
\* that is over, completed or failed, leaves its submission with a final status
\* (submission.processor.ts:213-229).
THEOREM SettledAreFinal == ASSUME FewFaults PROVE Spec => []SettledIsFinal
<1>1. Kept => SettledIsFinal
  BY DEF Kept, StatusFits, SettledIsFinal
<1>2. Typed /\ ExecutionsAccounted /\ Owners /\ Kept /\ [Next]_vars => Kept'
  BY NextKept
<1> QED
  BY <1>1, <1>2, InitTyped, NextTyped, InitAccounted, NextAccounted, InitOwners, NextOwners,
     InitKept, PTL DEF Spec

-----------------------------------------------------------------------------
(* The safety part of SubmissionContract *)

\* What the invariants say together, and what a step may rely on.
KeepsInv == Typed /\ ExecutionsAccounted /\ Owners /\ Scores /\ Kept

\* The contract sees the status, the starts, and whether a job is over or stalled.
LEMMA HiddenStep ==
    ASSUME status' = status, execs' = execs,
           \A s \in Submission : /\ Settled(s)' <=> Settled(s)
                                 /\ job'[s].stalls = job[s].stalls
    PROVE  UNCHANGED Promised!contractVars
<1>1. \A s \in Submission : Settled(s)' = Settled(s)
  BY DEF Settled
<1>2. [s \in Submission |-> Settled(s)]' = [s \in Submission |-> Settled(s)]
  BY <1>1
<1>3. [s \in Submission |-> job[s].stalls > 0]' = [s \in Submission |-> job[s].stalls > 0]
  OBVIOUS
<1> QED
  BY <1>2, <1>3 DEF Promised!contractVars

\* One submission's job is over: no other job, and no stall, is touched.
LEMMA CloseStep ==
    ASSUME NEW s \in Submission, UNCHANGED <<status, execs>>, Settled(s)',
           status[s] \in Final,
           \A u \in Submission : u # s => job'[u] = job[u],
           job'[s].stalls = job[s].stalls
    PROVE  Promised!CloseIt(s)
<1>1. [u \in Submission |-> Settled(u)]' = [[u \in Submission |-> Settled(u)] EXCEPT ![s] = TRUE]
  BY DEF Settled
<1>2. [u \in Submission |-> job[u].stalls > 0]' = [u \in Submission |-> job[u].stalls > 0]
  OBVIOUS
<1> QED
  BY <1>1, <1>2 DEF Promised!CloseIt, Final

LEMMA StatusStep ==
    ASSUME NEW s \in Submission, NEW st, status' = [status EXCEPT ![s] = st],
           execs' = execs, job' = job
    PROVE  Promised!Becomes(s, st)
<1>1. [u \in Submission |-> Settled(u)]' = [u \in Submission |-> Settled(u)]
  BY DEF Settled
<1>2. [u \in Submission |-> job[u].stalls > 0]' = [u \in Submission |-> job[u].stalls > 0]
  OBVIOUS
<1> QED
  BY <1>1, <1>2 DEF Promised!Becomes

\* A run writes a status only while the contract lets it.
LEMMA RunIsOpen ==
    ASSUME KeepsInv, FewFaults, NEW w \in Worker, NEW s \in Submission, On(w, s),
           run[w].pc \notin Returning
    PROVE  Promised!Open(s)
<1>1. job[s].state = "active" /\ ~Settled(s)
  BY RunsHold DEF KeepsInv, FewFaults, Settled
<1>2. execs[s] > 0
  BY <1>1, JobFields DEF KeepsInv, ExecutionsAccounted
<1>3. status[s] \in Verdicts => job[s].stalls > 0
  BY JobFields DEF KeepsInv, Scores, Unscored, Returning
<1> QED
  BY <1>1, <1>2, <1>3 DEF Promised!Open, Verdicts

LEMMA InitPromised == Init => Promised!ContractInit
<1> SUFFICES ASSUME Init PROVE Promised!ContractInit
  OBVIOUS
<1>1. \A s \in Submission : Settled(s) = FALSE /\ (job[s].stalls > 0) = FALSE
  BY DEF Init, Settled, NoJob
<1>2. /\ [s \in Submission |-> Settled(s)] = [s \in Submission |-> FALSE]
      /\ [s \in Submission |-> job[s].stalls > 0] = [s \in Submission |-> FALSE]
  BY <1>1
<1> QED
  BY <1>2 DEF Init, Promised!ContractInit

\* Requests: the saved row is the submission, the rest is not seen.
LEMMA ServePromised ==
    ASSUME KeepsInv, FewFaults, NEW s \in Submission, Serve(s) \/ Promote(s)
    PROVE  Promised!Submit(s) \/ UNCHANGED Promised!contractVars
<1> USE DEF database
<1>0. /\ Typed /\ ExecutionsAccounted /\ StatusFits(s) /\ job \in [Submission -> Job]
      /\ job[s] \in Job
  BY DEF KeepsInv, Kept, Typed, TypeOK
<1>1. CASE CheckRequest(s)
  BY <1>1, HiddenStep DEF CheckRequest, Settled
<1>2. CASE SaveSubmission(s)
  <2>1. status[s] = "none"
    BY <1>0, <1>2 DEF SaveSubmission, RequestStep, StatusFits
  <2> QED
    BY <1>2, <2>1, StatusStep DEF SaveSubmission, Promised!Submit
<1>3. CASE Enqueue(s) \/ EnqueueFails(s)
  <2>1. job[s] = NoJob /\ status' = status /\ execs' = execs /\ (job' = job \/ AddJob(s))
    BY <1>0, <1>3 DEF Enqueue, EnqueueFails, RequestStep, ExecutionsAccounted
  <2>2. /\ ~Settled(s) /\ ~Settled(s)' /\ job'[s].stalls = job[s].stalls
        /\ \A u \in Submission : u # s => job'[u] = job[u]
    BY <1>0, <2>1 DEF AddJob, NoJob, Settled
  <2> QED
    BY <2>1, <2>2, HiddenStep DEF Settled
<1>4. CASE Promote(s)
  <2>1. /\ ~Settled(s) /\ ~Settled(s)' /\ job'[s].stalls = job[s].stalls
        /\ \A u \in Submission : u # s => job'[u] = job[u]
    BY <1>0, <1>4 DEF Promote, Job, Settled
  <2>2. status' = status /\ execs' = execs
    BY <1>4 DEF Promote
  <2> QED
    BY <2>1, <2>2, HiddenStep DEF Settled
<1> QED
  BY <1>1, <1>2, <1>3, <1>4 DEF Serve

LEMMA StallPromised ==
    ASSUME KeepsInv, FewFaults, NEW s \in Submission, Stall(s)
    PROVE  Promised!Interrupt(s)
<1>1. /\ job'[s].state = "waiting" /\ job[s].state = "active" /\ status' = status /\ execs' = execs
  BY StallKept DEF KeepsInv, Stall, database
<1>2. \A u \in Submission : u # s => job'[u] = job[u]
  BY QueueStep DEF KeepsInv
<1>3. job'[s].stalls > 0
  BY JobFields DEF Stall, Requeue, Job, KeepsInv, Typed, TypeOK
<1>4. [u \in Submission |-> Settled(u)]' = [u \in Submission |-> Settled(u)] /\ ~Settled(s)
  BY <1>1, <1>2 DEF Settled
<1>5. [u \in Submission |-> job[u].stalls > 0]'
          = [[u \in Submission |-> job[u].stalls > 0] EXCEPT ![s] = TRUE]
  BY <1>2, <1>3
<1> QED
  BY <1>1, <1>4, <1>5 DEF Promised!Interrupt

LEMMA TakePromised ==
    ASSUME KeepsInv, NEW w \in Worker, NEW s \in Submission, Take(w, s)
    PROVE  Promised!Try(s)
<1>0. Typed /\ ExecutionsAccounted /\ StatusFits(s)
  BY DEF KeepsInv, Kept
<1>1. /\ job[s].state = "waiting" /\ job'[s].state = "active" /\ job'[s].stalls = job[s].stalls
      /\ status' = status /\ \A u \in Submission : u # s => job'[u] = job[u]
  BY <1>0, TakeStep, QueueStep
<1>2. execs' = [execs EXCEPT ![s] = @ + 1]
  BY DEF Take
<1>3. status[s] # "none" /\ ~Settled(s) /\ ~Settled(s)'
  BY <1>0, <1>1 DEF StatusFits, Settled
<1>4. execs[s] < Attempts + MaxStalledCount
  BY <1>0, <1>1, JobFields, QueueAssumption DEF ExecutionsAccounted
<1>5. [u \in Submission |-> Settled(u)]' = [u \in Submission |-> Settled(u)]
  BY <1>1, <1>3 DEF Settled
<1>6. [u \in Submission |-> job[u].stalls > 0]' = [u \in Submission |-> job[u].stalls > 0]
  BY <1>1
<1> QED
  BY <1>1, <1>2, <1>3, <1>4, <1>5, <1>6 DEF Promised!Try

LEMMA RunPromised ==
    ASSUME KeepsInv, FewFaults, MaxLostAcks = 0, NEW w \in Worker, NEW s \in Submission,
           s = run[w].sub, Process(w) \/ CallFails(w) \/ AckLost(w), ~Settle(w)
    PROVE  \/ Promised!Judge(s) \/ Promised!Decide(s) \/ Promised!Fail(s)
           \/ UNCHANGED Promised!contractVars
<1>0. /\ Typed /\ StatusFits(s) /\ On(w, s) /\ job' = job /\ execs' = execs
  BY RunStep DEF KeepsInv, Kept, On
<1>1. ASSUME status' = status PROVE UNCHANGED Promised!contractVars
  BY <1>0, <1>1, HiddenStep DEF Settled
<1>2. CASE MarkRunning(w)
  <2>1. status' = [status EXCEPT ![s] = "running"] /\ run[w].pc = "start"
    BY <1>2 DEF MarkRunning, WriteStatus
  <2> QED
    BY <1>0, <2>1, RunIsOpen, StatusStep DEF Promised!Judge, Returning
<1>3. CASE MarkError(w)
  <2>1. status' = [status EXCEPT ![s] = "runtime_error"] /\ run[w].pc = "mark"
    BY <1>3 DEF MarkError, WriteStatus
  <2> QED
    BY <1>0, <2>1, RunIsOpen, StatusStep DEF Promised!Fail, Returning
<1>4. CASE SaveVerdict(w)
  <2>1. /\ status' = [status EXCEPT ![s] = Verdict(run[w])] /\ run[w].pc = "judge"
        /\ Verdict(run[w]) \in {"accepted", "wrong"}
    BY <1>4 DEF SaveVerdict, WriteVerdict, Verdict
  <2>2. status[s] = "running"
    BY <1>0, <2>1 DEF StatusFits
  <2>3. Promised!Open(s) /\ Promised!Becomes(s, Verdict(run[w]))
    BY <1>0, <2>1, RunIsOpen, StatusStep DEF Returning
  <2> QED
    BY <2>1, <2>2, <2>3 DEF Promised!Decide
<1>5. CASE \/ FetchSubmission(w) \/ LoadTests(w) \/ Announce(w) \/ Refetch(w) \/ CallFails(w)
           \/ \E c \in TestCase, passed \in BOOLEAN : JudgeCase(w, c, passed)
  <2>1. status' = status
    BY <1>5 DEF FetchSubmission, LoadTests, Announce, Refetch, CallFails, JudgeCase, WriteRow,
                database
  <2> QED
    BY <1>1, <2>1
<1>6. ~AckLost(w)
  BY <1>0, LimitsAre, TestsTyped DEF AckLost, Spend
<1> QED
  BY <1>2, <1>3, <1>4, <1>5, <1>6 DEF Process

LEMMA SettlePromised ==
    ASSUME KeepsInv, KeepsInv', FewFaults, NEW w \in Worker, NEW s \in Submission,
           s = run[w].sub, Settle(w)
    PROVE  Promised!CloseIt(s) \/ UNCHANGED Promised!contractVars
<1>0. /\ Typed /\ StatusFits(s) /\ StatusFits(s)' /\ On(w, s) /\ Owned(w)
      /\ job[s].state = "active"
  BY SettleStep, RunsHold DEF KeepsInv, Kept, FewFaults, On, Owned
<1>1. /\ UNCHANGED <<status, execs>> /\ job'[s].stalls = job[s].stalls
      /\ \A u \in Submission : u # s => job'[u] = job[u]
  BY <1>0, SettleStep DEF database
<1>2. CASE Settled(s)'
  <2>1. status[s] \in Final
    BY <1>0, <1>1, <1>2 DEF StatusFits
  <2> QED
    BY <1>1, <1>2, <2>1, CloseStep
<1>3. CASE ~Settled(s)'
  BY <1>0, <1>1, <1>3, HiddenStep DEF Settled
<1> QED
  BY <1>2, <1>3

\* Every step is a step of the contract, or is hidden from it.
LEMMA NextPromised ==
    ASSUME FewFaults, MaxLostAcks = 0
    PROVE  KeepsInv /\ KeepsInv' /\ [Next]_vars =>
               [Promised!ContractNext]_(Promised!contractVars)
<1> SUFFICES ASSUME KeepsInv, KeepsInv', [Next]_vars
             PROVE  [Promised!ContractNext]_(Promised!contractVars)
  OBVIOUS
<1>1. CASE UNCHANGED vars \/ Crash \/ EditTests
  <2>1. UNCHANGED <<status, execs, job>>
    BY <1>1 DEF vars, Crash, EditTests, database
  <2> QED
    BY <2>1, HiddenStep DEF Settled
<1>2. ASSUME NEW s \in Submission, Serve(s) \/ Promote(s) \/ Stall(s)
      PROVE  [Promised!ContractNext]_(Promised!contractVars)
  BY <1>2, ServePromised, StallPromised DEF Promised!ContractNext
<1>3. ASSUME NEW w \in Worker, NEW s \in Submission, Take(w, s)
      PROVE  [Promised!ContractNext]_(Promised!contractVars)
  BY <1>3, TakePromised DEF Promised!ContractNext
<1>4. ASSUME NEW w \in Worker, Process(w) \/ CallFails(w) \/ AckLost(w)
      PROVE  [Promised!ContractNext]_(Promised!contractVars)
  <2>1. PICK s \in Submission : s = run[w].sub
    BY SubTyped DEF KeepsInv
  <2>2. CASE Settle(w)
    BY <2>1, <2>2, SettlePromised DEF Promised!ContractNext
  <2>3. CASE ~Settle(w)
    BY <1>4, <2>1, <2>3, RunPromised DEF Promised!ContractNext
  <2> QED
    BY <2>2, <2>3
<1> QED
  BY <1>1, <1>2, <1>3, <1>4 DEF Next

\* The pipeline implements the contract, but for the promise that a submission is
\* closed in the end: at most Attempts + MaxStalledCount tries, a verdict from a
\* try that judged, taken back only after a stall, and a final status that stays
\* once its job is over (submission.processor.ts:46-229, queue.service.ts:127-138).
THEOREM KeepsContract ==
    ASSUME FewFaults, MaxLostAcks = 0
    PROVE  Spec => Promised!ContractSafety
<1>1. Init => KeepsInv
  BY InitTyped, InitAccounted, InitOwners, InitScores, InitKept DEF KeepsInv
<1>2. KeepsInv /\ [Next]_vars => KeepsInv'
  BY NextTyped, NextAccounted, NextOwners, NextScores, NextKept DEF KeepsInv
<1>3. KeepsInv /\ KeepsInv' /\ [Next]_vars => [Promised!ContractNext]_(Promised!contractVars)
  BY NextPromised
<1> QED
  BY <1>1, <1>2, <1>3, InitPromised, PTL DEF Spec, Promised!ContractSafety
=============================================================================
