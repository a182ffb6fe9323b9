------------------------- MODULE SubmissionJudging -------------------------
(***************************************************************************)
(* The judging pipeline: SubmissionsService.create stores a submission and *)
(* enqueues its job, QueueService hands jobs to the slots of one BullMQ    *)
(* worker, and SubmissionProcessor.processSubmission judges the submission *)
(* against the problem's test cases and stores the verdict.                *)
(*                                                                         *)
(* One problem, whose test cases an editor may change at any time, and one *)
(* contest.  One step is what one process does between two awaits of a     *)
(* database or Redis call.  HTTP handlers and worker slots live in the     *)
(* same Node process: a crash takes them all down, while PostgreSQL and    *)
(* Redis keep their contents.                                              *)
(***************************************************************************)
EXTENDS Naturals, FiniteSets

CONSTANTS
    Submission,       \* submissions, one per POST /submissions request
    TestCase,         \* test cases, as their orderIndex
    Hidden,           \* the hidden ones among them (isHidden)
    InitialTests,     \* the test cases the problem starts with
    Worker,           \* slots of the 'submissions' worker (its concurrency)
    NoWorker,         \* owner of a job nobody processes
    Attempts,         \* defaultJobOptions.attempts
    MaxStalledCount,  \* BullMQ's default maxStalledCount
    \* Bounds on the faults of a behaviour.
    MaxRejects,       \* database calls that fail without effect
    MaxLostAcks,      \* database writes that commit and then fail
    MaxCrashes,       \* process crashes
    MaxLockLosses,    \* job locks that expire while their run is alive
    MaxEdits,         \* test cases added or deleted
    MaxRequestFaults  \* failures of Queue.add inside a request

ASSUME SubmissionAssumption == Submission # {}
ASSUME TestsAssumption ==
    /\ TestCase \subseteq Nat
    /\ Hidden \subseteq TestCase
    /\ InitialTests \subseteq TestCase
    /\ IsFiniteSet(TestCase)
ASSUME QueueAssumption ==
    /\ NoWorker \notin Worker
    /\ Attempts \in Nat \ {0}
    /\ MaxStalledCount \in Nat
ASSUME BoundsAssumption ==
    {MaxRejects, MaxLostAcks, MaxCrashes, MaxLockLosses, MaxEdits,
     MaxRequestFaults} \subseteq Nat

VARIABLES
    tests,     \* the problem's test cases in the database
    request,   \* progress of each POST /submissions handler
    status,    \* Submission.status ("none": no such row)
    score,     \* Submission.score
    results,   \* TestResult rows of each submission
    job,       \* the BullMQ job of each submission
    run,       \* what each worker slot executes
    execs,     \* number of times the processor was started (auxiliary)
    judged,    \* run and test cases of the last stored verdict (auxiliary)
    used       \* faults so far

vars == <<tests, request, status, score, results, job, run, execs,
          judged, used>>
database == <<status, score, results, judged>>

-----------------------------------------------------------------------------
(* Types *)

Final == {"accepted", "wrong", "runtime_error"}
Status == {"none", "pending", "running"} \cup Final
Request == {"none", "checked", "saved", "answered", "failed"}

Row == [exec: Nat, case: TestCase, passed: BOOLEAN]

\* made: attemptsMade; stalls: times the job was found stalled.
JobState == {"none", "waiting", "delayed", "active", "done", "failed"}
Job == [state: JobState, made: Nat, stalls: Nat, owner: Worker \cup {NoWorker}]
NoJob == [state |-> "none", made |-> 0, stalls |-> 0, owner |-> NoWorker]

\* Positions in processSubmission.  "refetch" and "mark" are its catch block,
\* "settle" a run that returned and "rethrow" one that threw.
Trying == {"fetch", "start", "load", "judge"}
Catching == {"refetch", "mark"}
Ending == {"announce", "settle", "rethrow"}
PC == {"idle"} \cup Trying \cup Catching \cup Ending

\* The locals of one run.  score is the score column of the Submission entity
\* the run holds, as it was when the run read it.
Run == [pc: PC, sub: Submission, exec: Nat, cases: SUBSET TestCase,
        ran: SUBSET TestCase, passed: SUBSET TestCase, score: Nat]
IdleRun == [pc |-> "idle", sub |-> CHOOSE s \in Submission : TRUE, exec |-> 0,
            cases |-> {}, ran |-> {}, passed |-> {}, score |-> 0]

Limit == [reject |-> MaxRejects, ack |-> MaxLostAcks, crash |-> MaxCrashes,
          lock |-> MaxLockLosses, edit |-> MaxEdits,
          request |-> MaxRequestFaults]
Fault == DOMAIN Limit

TypeOK ==
    /\ tests \subseteq TestCase
    /\ request \in [Submission -> Request]
    /\ status \in [Submission -> Status]
    /\ score \in [Submission -> Nat]
    /\ results \in [Submission -> SUBSET Row]
    /\ job \in [Submission -> Job]
    /\ run \in [Worker -> Run]
    /\ execs \in [Submission -> Nat]
    /\ judged \in [Submission -> [exec: Nat, cases: SUBSET TestCase]]
    /\ used \in [Fault -> Nat]

Init ==
    /\ tests = InitialTests
    /\ request = [s \in Submission |-> "none"]
    /\ status = [s \in Submission |-> "none"]
    /\ score = [s \in Submission |-> 0]
    /\ results = [s \in Submission |-> {}]
    /\ job = [s \in Submission |-> NoJob]
    /\ run = [w \in Worker |-> IdleRun]
    /\ execs = [s \in Submission |-> 0]
    /\ judged = [s \in Submission |-> [exec |-> 0, cases |-> {}]]
    /\ used = [f \in Fault |-> 0]

\* One more fault of kind f.
Spend(f) == used[f] < Limit[f] /\ used' = [used EXCEPT ![f] = @ + 1]

-----------------------------------------------------------------------------
(* POST /submissions: SubmissionsService.create *)

RequestStep(s, from, to) ==
    /\ request[s] = from
    /\ request' = [request EXCEPT ![s] = to]

\* A request passes the checks of create, that of the contest window among them;
\* one that is rejected leaves no trace and is not modelled.
CheckRequest(s) ==
    /\ RequestStep(s, "none", "checked")
    /\ UNCHANGED <<tests, job, run, execs, used, database>>

\* The window was checked before an await: the row may be saved after it shut.
SaveSubmission(s) ==
    /\ RequestStep(s, "checked", "saved")
    /\ status' = [status EXCEPT ![s] = "pending"]
    /\ UNCHANGED <<tests, score, results, job, run, execs, judged, used>>

\* A variant the checks must reject: the job is never added.
NoJobAdded(s) == UNCHANGED job

AddJob(s) == job' = [job EXCEPT ![s] = [NoJob EXCEPT !.state = "waiting"]]

Enqueue(s) ==
    /\ RequestStep(s, "saved", "answered")
    /\ AddJob(s)
    /\ UNCHANGED <<tests, run, execs, used, database>>

\* Queue.add rejects, with or without the job in Redis: the request fails and
\* nobody removes or re-enqueues the saved row.
EnqueueFails(s) ==
    /\ RequestStep(s, "saved", "failed")
    /\ Spend("request")
    /\ AddJob(s) \/ UNCHANGED job
    /\ UNCHANGED <<tests, run, execs, database>>

-----------------------------------------------------------------------------
(* The queue (BullMQ, external) and its worker slots *)

Owned(w) == LET j == job[run[w].sub] IN j.state = "active" /\ j.owner = w

Take(w, s) ==
    /\ run[w].pc = "idle"
    /\ job[s].state = "waiting"
    /\ job' = [job EXCEPT ![s].state = "active", ![s].owner = w]
    /\ execs' = [execs EXCEPT ![s] = @ + 1]
    /\ run' = [run EXCEPT ![w] =
                  [IdleRun EXCEPT !.pc = "fetch", !.sub = s, !.exec = execs[s] + 1]]
    /\ UNCHANGED <<tests, request, used, database>>

\* The backoff delay of a retry is over.
Promote(s) ==
    /\ job[s].state = "delayed"
    /\ job' = [job EXCEPT ![s].state = "waiting"]
    /\ UNCHANGED <<tests, request, run, execs, used, database>>

\* The run that holds job s is gone: the process crashed.
Dead(s) ==
    LET r == run[job[s].owner] IN r.pc = "idle" \/ r.sub # s

\* A job whose lock expired goes back to waiting, and to failed, without any
\* run of the processor, when that happens more than MaxStalledCount times.
\* A variant the checks must reject: one stall too many is forgiven.
RequeueOnceMore(j) ==
    [j EXCEPT !.state = IF j.stalls <= MaxStalledCount THEN "waiting" ELSE "failed",
              !.stalls = @ + 1,
              !.owner = NoWorker]

Requeue(j) ==
    [j EXCEPT !.state = IF j.stalls < MaxStalledCount THEN "waiting" ELSE "failed",
              !.stalls = @ + 1,
              !.owner = NoWorker]

Stall(s) ==
    /\ job[s].state = "active"
    /\ IF Dead(s) THEN UNCHANGED used ELSE Spend("lock")
    /\ job' = [job EXCEPT ![s] = Requeue(@)]
    /\ UNCHANGED <<tests, request, run, execs, database>>

\* A failed attempt: another one after a delay, unless it was the last.
Retry(j) ==
    [j EXCEPT !.state = IF j.made + 1 < Attempts THEN "delayed" ELSE "failed",
              !.made = @ + 1,
              !.owner = NoWorker]

\* BullMQ records the outcome of a run; without the lock it cannot.
Settle(w) ==
    LET s == run[w].sub IN
    /\ run[w].pc \in {"settle", "rethrow"}
    /\ job' = IF ~Owned(w) THEN job
              ELSE [job EXCEPT ![s] = IF run[w].pc = "settle"
                                      THEN [@ EXCEPT !.state = "done", !.owner = NoWorker]
                                      ELSE Retry(@)]
    /\ run' = [run EXCEPT ![w] = IdleRun]
    /\ UNCHANGED <<tests, request, execs, used, database>>

-----------------------------------------------------------------------------
(* SubmissionProcessor.processSubmission *)

\* visibleTestCases in order; then, if all of them passed, hiddenTestCases in
\* order up to the first that fails.
\* A variant the checks must reject: hidden cases run whatever the visible gave.
PhaseUngated(r) ==
    IF ~(r.cases \ Hidden \subseteq r.ran) THEN (r.cases \ Hidden) \ r.ran
    ELSE r.cases \ r.ran

Phase(r) ==
    IF ~(r.cases \ Hidden \subseteq r.ran) THEN (r.cases \ Hidden) \ r.ran
    ELSE IF r.ran \subseteq r.passed THEN r.cases \ r.ran
    ELSE {}

NextCases(r) == {c \in Phase(r) : \A d \in Phase(r) : c <= d}

\* A variant the checks must reject: only the visible cases count.
VerdictOnVisible(r) ==
    IF r.cases \ Hidden \subseteq r.passed THEN "accepted" ELSE "wrong"

\* A variant the checks must reject: a verdict this processor never stores.
VerdictTimeLimit(r) == IF r.passed = r.cases THEN "accepted" ELSE "tle"

Verdict(r) == IF r.passed = r.cases THEN "accepted" ELSE "wrong"

\* Math.round((passed / total) * 100)
Score(passed, total) == (200 * passed + total) \div (2 * total)

GoTo(w, pc) == run' = [run EXCEPT ![w].pc = pc]

\* Where an exception thrown at pc lands: the catch block, or out of it.
\* A variant the checks must reject: nothing is caught.
NoHandler(pc) == "rethrow"

Handler(pc) == IF pc \in Trying THEN "refetch" ELSE "rethrow"

Throw(w) == GoTo(w, Handler(run[w].pc))

\* The database writes of a run.  save() writes every column of the entity
\* that differs from the row, the stale score included.
WriteStatus(w, st) ==
    /\ status' = [status EXCEPT ![run[w].sub] = st]
    /\ score' = [score EXCEPT ![run[w].sub] = run[w].score]
    /\ UNCHANGED <<results, judged>>

WriteRow(w, c, passed) ==
    /\ results' = [results EXCEPT ![run[w].sub] =
                      @ \cup {[exec |-> run[w].exec, case |-> c, passed |-> passed]}]
    /\ UNCHANGED <<status, score, judged>>

WriteVerdict(w) ==
    LET r == run[w] IN
    /\ status' = [status EXCEPT ![r.sub] = Verdict(r)]
    /\ score' = [score EXCEPT ![r.sub] = Score(Cardinality(r.passed), Cardinality(r.cases))]
    /\ judged' = [judged EXCEPT ![r.sub] = [exec |-> r.exec, cases |-> r.cases]]
    /\ UNCHANGED results

FetchSubmission(w) ==
    /\ run[w].pc = "fetch"
    /\ run' = [run EXCEPT ![w].pc = "start", ![w].score = score[run[w].sub]]
    /\ UNCHANGED <<tests, request, job, execs, used, database>>

MarkRunning(w) ==
    /\ run[w].pc = "start"
    /\ WriteStatus(w, "running")
    /\ GoTo(w, "load")
    /\ UNCHANGED <<tests, request, job, execs, used>>

\* A problem without test cases makes the run throw.
LoadTests(w) ==
    /\ run[w].pc = "load"
    /\ run' = [run EXCEPT ![w].pc = IF tests = {} THEN Handler("load") ELSE "judge",
                          ![w].cases = tests]
    /\ UNCHANGED <<tests, request, job, execs, used, database>>

\* runTestCase: executeCode never throws, so the program passes or fails, and
\* the row is saved.
JudgeCase(w, c, passed) ==
    /\ run[w].pc = "judge"
    /\ c \in NextCases(run[w])
    /\ WriteRow(w, c, passed)
    /\ run' = [run EXCEPT ![w].ran = @ \cup {c},
                          ![w].passed = IF passed THEN @ \cup {c} ELSE @]
    /\ UNCHANGED <<tests, request, job, execs, used>>

SaveVerdict(w) ==
    /\ run[w].pc = "judge"
    /\ NextCases(run[w]) = {}
    /\ WriteVerdict(w)
    /\ GoTo(w, "announce")
    /\ UNCHANGED <<tests, request, job, execs, used>>

\* The synchronous tail of a successful run.  Its SSE events and its broadcast
\* are the business of the modules that extend this one.
\* A variant the checks must reject: the broadcast is awaited inside the try
\* block, and its failure lands in the catch block.
AnnounceAwaited(w) ==
    /\ run[w].pc = "announce"
    /\ GoTo(w, "settle") \/ GoTo(w, "refetch")
    /\ UNCHANGED <<tests, request, job, execs, used, database>>

Announce(w) ==
    /\ run[w].pc = "announce"
    /\ GoTo(w, "settle")
    /\ UNCHANGED <<tests, request, job, execs, used, database>>

\* The catch block: read the row again, mark it, rethrow.
Refetch(w) ==
    /\ run[w].pc = "refetch"
    /\ run' = [run EXCEPT ![w].pc = "mark", ![w].score = score[run[w].sub]]
    /\ UNCHANGED <<tests, request, job, execs, used, database>>

MarkError(w) ==
    /\ run[w].pc = "mark"
    /\ WriteStatus(w, "runtime_error")
    /\ GoTo(w, "rethrow")
    /\ UNCHANGED <<tests, request, job, execs, used>>

\* A database call of the run rejects and had no effect.
CallFails(w) ==
    /\ run[w].pc \in Trying \cup Catching
    /\ Spend("reject")
    /\ Throw(w)
    /\ UNCHANGED <<tests, request, job, execs, database>>

\* A database write of the run commits and rejects all the same: the
\* connection broke before its answer.
AckLost(w) ==
    /\ \/ run[w].pc = "start" /\ WriteStatus(w, "running")
       \/ run[w].pc = "mark" /\ WriteStatus(w, "runtime_error")
       \/ /\ run[w].pc = "judge"
          /\ \E c \in NextCases(run[w]), passed \in BOOLEAN : WriteRow(w, c, passed)
       \/ /\ run[w].pc = "judge"
          /\ NextCases(run[w]) = {}
          /\ WriteVerdict(w)
    /\ Spend("ack")
    /\ Throw(w)
    /\ UNCHANGED <<tests, request, job, execs>>

-----------------------------------------------------------------------------
(* The environment *)

\* The process dies with every run and request it had.
Crash ==
    /\ Spend("crash")
    /\ run' = [w \in Worker |-> IdleRun]
    /\ request' = [s \in Submission |->
                      IF request[s] \in {"checked", "saved"} THEN "failed" ELSE request[s]]
    /\ UNCHANGED <<tests, job, execs, database>>

\* ProblemService.addTestCase and deleteTestCase.
EditTests ==
    /\ Spend("edit")
    /\ \E c \in TestCase : tests' \in {tests \cup {c}, tests \ {c}}
    /\ UNCHANGED <<request, job, run, execs, database>>

-----------------------------------------------------------------------------
Serve(s) == CheckRequest(s) \/ SaveSubmission(s) \/ Enqueue(s) \/ EnqueueFails(s)

Process(w) ==
    \/ FetchSubmission(w) \/ MarkRunning(w) \/ LoadTests(w)
    \/ \E c \in TestCase, passed \in BOOLEAN : JudgeCase(w, c, passed)
    \/ SaveVerdict(w) \/ Announce(w) \/ Refetch(w) \/ MarkError(w) \/ Settle(w)

Next ==
    \/ \E s \in Submission : Serve(s) \/ Promote(s) \/ Stall(s)
    \/ \E w \in Worker, s \in Submission : Take(w, s)
    \/ \E w \in Worker : Process(w) \/ CallFails(w) \/ AckLost(w)
    \/ Crash \/ EditTests

Spec == Init /\ [][Next]_vars

\* What happens to s outside of its runs: no two of these are enabled at once.
Advance(s) ==
    Enqueue(s) \/ Promote(s) \/ (Stall(s) /\ Dead(s)) \/ \E w \in Worker : Take(w, s)

\* Handlers and runs go on as long as the process lives, a slot takes a job
\* that waits, Redis promotes delayed jobs and detects dead ones.
Fairness ==
    /\ \A s \in Submission : SF_vars(Advance(s))
    /\ \A w \in Worker : WF_vars(Process(w))

FairSpec == Spec /\ Fairness
-----------------------------------------------------------------------------
(* Properties *)

Settled(s) == job[s].state \in {"done", "failed"}

RowsOf(s, exec) == {r \in results[s] : r.exec = exec}

\* The stored verdict and score are those of the rows that one run wrote: the
\* verdict is accepted exactly when every test case that run loaded has a
\* passed row of that same run, however many other runs, crashed or bereft of
\* their lock, wrote rows or the submission itself in between
\* (submission.processor.ts:166-185).
VerdictEarned ==
    \A s \in Submission : status[s] \in {"accepted", "wrong"} =>
        LET cases == judged[s].cases
            passed == {c \in cases : \E r \in RowsOf(s, judged[s].exec) :
                                          r.case = c /\ r.passed}
        IN  /\ cases # {}
            /\ status[s] = "accepted" <=> passed = cases
            /\ score[s] = Score(Cardinality(passed), Cardinality(cases))

\* The rows of one run follow the judging order: one row per test case, no row
\* of a hidden case beside a failed visible one, and none after a failed hidden
\* one (submission.processor.ts:139-163).  Rows of different runs of one
\* submission lie side by side in the table.
RowsInOrder ==
    \A s \in Submission : \A r, q \in results[s] : r.exec = q.exec =>
        /\ r.case = q.case => r = q
        /\ r.case \in Hidden /\ ~q.passed => q.case \in Hidden /\ r.case <= q.case

\* Retries, crashes and expired locks together start the processor at most
\* Attempts + MaxStalledCount times for one submission (queue.service.ts:129-133).
ExecutionsBounded ==
    \A s \in Submission : execs[s] <= Attempts + MaxStalledCount

\* A job that is over, completed or failed for good, leaves its submission with
\* a final status, never pending or running: the error handler runs on every
\* failed attempt (submission.processor.ts:213-229).
SettledIsFinal ==
    \A s \in Submission : Settled(s) => status[s] \in Final

\* A submission marked as an error has earned no points, unless BullMQ ran it
\* again after a crash: the catch block leaves the score column alone
\* (submission.processor.ts:219-227).
ErrorHasNoScore ==
    \A s \in Submission :
        status[s] = "runtime_error" /\ job[s].stalls = 0 => score[s] = 0

\* Every submission whose request was answered is judged in the end, and then
\* for good: its job is over and its status final.
AnsweredIsJudged ==
    \A s \in Submission :
        request[s] = "answered" ~> [](Settled(s) /\ status[s] \in Final)

Promised == INSTANCE SubmissionContract WITH
                MaxTries <- Attempts + MaxStalledCount,
                tries <- execs,
                closed <- [s \in Submission |-> Settled(s)],
                torn <- [s \in Submission |-> job[s].stalls > 0]

\* Retries, the catch block, dead runs and stalled jobs together keep the promise
\* of SubmissionContract, its liveness included, as long as no write commits
\* without its acknowledgement and no lock of a live run expires
\* (submission.processor.ts:46-229, queue.service.ts:127-138).
Contract == Promised!Contract
=============================================================================
