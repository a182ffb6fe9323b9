# TLA+ models of the CodeWeaknesses backend

CodeWeaknesses is the backend of an online judge: a NestJS application in one
Node process, with PostgreSQL for its rows, Redis (BullMQ) for its job queues
and the Docker daemon for the programs it judges. This directory models the
parts of it in which order, failure and concurrency matter, checks them with
TLC, and proves with TLAPS, for any number of participants and faults, the safety of the
judging pipeline, its live events, the judge engine, the live leaderboard, the standings,
the end of a contest and the webhook deliveries.

Paths such as `submission.processor.ts:185` are relative to `src/` of the
application; `README.md:209` is the application's own README.

- [Inventory](#inventory)
- [Modules](#modules)
- [Runs](#runs)
- [What the checks found](#what-the-checks-found)
- [Fairness](#fairness)
- [Proofs](#proofs)
- [What is not modelled](#what-is-not-modelled)
- [Plan](#plan)

## Inventory

### Components, their state and their operations

| Component | State | Operations |
|---|---|---|
| Submission intake (`submissions.service.ts`) | `submissions` rows | `create` (check the window, save, enqueue), reads |
| Queue (`queue.service.ts`, BullMQ) | jobs in Redis, two queues | `add`, take, complete, retry with backoff, stalled-job recovery |
| Judging (`submission.processor.ts`) | `submissions` and `test_results` rows; locals of each run | `processSubmission`, two concurrent slots |
| Judge engine (`judge-engine.service.ts`) | one container per call | `executeCode`: create, attach, start, race, statistics, remove; `compareOutput` |
| Live events (`submission-sse.service.ts`, `sse.controller.ts`) | a Subject and a reference count per submission id, in memory | subscribe, replay, `push`, `complete`, `error`, `cleanup` |
| Live leaderboard (`leaderboard.gateway.ts`) | rooms of sockets, in memory | `joinContest`, `leaveContest`, `broadcastLeaderboard` |
| Standings (`leaderboard.service.ts`, `standings.resolver.ts`) | none, computed from rows | `computeStandings`, `contestStandings` |
| Contest life cycle (`contest.service.ts`, `generic-crud.service.ts`) | `contests`: `endTime`, `finishedAt`, `deletedAt` | `finishContest`, the sweep of every minute, `update`, `remove`, `restore`, `create` |
| Contest listener (`contest-finished.listener.ts`) | `webhook_deliveries` rows | the winner, and one delivery and one job per subscription |
| Webhook subscriptions (`webhooks.service.ts`) | `webhook_subscriptions` rows | `create`, the match by contest, reads |
| Webhook delivery (`webhook-delivery.processor.ts`, `webhooks.service.ts`) | `webhook_deliveries` rows, one job per attempt | `process`, `tryDeliver`, `markDelivery...` |
| Problems and tests (`problem.service.ts`) | `problems`, `test_cases` rows | CRUD of problems; add and delete test cases |
| Users (`user.service.ts`, `auth.controller.ts`) | `users` rows, unique names | the seed at every boot, `register`, `createPrivilegedUser`, `update`, `remove` |
| Authentication, GraphQL submission queries, configuration | none | stateless checks, reads |

### How they interact

```
POST /submissions ──save──> PostgreSQL <──rows── processSubmission ──executeCode──> Docker
        └────add────> Redis ──take──>  (two slots)  │      │
                                                    │      └─ broadcastLeaderboard ─> sockets
                                                    └─ push/complete/error ─> SSE clients
sweep, PATCH finish ─ save ─> contests ─ emit ─> listener ─ add ─> Redis ─> webhook processor ─> receivers
```

Calls inside the process are synchronous up to an `await`; between two awaits of
one handler every other handler, worker slot and timer may run. The database
and the queue are shared state with no transactions around several calls. The
event bus, the SSE subjects, the rooms and pending broadcasts exist in memory
only: a crash loses them, while rows and jobs stay.

### What is hard about it, and what makes each part correct

- **Judging.** BullMQ promises at-least-once execution: a job is run again after
  an exception, after a crash and after an expired lock, in the last case while
  the first run is still alive. Correct means: a stored verdict is that of one
  run over its own tests (`VerdictEarned`), nothing but a run after a crash
  replaces it (`Contract`), the number of runs is bounded (`ExecutionsBounded`), rows of
  a run are in judging order (`RowsInOrder`), an error scores nothing
  (`ErrorHasNoScore`), and an answered submission is judged for good
  (`AnsweredIsJudged`, `SettledIsFinal`). `SubmissionContract` says what of this
  whoever uses the pipeline may rely on, without queue, slots and awaits.
- **Live events.** A client may connect, leave and come back at any point of a
  judging that may itself fail and be retried. Correct means: the final event is
  the last one (`FinalEventIsLast`), results add up to it (`ResultsAddUp`), it
  agrees with the database (`ToldWhatIsStored`), hidden outputs stay hidden
  (`HiddenStaysHidden`), and a client that watches the judging of an answered
  submission is told its end before its response ends, unless it leaves, the process
  dies or the late close of another client cuts its stream (`WatcherIsTold`).
- **Judge engine.** The end of the output stream, a timer, the exit of the
  program and the removal of the container race. Correct means: containers are
  removed (`FinishedIsRemoved`), output handed over is complete
  (`OutputIsWhole`), a reported timeout is real (`TimedOutIsKilled`), and a call
  returns (`CallsReturn`). The output comes in frames cut at any byte, and is
  compared but for white space: a test passes only within the time limit, with an
  output that is the same in that sense, of a program that ended (or with none read
  where none is expected), and an equal output of a program that ended without an
  error passes (`PassedIsEqual`). Who exceeded the time limit is told so, live and by
  replay (`LimitIsTle`).
- **Leaderboard.** Correct means that a socket in the room misses no verdict
  although broadcasts are skipped when the room is empty (`NothingMissed`,
  `VerdictsAreShown`).
- **Standings.** Verdicts arrive in another order than submissions, and those behind
  an error, a crash or a lost answer replace others. Correct means that one pass over the
  rows yields the ICPC rule (`StandingIsIcpc`), ranks are shared by ties
  (`RanksAreShared`), a verdict moves its author only the way it should
  (`VerdictsCountTheirWay`), and the three rankings of the application agree on what
  is solved and on the order of those who did not solve equally many, but for the rows
  that keep the points of a verdict which a further run has taken back
  (`BoardsAgree`).
- **End of a contest.** Several callers find `finishedAt` unset, and finish,
  sweep and update write back the whole row they read, over removals and
  restorations in between. Correct means: an expired contest that is not removed
  ends up finished for good (`ExpiredIsFinished`), subscribers are told, of
  finished contests only (`ToldOfFinished`, `ScopedAreTold`), once per caller that
  finished it and only so often (`FinishesAreBounded`).
- **Result of a contest.** The winner is read when the listener runs, beside
  requests that passed the window check, judgings, retries and judgings again behind a
  crash or a lost answer, while an update may move the end. Correct means that
  a winner announced when all of these are over keeps its score and its place before those
  it won against, and stays the winner unless the end is moved to a later time
  (`AnnouncedStands`), and that no submission without a `completedAt` is named while
  there are others (`WinnerIsJudged`).
- **Users over restarts.** Each boot looks for an admin and inserts one, in a table
  that renames, demotions and soft removals have left in any state. Correct means
  that the application never listens without an admin (`UpWithAdmin`) and that a
  boot comes up unless the name of the seed is blocked (`BootEnds`).
- **Webhook delivery.** The processor has a retry chain of its own on top of the
  retries of BullMQ. Correct means `DeliveryContract`: SENT is earned and final,
  FAILED comes after three refusals, nothing is called after a decision, and a
  decision comes. Of a delivery with a run that a crash interrupted, or one that stored
  SENT or enqueued the next attempt and was not told so, only at-least-once is left of
  that: BullMQ makes the processor call again, and SENT may be overwritten.
  Beside it `PostsBounded`, `ChainEarned`.

`PROJECT.json` lists the hazards one by one, each with its line and the
properties that would catch it.

## Modules

| Module | Models | State and actions |
|---|---|---|
| `SubmissionJudging` | intake, queue, processor, test-case edits | a `request` per submission, `status`/`score`/`results` as the database, a `job` per submission in Redis, a `run` per worker slot whose `pc` is the await it is at; one action per await of `create` and `processSubmission`, plus BullMQ's `Take`, `Promote`, `Stall`, `Settle` |
| `SubmissionContract` | what the pipeline promises of a submission | status, tries, closed, torn; implemented by `SubmissionJudging` (`Promised`) |
| `SubmissionStream` | SSE service and controller | EXTENDS `SubmissionJudging`; each action of the pipeline that pushes or ends a stream is composed with its effect on the subscribed clients, the others leave them alone |
| `JudgeEngine` | `executeCode` | per call: the request it waits for, its `readStream`, its container; a step per answer of the daemon |
| `TestReport` | `readStream`, `compareOutput`, the verdict of a test, its replay | EXTENDS `JudgeEngine` with what becomes of each call: when it has returned, one step picks what the program wrote, how the frames were cut and what the test expects, and yields the row, the pushed verdict and the replayed one |
| `WebhookDelivery` | delivery processor and service | `row` per delivery, a `job` per attempt (`<id>_<attempt>`), one worker `slot` |
| `DeliveryContract` | what a delivery promises | the outcome of each delivery; implemented by `WebhookDelivery` (`Promised`) |
| `ContestFinish` | finish, sweep, update, remove, restore, subscriptions, listener | a `clock`, the `contest` row with its `endTime`, and a thread per caller, with the copy of the row it read |
| `ContestResult` | the result of a contest | EXTENDS `ContestFinish` with the submissions (`entry`) between the window check and the end of their job, judged, failed and judged again as the pipeline does under all its faults, and with the winners announced |
| `Accounts` | users over restarts | `user` rows, the stage of `boot`, a `request` per update or removal under way |
| `LeaderboardGateway` | rooms, joins, broadcasts | a `task` per broadcast, an `ask` per `joinContest` |
| `Standings` | the three rankings | rows with verdicts, torn verdicts and errors in any order, and the runs that replace them; the rankings are operators |
| `SubmissionStreamProofs`, `LeaderboardGatewayProofs`, `AccountsProofs`, `WebhookDeliveryProofs`, `StandingsProofs` | | theorems about the modules they are named after |
| `JudgeEngineProofs`, `ContestResultProofs` | | theorems about `JudgeEngine` and `TestReport`, about `ContestFinish` and `ContestResult` |
| `SubmissionJudgingProofs` | | theorems about `SubmissionJudging`, and that it implements `SubmissionContract` |
| `MCSubmissionJudging`, `MCStandings`, `MCContestResult`, `MCTestReport` | | for TLC: symmetry of the worker slots, of the problems and of the submissions, written and expected outputs |

Conventions. A step is what one process does between two awaits of a remote call. A
definition whose name ends in what is wrong with it (`AnnounceAwaited`,
`RequeueOnceMore`, `EntersLate`), commented "a variant the checks must reject", is a
plausible bug: substituted for the definition behind it, it makes the property named
in `PROJECT.json` fail, which shows that the property depends on that code. Auxiliary
variables (`execs`, `judged`, `accepted`, `refused`, `torn` of a delivery, `finishes`,
`kept`, `seen`, `untold`, `moves`, `announced`, and `wrote`, `cut` and `expected` of a
report) record history for the properties; no action reads them to decide what to do.

Abstractions worth knowing:

- *Programs and outputs* are reduced to passed or failed in `SubmissionJudging`
  (`executeCode` never throws, `judge-engine.service.ts:171-181`), and to how the
  program ended in `JudgeEngine`.
- *The clock* counts minutes in `Standings` and instants in `ContestFinish`, where
  `endTime` is compared with it. A request of `SubmissionJudging` is one that passed
  the checks of `create`, on which alone the window has an effect there.
- *One case of judging* (`executeCode`, the insert of its row and the push of its
  event) is one step: a crash or failure before the insert leaves no trace of it,
  one after it is the next step.
- *BullMQ* is modelled from its documented behaviour for the options in
  `queue.service.ts:127-138`: three attempts, completed jobs removed, failed ones
  kept (adding their id again has no effect), `maxStalledCount` 1. It is the
  external part of `SubmissionJudging` and `WebhookDelivery`. The loss of a job
  lock is modelled for submissions, not for the short webhook jobs.
- *Socket.IO* without an adapter keeps its rooms in the memory of the process,
  so `join`, `leave` and `fetchSockets` take effect within a step.
- *Docker* reports no memory for a container that has exited, and a running one
  cannot exceed its limit (`JudgeEngine!Usage`).
- *Texts* matter only in `TestReport`: glyphs of one and two bytes, blanks and line
  breaks; of an error, which words the code would find in it.
- *Whole entities* are what TypeORM saves: `save` of an entity read earlier writes
  the columns in which it differs from the row it reads again, `finishedAt` and
  `deletedAt` among them (`ContestFinish!Store`, `Accounts!Update`).
- *NULL last* in the order of the winner is PostgreSQL's, the default of `DB_TYPE`; on
  MySQL and SQLite, which the module also accepts, a missing `completedAt` comes first.
- *Judging* is abstracted in `Standings` and `ContestResult` to what it does to the
  row: attempts are not counted, so that a submission may be run again as often as the
  bounds allow, and a verdict is replaced only when it is torn or its run is not over.
- *EventSource* clients reconnect, so a connection is idle again when it ends.

## Runs

Deadlock is not checked in any run: the requests of every instance are finite, and
with its faults and requests used up the system rightly stops. That it stops in
good states is what `SettledIsFinal`, `NothingMissed`, the contracts and the
liveness properties say.

Passing runs:

| Run | Instance | Shows |
|---|---|---|
| `judging_faults` | 1 submission, 2 slots, 2 tests (1 hidden), 3 attempts; 2 rejected calls, 1 lost acknowledgement, 1 crash, 1 expired lock | `TypeOK`, `VerdictEarned`, `ExecutionsBounded` |
| `judging_edits` | 1 slot, 3 tests of which 2 at first, 1 edit, 3 rejected calls, 1 failed enqueue, 1 crash; fair | `RowsInOrder`, `ErrorHasNoScore`, `SettledIsFinal`, `AnsweredIsJudged`; `Contract`, the refinement of `SubmissionContract` |
| `stream` | 1 submission, an owner and an administrator, 2 tests (1 hidden), 1 rejected call, 1 crash; fair | the safety properties of the stream, `WatcherIsTold` |
| `engine` | 1 call, 2 refused requests, 1 lost acknowledgement, 1 crash, a program that may run for ever; 90 written and 12 expected outputs over 2 letters, a blank, a line break and a two-byte glyph, cut within any of the latter; fair | safety of the engine, `CallsReturn`; `PassedIsEqual`, `LimitIsTle` |
| `webhook` | 1 delivery, 2 rejected calls that may have been carried out, 1 crash; fair | `Contract`, the refinement of `DeliveryContract`; `PostsBounded`, `ChainEarned` |
| `finish` | 1 finisher, 2 sweeps, 1 update, 1 removal, 1 restoration, a scoped subscription, 2 instants, 1 failed call, which in a sweep ends the process, 1 crash; fair | `ToldOfFinished`, `FinishesAreBounded`, `ExpiredIsFinished`, `ScopedAreTold` |
| `result` | 1 sweep, 1 update, a scoped subscription, 3 instants, 1 failed call, 1 crash; 2 submissions, scores 0 and 100, any number of judgings | `AnnouncedStands`, `WinnerIsJudged` |
| `board` | 2 sockets, 2 submissions, 1 fault of each kind; fair | `NothingMissed`, `VerdictsAreShown` |
| `standings` | 3 users, 2 problems, 1 test, 3 submissions, 3 verdicts or errors, 1 submission with a torn verdict, 1 minute | `StandingIsIcpc`, `RanksAreShared`, `BoardsAgree`, `VerdictsCountTheirWay` |
| `accounts` | 3 rows, 3 names, 2 requests under way, 2 crashes; fair | `UpWithAdmin`, `BootEnds` |

Each run takes less than four minutes. `TypeOK` of `Standings`, `Accounts` and
`WebhookDelivery` states the types of their variables for the reader; no run lists it.

Why the bounds are enough. One submission with two slots contains the only
interference between runs there is, two runs of one job; submissions share nothing but
slots. One visible and one hidden test distinguish the two phases of judging, a third
(in `judging_edits`) allows a change of tests inside the hidden one. Two rejected
calls with three attempts are what a job can absorb before it gives up, and a third
(in `judging_edits`) takes it there: three attempts that each end in the catch block.
The kinds of faults are combined in every run. A tie needs two entries and the gap
behind it a third, hence three users; three judgings of three submissions let one of
them be judged again behind another. One test per problem leaves out partial scores,
with which no submission is taken for a solved one below 200 tests: that, and any
number of tests, is what the theorems add. Calls of `executeCode` share nothing but
the process, whose crash ends them all: one is enough, and the proofs are for any
number. One delivery has up to three jobs, which run beside each other after a fault;
deliveries share only the slot. Two sweeps that overlap, a request and an update are
every kind of caller that may finish a contest or undo it; their subscription is
scoped to the contest, since others match none. Two instants are enough for its end to
be reached, moved before the clock and put back by a stale save. Two submissions are
what a winner needs to be overtaken, by score or by `completedAt`; three instants (in
`result`) are one in the contest, its end and one behind it, to which the end may be
moved. In `result` the sweep is the only finisher, and nothing removes the contest,
which `finish` does. All texts of up to three glyphs and some longer ones hold a
blank, a blank line or white space on either side of a letter. The proofs remove the
bounds for what they establish.

## What the checks found

Two runs end in a violation, each of a statement of the repository:

| Run | Statement | What happens |
|---|---|---|
| `stream_stranded` | README.md:201 late join | status read before the verdict, subscription after the stream is gone: the client waits for ever |
| `finish_revived` | README.md:44 soft-delete with restore | whoever read the row before its removal saves `deletedAt` back as null; users and problems, which share `update`, alike |

Other disagreements met while modelling, which the models contain and no run singles
out:

Live events:

- README.md:477 lets an administrator "view hidden test data": the replay blanks hidden
  outputs for everybody, and a subscription of the owner deletes them from the event
  it shares with the administrator (`Redacted`, `ReplayEvents`).
- `sse.controller.ts:98` "should match processor's index": the rows of a failed attempt
  shift the replayed indices (`ReplayEvents`).
- `submission-sse.service.ts:8`, reference counts of listeners: a late close is counted
  against the next stream of the submission (`Close`).

Judging of a test:

- README.md:419, statistics "to detect MLE": they are taken of a container that has
  exited, and read zero (`Usage`).
- README.md:418, TLE: when the program exits between timeout and kill, the call returns
  success with no output, which passes a test that expects nothing (`KillAnswers`).
- README.md:407, memory limit: a program killed by the kernel for its memory with
  nothing on stderr is a success, and passes if what it wrote is what is expected
  (`Outcome`, `PassedIsEqual`).
- README.md:357, verdict `tle`: a RuntimeError on stderr has the letters of time in it
  (`LiveVerdict`), and is replayed as `fail` (`ReplayVerdict`), against README.md:201.
- Removing the container of a timed-out call may make `container.wait` reject in
  a listener nobody awaits, which ends the process and leaves the containers of other
  calls (`WaitRejects`; README.md:421).
- A program that writes only white space to stderr fails, and its row has an empty
  error (`judge-engine.service.ts:159-162`; `StoredError`). A glyph cut by the end of a
  frame becomes two others, and a right answer wrong (`judge-engine.service.ts:277`;
  the `cut` of `PassedIsEqual`).

Leaderboard and standings:

- The catch block leaves the score (`submission.processor.ts:223-226`): when the save
  of an ACCEPTED was carried out and its answer lost, or a further run fails behind a
  crash, the row is a RUNTIME_ERROR with 100 points. GraphQL may take it for the best
  submission and hide a later accepted one, and it may be announced as the winner
  (`Kept` in `BoardsAgree`).
- `leaderboard.gateway.ts:143`, up to date: older standings may be emitted last
  (`Broadcast`, `Answer`).
- README.md:209, broadcast after every submission: RUNTIME_ERROR changes the standings
  and is not broadcast.
- An unsolved problem shows its failed attempts, against `leaderboard.dto.ts:6`.
- On the GraphQL board an accepted verdict may cost its author a place among users
  who solved equally many: `lastAcceptedAt` is the `completedAt` of the earliest best
  submission, which may be judged last (`standings.resolver.ts:103`). That board
  drops removed users, the live one shows them under their id.

Contests, webhooks and users:

- A save by finisher or sweep writes back the `endTime` it read: it may undo an update that
  moved it, and reopen the window (`Store`, `AnnouncedStands`).
- A receiver that answered 2xx is called again, and SENT overwritten, when the update to
  SENT was carried out and its answer lost (`AnswerLost`).
- README.md:98, "validates contest window": checked before the user is read, stored
  after `endTime` (`ContestResult`). README.md:166, "manually closes a contest":
  `create` never looks at `finishedAt`.
- README.md:25, completion triggers notifications: a crash between save and listener
  loses them. README.md:226, all active subscribers: a subscription without
  `contestId` matches no contest (`Matching`).
- README.md:538, FAILED after 3 failures: `tryDeliver` stores it after the first.
  README.md:228, up to 3 attempts: the retries of BullMQ come on top; `PostsBounded`
  says by how much.
- The second attempt of a delivery waits 2,000 ms
  (`webhook-delivery.processor.ts:41`), against README.md:536.
- README.md:158, seeded if no admin exists: the removed or demoted superadmin keeps
  the unique name, and no restart comes up (`Blocked`).

Some facts hold only under conditions the properties or runs make explicit:
`ErrorHasNoScore` until BullMQ found the job stalled, and without lost
acknowledgements (a save that commits and then fails sends an accepted submission to
the catch block); `BoardsAgree` with fewer than 200 tests per problem (from there on
`Math.round` gives 100 points to a wrong submission), and but for rows that keep the
points of a torn verdict; `WatcherIsTold` of submissions whose request was answered (a
row left behind by a failed enqueue is never judged, and who watches it waits for
ever); `SettledIsFinal` with fewer rejected calls than would fail every attempt
together with its catch block; `Contract` with fewer rejected calls than
`JobAttempts`; `AnnouncedStands` of winners announced when no request or job was under
way, for which nothing in the code waits. `Standings` and `ContestResult` take from
`SubmissionJudging` that an error is followed by another try and a verdict by one only
when it was torn: when the run that stored it died behind the save, was told that the
save had failed, or had lost its lock (`Contract` and its conditions).

## Fairness

- A run, handler or listener whose remote call is due goes on: weak fairness of
  its steps. It is the event loop's, and the remote side answers or rejects.
  `CallFails` and the other faults are never fair, and bounded by a constant.
- What BullMQ does to a job outside of its runs (`Advance`: take, promote, find
  stalled) is strongly fair per job: it serves waiting jobs in order, while other
  jobs may keep taking the slot in between, and its timers fire.
- The sweep is weakly fair (`contest.service.ts:18`), and so are the saves and
  listeners behind it and the clock.
- In `Accounts` whatever restarts the process does so again, and a boot goes on.
- In `JudgeEngine` the daemon's answers and the timer are fair; the end of a
  program is not, since a program may run for ever, and neither are the events
  of the output stream.
- Clients, editors, edits, crashes and finish requests are never fair.

## Proofs

The theorems hold for every value of the constants that satisfies the named
assumptions of the modules; where one needs more, its statement says so. Each
property and each strengthening was checked by TLC as an invariant first. The
proofs have one step per action and one leaf per conjunct an action can disturb.

| Module | Theorems | Inductive invariant |
|---|---|---|
| `SubmissionJudgingProofs` | `TypeCorrect`, `ExecutionsAreBounded`, `VerdictsAreEarned`, `RowsAreInOrder`, `ErrorsHaveNoScore`, `SettledAreFinal`, `KeepsContract` | `Typed`, `ExecutionsAccounted`, `Judged`; `Listed`, `Owners`, `Scores`, `Kept`, together `KeepsInv` |
| `SubmissionStreamProofs` | `StreamTypeCorrect`, `FinalEventsAreLast`, `HiddenIsHidden`, `ToldIsStored`, `ResultsAreAdded` | `StreamInv`, with `Stored` or `AddsUp` per client |
| `LeaderboardGatewayProofs` | `TypeCorrect`, `NothingIsMissed` | `Covered` |
| `JudgeEngineProofs` | `TypeCorrect`, `NothingIsLeftBehind`, `OnlyWholeOutput`, `OnlyKilledTimeOut`, `LimitsAreTold`, `ReportsAreTyped`, `PassesAreEqual` | `Soundness`, one `Sound` per call; `LimitInv`, `ReportInv`, `CompareInv` |
| `ContestResultProofs` | `TypeCorrect`, `ToldOfFinishes`, `FinishesBounded`; `ResultTypeCorrect`, `AnnouncementStands`, `UnjudgedWinsAlone` | `Paid` per subscription, `Accounted` for the saves still to come; `ResultInv`: `ResultTypeOK`, `Unscored`, `Stands` |
| `AccountsProofs` | `TypeCorrect`, `ComesUpWithAdmin` | `TypeOK` |
| `WebhookDeliveryProofs` | `TypeCorrect`, `ChainIsEarned`, `PostsAreBounded`, `KeepsContract` | `ChainInv`, `Paid`, `KeepsInv` |
| `StandingsProofs` | `TypeCorrect`, `StandingsAreIcpc`, `SharedRanks`, `BoardsDoAgree`, `VerdictsDoCount` | `TypeOK`, `MarkedInv`, `ChronologicalInv` |

**The pipeline.** `TypeOK` is not inductive alone, since a run uses its locals only in
states in which they are set; `Typed` adds that.

- `ExecutionsAreBounded`: every start of the processor is paid for.
  `ExecutionsAccounted` balances `execs[s]` against the attempts made, the stalls
  counted and the state of the job, so that a job that can still be started has not
  used up its sum.
- `VerdictsAreEarned`: runs that are alive at the same time have different execution
  numbers and none has the number of a run to come (`RunsApart`); a run's locals are
  faithful to the rows it has written, also when it lost its lock
  (`RunsFaithful`); the record of the last stored verdict is backed by rows
  (`Earned`). Since rows are only added, and only by the run whose number they
  bear, no other run can disturb them.
- `RowsAreInOrder`: the rows of a live run are the tests it ran, and as soon as a
  hidden one is among them, whatever is left is hidden and comes later (`Listing`).
- `ErrorsHaveNoScore`: before the first stall points come with a verdict, and behind
  a verdict a run has only to return (`Scores`). Without lost acknowledgements: a save
  of the verdict that commits and is reported as failed is followed by an error that
  keeps its points.
- `SettledAreFinal`: under `FewFaults` a job that is over has a final status: each
  attempt, each stall and each second failure of one attempt is paid by a fault of its
  own (`Spared`), so under `FewFaults` none is left for the last catch block. The
  four conjuncts are each needed, since each fault beyond them breaks the
  property: a run that lost its lock writes after the end; one crash more than
  `MaxStalledCount` makes BullMQ give the job up; one failed call more than
  `Attempts` fails the last attempt together with its catch block; a problem without
  tests fails attempts that no fault pays for. `maxStalledCount` and the three
  attempts are those of `queue.service.ts:127-138`, and nothing in the code repairs such a
  submission afterwards: the hypothesis delimits what the code delivers.
- `KeepsContract`: step simulation of `SubmissionContract!ContractSafety`. Most steps
  of the pipeline stutter; `FewFaults` and the absence of lost acknowledgements are
  needed as above.

**The stream.** `StreamInv` adds to the invariants of the pipeline, which a step of
the stream takes over unchanged (`PipelineSteps`), that a client sits in at most one
stream, that of the submission it watches (`OneSeat`, `Seated`), and that whoever
listens has received results only (`Waiting`). From it follow `FinalEventsAreLast` and
`HiddenIsHidden`.

- `ToldIsStored`: the last verdict a client was told is in its row, or the job has
  stalled since (`Stored`). It needs the absence of lost acknowledgements, and `Scores`.
- `ResultsAreAdded`: a client that listens has received results of the one run alive,
  up to the one it inserted last, and if it has them from the first, as many passed as the
  run has counted (`Follows`); a replay gives a bijection between the positions of
  its events and the rows (`ReplayAddsUp`). It needs that no live run loses its lock:
  two runs of a submission push into one stream.

**Webhooks.** `ChainIsEarned` needs what the run in the slot knows of its attempt
(`SlotFits`). `PostsAreBounded` counts the calls still to come: `Owed(d)` is the set of
pairs of a job and an attempt behind it that may call the receiver yet, and each fault
adds at most `MaxAttempts` to what is `Paid`, a call that was carried out and whose
answer is lost like one that was not. `KeepsContract` refines
`DeliveryContract!ContractSafety` under `EnoughAttempts`: with as many failed calls as
`JobAttempts`, or more crashes than `MaxStalledCount`, BullMQ gives up a job whose
delivery is undecided.

**Contests.** `ToldOfFinishes` and `FinishesBounded` balance, per subscription and per
caller, what was done against what the state of the caller still allows.
`FinishesBounded` needs the sets of callers finite and disjoint
(`CallersAssumption`): each request is one thread. `AnnouncementStands` rests on
two facts about a step: a closed submission never changes (`ClosedStays`), so that the
winner and those it won against stay as they were, whatever else is judged; and while the end
of the contest does not move to a later time, nothing joins them, since the window stays
closed and no request holds a check of it (`EndStays`, `SettledStays`). `Stands` says
both of every announcement. `UnjudgedWinsAlone` needs that without a
`completedAt` there is no score (`Unscored`).

**Leaderboard and engine.** `NothingMissed` speaks of quiet states only. `Covered` speaks
of all: for a socket in the room and a stored verdict, the socket has been shown it, or
a broadcast or an answer on its way will show it (`Served`). In `JudgeEngine` steps of
other calls leave a call alone (`OthersStandStill`); a call has no container before
`create` and leaves only by the removal (`Owned`); while the race is on nobody kills, so
what is read then is the output of a program that ended by itself (`Whole`); a timeout is
reported only by a kill that succeeded, behind which the program cannot run again
(`Limited`). `LimitsAreTold` is about the composition with `TestReport`: a call that was
killed is no success, whatever was written and however it compares, and its message
passes the tests of the processor and of the replay alike; the texts themselves never
need to be looked at.

**Texts.** `PassesAreEqual` is about the texts, of any length and over any letters.
`Marks` says what counts of a text by its positions alone, and `SameOutput` compares
that; `compareOutput` trims, splits, trims each line, filters and joins.

- A fold over a sequence is a chain of turns, one per element (`FoldExists`,
  `SplitChain`, `JoinChain`, `FlattenChain`), so that what a loop has done after n
  turns can be proved from what it had done before.
- `Reading` is the invariant of the splitting loop: the full lines found so far, trimmed
  and joined, are made of the positions that count up to their end. A line break
  counts only once the next line that is not blank begins, and a blank only once
  something follows it on its line, which is why the invariant treats the last line
  apart (`NextLine`, `LineAdded`). `NormalizeIs` is what follows at the end of the text, and
  `ComparesWhatCounts` that equal normal forms are equal marks; trimming the output
  before it is stored takes away nothing that counts (`TrimCounts`).
- A frame that ends within a glyph leaves U+FFFD in the output (`CutIsDecoded`), which
  is no white space and counts, and which no expected output holds: such a test never
  passes (`CutCompares`).
- `CompareInv` carries this over the steps: a result that was returned stays
  (`ResultStands`), so that the verdict of a report is that of the comparison
  (`Compared`), and a program that ended by itself without an error and was read is a
  success (`Clean`), which rests on `Soundness`; that a passed test is within the limit and
  that its program ended, or was not read, comes from there as well.

**Standings.** The rankings are folds over sets of rows, as long as a contest makes
them, so that these proofs are inductions over data. The induction theorems of the
library take an operator as their parameter, which the provers cannot instantiate; here
induction is a fact about sets instead. From the least element of a set of numbers
(`Least`) follows that a set which holds {} and, with a set less its picked element, the
set itself, holds all subsets of a finite set (`SubsetInduction`), and from it that a
recursive function exists (`Iterates`), so that what `CHOOSE` takes satisfies its equation.
`RowsOfLoop` applies that to the loops of the service: a loop over rows is one turn, of
the last row, behind the loop over the others.

- `TypeCorrect`: a score is a percentage, since no run passes more tests than there are.
- `StandingsAreIcpc`: `LoopIsIcpc` is the invariant of the loop over any set of rows.
- `SharedRanks`: the comparator is a strict total order on the board, so that the
  entries are sorted (`Sorted`); a loop over a sorted sequence gives each entry one more
  than there are entries with a better result (`RanksOfSorted`).
- `BoardsDoAgree`: 100 points are those of an accepted row or of one that keeps them from
  a torn verdict (`Marked`, `Kept`), so the best of the
  rows is accepted, or such a row, when any is accepted (`BetterLoop`). Without a `Kept`
  row of two users the boards count the same for both. Its hypothesis `Tests < 200` is needed:
  from 200 tests on, 199 of 200 passed ones are rounded to 100 points, and GraphQL may
  take an earlier submission that failed for the best one. `addTestCase` bounds no
  number of tests (`problem.service.ts:42-51`); the hypothesis delimits what the code delivers.
- `VerdictsDoCount`: rows are stored in the order of their minutes (`Chronological`), so that a new
  accepted verdict moves the first accepted row of its problem only to an earlier one,
  with no later minute and no more failures before it (`AcceptedAfter`,
  `PenaltyAfter`); sums of penalties are monotone (`SumsGrow`), and the entries of others stay
  as they are (`OthersStand`).

**Users.** `ComesUpWithAdmin` is an action property: the look for an admin and the
insert of the seed each decide within one step that the application listens, since no
request runs before; of the table the proof needs its type.

The contracts are split into `ContractSafety`, which is proved, and `Contract`, which
adds the fairness and which the runs `judging_edits` and `webhook` check.

Only model-checked: everything that needs fairness (`AnsweredIsJudged`, `WatcherIsTold`,
`VerdictsAreShown`, `CallsReturn`, `ExpiredIsFinished`, `ScopedAreTold`, `BootEnds`, the
liveness half of the contracts), since the prover has no rules for fairness and ENABLED.
Each invariant and each action property of the passing runs is a theorem.

## What is not modelled

- Passwords, tokens, role checks, the HTTP layer and DTO validation: functions
  of one request.
- The creation of contests and problems, one insert each that nothing races
  with; updates and removals of problems, which run the code of `BaseService` that
  `ContestFinish` models for contests.
- The GraphQL queries for submissions, which read rows and map them.
- The configuration: `getWorkerConcurrency` and its kin compute the number of slots
  at boot, a constant here; `closeQueue` has no caller.
- Images and commands of the judge engine, constant strings per language.
- HMAC signatures and payloads of webhooks, apart from the winner; `deliver`, which
  has no caller.
- A deployment with several Node processes. The SSE maps and the rooms are
  local to a process, and the application ships no adapter to share them.

## Plan

Done: all modules of the table above, and the theorems listed under
[Proofs](#proofs).

What could follow:

1. The rows a client is told, stated over the whole stream of a client across
   reconnections, from `StreamInv`.
2. A contract for the end of a contest, which `ContestFinish` refines: told of a finish,
   never without one, at most once for each.
3. `Accounts`: that no two rows share a name, which the unique index promises.
