---------------------------- MODULE ContestResult ----------------------------
(***************************************************************************)
(* The result of a contest: who wins it, while SubmissionsService.create   *)
(* lets submissions in, the judging decides them in any order, and the     *)
(* callers of ContestFinish end the contest and tell the subscribers who   *)
(* its winner is.                                                          *)
(***************************************************************************)
EXTENDS ContestFinish

CONSTANTS
    Entry,     \* POST /submissions requests and the submissions they store
    Points     \* scores a verdict may give

ASSUME EntryAssumption == Entry # {} /\ Points \subseteq 0..100

VARIABLES
    entry,     \* the submissions
    moves,     \* saves that moved endTime to a later time (auxiliary)
    announced  \* winners in the payloads of the listener (auxiliary)

resultVars == <<vars, entry, moves, announced>>

\* "checked" is a request that found the contest open, "queued" a submission the
\* queue will run, "judged" one whose verdict is stored and whose run is not over,
\* "closed" one that no run follows.  at is completedAt (0: null).
EntryState ==
    [state: {"none", "checked", "queued", "judged", "closed"},
     score: 0..100, at: 0..MaxTime]
NoEntry == [state |-> "none", score |-> 0, at |-> 0]

Stored == {e \in Entry : entry[e].state \notin {"none", "checked"}}

\* ORDER BY score DESC, completedAt ASC, in which PostgreSQL, the default of
\* DB_TYPE, puts null last.
\* A variant the checks must reject: a null completedAt comes first.
BeforeNullFirst(e, f) ==
    \/ entry[e].score > entry[f].score
    \/ entry[e].score = entry[f].score /\ entry[e].at < entry[f].at

Before(e, f) ==
    \/ entry[e].score > entry[f].score
    \/ /\ entry[e].score = entry[f].score
       /\ entry[e].at # 0
       /\ entry[f].at = 0 \/ entry[e].at < entry[f].at

\* submissions[0]: which of several equals comes first is not determined.
Winners == {e \in Stored : \A f \in Stored : ~Before(f, e)}

Announcement ==
    [winner: Entry, score: 0..100, among: SUBSET Entry, moves: Nat, settled: BOOLEAN]

ResultTypeOK ==
    /\ TypeOK
    /\ entry \in [Entry -> EntryState]
    /\ moves \in Nat
    /\ announced \subseteq Announcement

ResultInit ==
    /\ Init
    /\ entry = [e \in Entry |-> NoEntry]
    /\ moves = 0
    /\ announced = {}

\* A step of the submissions, with the contest as it is.
EntryBecomes(e, to) ==
    /\ entry' = [entry EXCEPT ![e] = to]
    /\ UNCHANGED <<vars, moves, announced>>

-----------------------------------------------------------------------------
(* SubmissionsService.create *)

\* A variant the checks must reject: create looks at startTime alone.
OpenForEver == ~contest.deletedAt

\* The contest, which has begun, is found and its end is not before now;
\* finishedAt is not looked at.
OpenNow == ~contest.deletedAt /\ clock <= contest.endTime

Check(e) ==
    /\ entry[e].state = "none" /\ OpenNow
    /\ EntryBecomes(e, [NoEntry EXCEPT !.state = "checked"])

\* The user is read in between.
StoreEntry(e) ==
    /\ entry[e].state = "checked"
    /\ EntryBecomes(e, [NoEntry EXCEPT !.state = "queued"])

-----------------------------------------------------------------------------
(* The judging, as SubmissionContract has it.  completedAt is the time at which *)
(* its object was made, some time before the save.                             *)

\* A variant the checks must reject: passedCount goes on from the last run.
JudgeOnTop(e, points) ==
    /\ entry[e].state = "queued"
    /\ \E t \in 1..clock :
          EntryBecomes(e, [state |-> "judged", score |-> entry[e].score + points, at |-> t])

JudgeEntry(e, points) ==
    /\ entry[e].state = "queued"
    /\ \E t \in 1..clock :
          EntryBecomes(e, [state |-> "judged", score |-> points, at |-> t])

\* The catch block sets completedAt and leaves the score; the error goes to the
\* queue, which runs the submission again while it has attempts left.
FailEntry(e) ==
    /\ entry[e].state = "queued"
    /\ \E t \in 1..clock : EntryBecomes(e, [entry[e] EXCEPT !.at = t])

\* The verdict's save was committed and its answer lost, or the lock of the job:
\* the run goes to its catch block, or another run follows.
ReopenEntry(e) ==
    /\ entry[e].state = "judged"
    /\ EntryBecomes(e, [entry[e] EXCEPT !.state = "queued"])

\* The run is over; or the attempts are used up; or no job was ever enqueued.
CloseEntry(e) ==
    /\ entry[e].state \in {"queued", "judged"}
    /\ EntryBecomes(e, [entry[e] EXCEPT !.state = "closed"])

\* Saves that move endTime to a later time are counted.
CountMoves == moves' = IF contest'.endTime > contest.endTime THEN moves + 1 ELSE moves

\* The process dies with its requests; a run that was not over is run again.
Interrupted(e) ==
    CASE entry[e].state = "checked" -> NoEntry
      [] entry[e].state = "judged" -> [entry[e] EXCEPT !.state = "queued"]
      [] OTHER -> entry[e]

ProcessDies ==
    /\ Crash \/ \E a \in Sweeper : SaveFails(a)
    /\ entry' = [e \in Entry |-> Interrupted(e)]
    /\ CountMoves
    /\ UNCHANGED announced

-----------------------------------------------------------------------------
(* The end of the contest *)

\* Nobody can get in any more, and no run is to come.
Settled ==
    /\ contest.endTime < clock
    /\ \A e \in Entry : entry[e].state \in {"none", "closed"}

\* The listener puts the winner of the rows as they are into its payload.
Announce(a) ==
    /\ Listen(a)
    /\ IF caller'[a].pc = "create" /\ Stored # {}
       THEN \E e \in Winners :
               announced' = announced \cup
                   {[winner |-> e, score |-> entry[e].score, among |-> Stored,
                     moves |-> moves, settled |-> Settled]}
       ELSE UNCHANGED announced
    /\ UNCHANGED <<entry, moves>>

Elsewhere ==
    /\ \/ \E a \in Caller : Edit(a) \/ SweepRead(a) \/ ListenerFails(a)
       \/ \E a \in Caller, s \in Subscription : CreateDelivery(a, s) \/ EnqueueDelivery(a, s)
       \/ \E a \in Caller \ Sweeper : SaveFails(a)
       \/ \E s \in Subscription : Subscribe(s)
       \/ Tick
    /\ CountMoves
    /\ UNCHANGED <<entry, announced>>

ResultNext ==
    \/ \E e \in Entry :
          \/ Check(e) \/ StoreEntry(e) \/ FailEntry(e) \/ ReopenEntry(e) \/ CloseEntry(e)
          \/ \E points \in Points : JudgeEntry(e, points)
    \/ \E a \in Caller : Announce(a)
    \/ Elsewhere \/ ProcessDies

ResultSpec == ResultInit /\ [][ResultNext]_resultVars

-----------------------------------------------------------------------------
(* Properties *)

\* What a delivery says of the winner when the contest is over and no request or
\* job is underway stands: the winner keeps its score, and none of those it won
\* against ever comes before it, whatever is announced, edited or crashes later;
\* it stays a winner unless somebody moves the end of the contest to a later time,
\* which an update may do, and a save with an older copy of the row as well
\* (submissions.service.ts:44-84, contest-finished.listener.ts:35-56,
\* generic-crud.service.ts:34-38).
AnnouncedStands ==
    \A p \in announced : p.settled =>
        /\ entry[p.winner].score = p.score
        /\ \A e \in p.among : ~Before(e, p.winner)
        /\ moves = p.moves => p.winner \in Winners

\* A delivery names a submission without a completedAt only when no submission
\* has one: neither a stranded nor a running one comes before one whose run is
\* over, however low its score (contest-finished.listener.ts:35-41).
WinnerIsJudged ==
    [][\A p \in announced' \ announced :
          entry[p.winner].at = 0 => \A e \in Entry : entry[e].at = 0]_resultVars
=============================================================================
