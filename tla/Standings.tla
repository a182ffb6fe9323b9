------------------------------ MODULE Standings ------------------------------
(***************************************************************************)
(* The standings of one contest, computed three times by three rules from  *)
(* the same rows: LeaderboardService.computeStandings (ICPC, for the live  *)
(* leaderboard), StandingsResolver.contestStandings (best score, GraphQL)  *)
(* and the winner in the payload of ContestFinishedListener.               *)
(*                                                                         *)
(* Submissions arrive in the order of submittedAt and are judged in any    *)
(* order and, behind an error or a torn verdict, again: what a query sees  *)
(* are rows in any state that SubmissionContract lets them be in.          *)
(***************************************************************************)
EXTENDS Naturals, Sequences, FiniteSets, SequencesExt, Functions

CONSTANTS
    User,            \* contestants, ordered as their names
    Problem,         \* problems of the contest
    Tests,           \* test cases of each problem
    MaxSubmissions,  \* bound: submissions of the contest
    MaxJudgings,     \* bound: verdicts and errors stored, over all submissions
    MaxTorn,         \* bound: submissions with a torn verdict
    MaxMinutes       \* bound: length of the contest

ASSUME StandingsAssumption ==
    /\ User \subseteq Nat
    /\ Tests \in Nat \ {0}
    /\ {MaxSubmissions, MaxJudgings, MaxTorn, MaxMinutes} \subseteq Nat

VARIABLES
    submissions,  \* rows of the contest, by submittedAt
    minute,       \* minutes since startTime
    judgings      \* verdicts and errors stored so far

vars == <<submissions, minute, judgings>>

\* PENDING and RUNNING are one status: none of the three rules looks for them.
\* completed is completedAt, in minutes from 1 on, 0 for null.  torn: the run that
\* stored the last verdict died behind the save, was told that the save had failed,
\* or had lost its lock to another run, so that the job stores more.
Status == {"undecided", "accepted", "wrong", "runtime_error"}
Row == [user: User, problem: Problem, minute: 0 .. MaxMinutes, status: Status,
        score: 0 .. 100, completed: 0 .. MaxMinutes + 1, torn: BOOLEAN]

TypeOK ==
    /\ submissions \in Seq(Row)
    /\ minute \in 0 .. MaxMinutes
    /\ judgings \in 0 .. MaxJudgings

Init ==
    /\ submissions = <<>>
    /\ minute = 0
    /\ judgings = 0

\* SubmissionsService.create
Submit(u, p) ==
    /\ Len(submissions) < MaxSubmissions
    /\ submissions' = Append(submissions,
          [user |-> u, problem |-> p, minute |-> minute, status |-> "undecided",
           score |-> 0, completed |-> 0, torn |-> FALSE])
    /\ UNCHANGED <<minute, judgings>>

\* Math.round of passed / Tests * 100; .5 rounds up.
Score(passed) == (200 * passed + Tests) \div (2 * Tests)

\* As in SubmissionContract: a verdict is replaced only if it was torn.
NotLast(s) == s.status \in {"accepted", "wrong"} => s.torn

\* The save of RUNNING by a further run: score and completedAt stay.
RunAgain(i) ==
    /\ NotLast(submissions[i])
    /\ submissions' = [submissions EXCEPT ![i].status = "undecided"]
    /\ UNCHANGED <<minute, judgings>>

Store(i, status, score, torn) ==
    /\ NotLast(submissions[i])
    /\ judgings < MaxJudgings
    /\ submissions' = [submissions EXCEPT ![i].status = status, ![i].score = score,
                                          ![i].completed = minute + 1, ![i].torn = torn]
    /\ judgings' = judgings + 1
    /\ UNCHANGED minute

\* A submission that passes all tests is accepted, one that fails any is wrong.
Judge(i, passed, torn) ==
    /\ torn => Cardinality({j \in DOMAIN submissions \ {i} : submissions[j].torn}) < MaxTorn
    /\ Store(i, IF passed = Tests THEN "accepted" ELSE "wrong", Score(passed), torn)

\* The catch block of the processor, which leaves the score: the one of a torn
\* verdict stays beside the error.
JudgeFails(i) == Store(i, "runtime_error", submissions[i].score, submissions[i].torn)

Tick ==
    /\ minute < MaxMinutes
    /\ minute' = minute + 1
    /\ UNCHANGED <<submissions, judgings>>

-----------------------------------------------------------------------------
(* LeaderboardService.computeStandings *)

\* byUser and byProblem: the rows of one user for one problem, by their index.
Of(u, p) == {i \in DOMAIN submissions : submissions[i].user = u /\ submissions[i].problem = p}
Contestant == {s.user : s \in ToSet(submissions)}
Tried(u) == {p \in Problem : Of(u, p) # {}}

\* A loop over some of the rows, in the order of submittedAt.
Loop(turn(_, _), start, rows) ==
    MapThenFoldSet(LAMBDA s, acc : turn(acc, s), start, LAMBDA i : submissions[i],
                   LAMBDA set : Max(set), rows)

\* TLE, MLE and COMPILATION_ERROR are not among the statuses the processor sets.
IsPenalisable(status) == status \in {"wrong", "runtime_error"}

Open == [solved |-> FALSE, attempts |-> 0, minute |-> 0]

\* A variant the checks must reject: the loop goes on behind the first ACCEPTED.
CountAll(acc, s) ==
    IF s.status = "accepted" THEN [acc EXCEPT !.solved = TRUE, !.minute = s.minute]
    ELSE IF IsPenalisable(s.status) THEN [acc EXCEPT !.attempts = @ + 1] ELSE acc

\* One turn of the loop over the submissions of one user to one problem.
Count(acc, s) ==
    CASE acc.solved -> acc
      [] ~acc.solved /\ s.status = "accepted" ->
            [acc EXCEPT !.solved = TRUE, !.minute = s.minute]
      [] ~acc.solved /\ IsPenalisable(s.status) -> [acc EXCEPT !.attempts = @ + 1]
      [] OTHER -> acc

ProblemStanding(u, p) == Loop(Count, Open, Of(u, p))

Penalty(st) == st.minute + 20 * st.attempts

SolvedBy(u) == {p \in Tried(u) : ProblemStanding(u, p).solved}

Entry(u) ==
    LET solved == SolvedBy(u)
    IN  [user |-> u, solved |-> Cardinality(solved),
         penalty |-> SumFunction([p \in solved |-> Penalty(ProblemStanding(u, p))])]

\* The comparator of entries.sort.
Before(a, b) ==
    \/ a.solved > b.solved
    \/ a.solved = b.solved /\ a.penalty < b.penalty
    \/ a.solved = b.solved /\ a.penalty = b.penalty /\ a.user < b.user

Board == {Entry(u) : u \in Contestant}

\* entries, sorted.
Entries ==
    LET board == Board
    IN  [i \in 1 .. Cardinality(board) |->
            CHOOSE e \in board : Cardinality({f \in board : Before(f, e)}) = i - 1]

SameResult(a, b) == a.solved = b.solved /\ a.penalty = b.penalty

\* A variant the checks must reject: a rank is one more than the rank before.
DenseRanks(entries) ==
    LET rank[i \in 1 .. Len(entries)] ==
            IF i = 1 THEN 1
            ELSE IF SameResult(entries[i], entries[i - 1]) THEN rank[i - 1] ELSE rank[i - 1] + 1
    IN  rank

\* currentRank of the loop that assigns ranks, at each entry.
Ranks(entries) ==
    LET rank[i \in 1 .. Len(entries)] ==
            IF i > 1 /\ SameResult(entries[i], entries[i - 1]) THEN rank[i - 1] ELSE i
    IN  rank

-----------------------------------------------------------------------------
(* StandingsResolver.contestStandings *)

\* A variant the checks must reject: the latest submission is the best.
BetterLatest(a, b) == b

\* The reduce over the submissions, which are ordered by submittedAt.
Better(a, b) == IF b.score > a.score THEN b ELSE a

Best(u, p) == Loop(Better, submissions[Min(Of(u, p))], Of(u, p))

GraphSolved(u) == {p \in Tried(u) : Best(u, p).status = "accepted"}

\* The entry of u for the problems that contest.problems holds: not the removed
\* ones.  last is lastAcceptedAt, 0 for null.
GraphEntry(u, problems) ==
    LET solved == problems \cap GraphSolved(u)
    IN  [user |-> u, solved |-> Cardinality(solved),
         score |-> SumFunction([p \in problems \cap Tried(u) |-> Best(u, p).score]),
         last |-> Max({Best(u, p).completed : p \in solved} \cup {0})]

\* The comparator; without lastAcceptedAt it takes Infinity, and the NaN of two
\* such entries leaves them as they are.
GraphBefore(a, b) ==
    \/ a.solved > b.solved
    \/ a.solved = b.solved /\ a.score > b.score
    \/ /\ a.solved = b.solved /\ a.score = b.score
       /\ a.last # 0 /\ (b.last = 0 \/ a.last < b.last)

(* ContestFinishedListener *)

\* ORDER BY score DESC, completedAt ASC; PostgreSQL puts NULL last.
WinsOver(a, b) ==
    \/ a.score > b.score
    \/ a.score = b.score /\ b.completed = 0
    \/ a.score = b.score /\ a.completed > 0 /\ a.completed <= b.completed

\* The candidates for submissions[0].
Winners == {s \in ToSet(submissions) : \A r \in ToSet(submissions) : WinsOver(s, r)}

-----------------------------------------------------------------------------
Next ==
    \/ \E u \in User, p \in Problem : Submit(u, p)
    \/ \E i \in DOMAIN submissions :
          \/ RunAgain(i) \/ JudgeFails(i)
          \/ \E passed \in 0 .. Tests, torn \in BOOLEAN : Judge(i, passed, torn)
    \/ Tick

Spec == Init /\ [][Next]_vars

-----------------------------------------------------------------------------
(* Properties *)

Accepted(u, p) ==
    {i \in DOMAIN submissions : LET s == submissions[i] IN
        s.user = u /\ s.problem = p /\ s.status = "accepted"}

\* The submissions that the rule of the contest looks at: those up to the first
\* accepted one.
Counting(u, p) ==
    {i \in DOMAIN submissions :
        /\ submissions[i].user = u /\ submissions[i].problem = p
        /\ \A a \in Accepted(u, p) : i <= a}

\* The one pass of the service over rows in any state of judging yields the ICPC
\* rule: solved with the first accepted submission in the order of submittedAt,
\* not of the verdicts, and one attempt for each failed one before it
\* (leaderboard.service.ts:89-112).
StandingIsIcpc ==
    \A u \in User, p \in Problem :
        LET st == ProblemStanding(u, p) IN
        /\ st.solved <=> Accepted(u, p) # {}
        /\ st.attempts = Cardinality({i \in Counting(u, p) : IsPenalisable(submissions[i].status)})
        /\ st.solved => \E i \in Accepted(u, p) \cap Counting(u, p) : st.minute = submissions[i].minute

\* An entry has as many entries before it as have a better result, and one: ties
\* share a rank and leave the next ones out (leaderboard.service.ts:151-162).
RanksAreShared ==
    LET entries == Entries
        ranks == Ranks(entries)
    IN  \A i \in DOMAIN entries :
            ranks[i] = 1 + Cardinality({j \in DOMAIN entries :
                \/ entries[j].solved > entries[i].solved
                \/ /\ entries[j].solved = entries[i].solved
                   /\ entries[j].penalty < entries[i].penalty})

\* A row that keeps the points of a torn verdict: the job runs again, or has failed.
Kept(s) == s.torn /\ s.status \notin {"accepted", "wrong"}

\* The live leaderboard looks for an accepted submission, GraphQL at the best score,
\* the webhooks at the highest row.  Only a torn verdict can make them disagree:
\* GraphQL counts nothing as solved that the leaderboard does not, and counts what
\* it does unless a row of that user and problem keeps the points of a torn verdict;
\* where no row of two users does, the boards order the two differently only when
\* they solved equally many; and once anybody has solved a problem, the winner that
\* is announced has solved its own, or it is such a row
\* (leaderboard.service.ts:94-147, standings.resolver.ts:93-146,
\* contest-finished.listener.ts:35-41, submission.processor.ts:178-185, 213-226).
BoardsAgree ==
    /\ \A u \in User :
          LET live == SolvedBy(u)
              graph == GraphSolved(u)
          IN  /\ graph \subseteq live
              /\ \A p \in live \ graph : \E i \in Of(u, p) : Kept(submissions[i])
    /\ \A a, b \in {[live |-> Entry(u), graph |-> GraphEntry(u, Problem)] : u \in Contestant} :
          /\ GraphBefore(a.graph, b.graph) /\ Before(b.live, a.live)
          /\ \A s \in ToSet(submissions) : s.user \in {a.live.user, b.live.user} => ~Kept(s)
          => a.live.solved = b.live.solved
    /\ \A s \in Winners :
          s.problem \in SolvedBy(s.user) \/ Kept(s) \/ \A u \in User : SolvedBy(u) = {}

\* An accepted verdict, of a retry, of a rerun behind a crash or of a submission that
\* overtook it included, never costs its author a place on the live leaderboard (whoever
\* was behind stays behind), and any other verdict or error never gains one (nobody is
\* overtaken who was not behind; leaderboard.service.ts:89-149).  It is
\* about what runs store in the end: the RUNNING of a further run takes a failed
\* attempt off the penalty for a while.  On the GraphQL board an accepted verdict may
\* cost a place: the best submission becomes an earlier one with a later completedAt.
VerdictsCountTheirWay ==
    [][\A i \in DOMAIN submissions :
          submissions'[i].status \notin {submissions[i].status, "undecided"} =>
              \A mine, other \in Board :
                  /\ mine.user = submissions[i].user /\ other.user # mine.user
                  /\ Before(mine, other) <=> submissions'[i].status = "accepted"
                  => \A mineNow, otherNow \in Board' :
                        mineNow.user = mine.user /\ otherNow.user = other.user
                        => (Before(mineNow, otherNow) <=> submissions'[i].status = "accepted")]_vars
=============================================================================
