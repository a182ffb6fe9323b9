------------------------- MODULE LeaderboardGateway -------------------------
(***************************************************************************)
(* The live leaderboard of one contest: LeaderboardGateway adds sockets to *)
(* the room of the contest, answers each joinContest with the standings,   *)
(* and broadcasts them after every verdict the processor stores.           *)
(*                                                                         *)
(* The standings are abstracted to the set of submissions they count.      *)
(* Rooms are kept in the memory of the one server process, so joining,     *)
(* leaving and fetchSockets take effect at once; computing the standings   *)
(* is a query, and a step is what happens between two of them.             *)
(***************************************************************************)
EXTENDS Naturals

CONSTANTS
    Submission,  \* submissions to the contest
    Client,      \* sockets of the /leaderboard namespace
    MaxJoins,    \* bound: joinContest messages of each socket
    MaxErrors,   \* bound: submissions whose judging throws
    MaxRejects,  \* bound: queries for the standings that fail
    MaxCrashes   \* bound: process crashes

ASSUME LeaderboardAssumption ==
    {MaxJoins, MaxErrors, MaxRejects, MaxCrashes} \subseteq Nat

VARIABLES
    judged,   \* submissions with a verdict, in the database
    task,     \* the broadcast of each submission
    room,     \* sockets in the room contest:<id>
    ask,      \* ask[c][n]: the handler of the n-th joinContest of c
    shown,    \* the standings each socket got last
    seen,     \* what it was shown since it entered the room (auxiliary)
    untold,   \* verdicts whose broadcast failed or never began (auxiliary)
    errored,  \* sockets in the room that got a leaderboard:error (auxiliary)
    used      \* faults so far

vars == <<judged, task, room, ask, shown, seen, untold, errored, used>>

Board == SUBSET Submission
Task == [pc: {"none", "stored", "compute", "emit", "done"}, board: Board]
Ask == [pc: {"none", "compute", "emit", "done"}, board: Board]
Idle == [pc |-> "none", board |-> {}]
Fault == {"error", "reject", "crash"}

TypeOK ==
    /\ judged \in Board
    /\ task \in [Submission -> Task]
    /\ room \subseteq Client
    /\ ask \in [Client -> [1 .. MaxJoins -> Ask]]
    /\ shown \in [Client -> Board]
    /\ seen \in [Client -> Board]
    /\ untold \in Board
    /\ errored \subseteq Client
    /\ used \in [Fault -> Nat]

Init ==
    /\ judged = {}
    /\ task = [s \in Submission |-> Idle]
    /\ room = {}
    /\ ask = [c \in Client |-> [n \in 1 .. MaxJoins |-> Idle]]
    /\ shown = [c \in Client |-> {}]
    /\ seen = [c \in Client |-> {}]
    /\ untold = {}
    /\ errored = {}
    /\ used = [f \in Fault |-> 0]

Use(f, limit) == used[f] < limit /\ used' = [used EXCEPT ![f] = @ + 1]

\* socket.emit, of one board to a set of sockets.
Show(to, board) ==
    /\ shown' = [c \in Client |-> IF c \in to THEN board ELSE shown[c]]
    /\ seen' = [c \in Client |-> IF c \in to THEN seen[c] \cup board ELSE seen[c]]

-----------------------------------------------------------------------------
(* SubmissionProcessor *)

\* The verdict is stored; what follows the save has not run yet.
StoreVerdict(s) ==
    /\ task[s].pc = "none"
    /\ judged' = judged \cup {s}
    /\ task' = [task EXCEPT ![s].pc = "stored"]
    /\ UNCHANGED <<room, ask, shown, seen, untold, errored, used>>

\* The catch block stores RUNTIME_ERROR, which the standings count as well,
\* and broadcasts nothing.
StoreError(s) ==
    /\ task[s].pc = "none"
    /\ Use("error", MaxErrors)
    /\ judged' = judged \cup {s}
    /\ untold' = untold \cup {s}
    /\ task' = [task EXCEPT ![s].pc = "done"]
    /\ UNCHANGED <<room, ask, shown, seen, errored>>

-----------------------------------------------------------------------------
(* LeaderboardGateway.broadcastLeaderboard *)

\* A variant the checks must reject: the query loses its contest, and so counts
\* the submissions to all of them.
CountedAll == judged \cup {"elsewhere"}

\* What LeaderboardService.computeStandings counts.
Counted == judged

\* A variant the checks must reject: the broadcast needs two sockets.
SkippedIfAlone == \A c, d \in room : c = d

\* Nobody is in the room: no broadcast.
Skipped == room = {}

FetchSockets(s) ==
    /\ task[s].pc = "stored"
    /\ task' = [task EXCEPT ![s].pc = IF Skipped THEN "done" ELSE "compute"]
    /\ UNCHANGED <<judged, room, ask, shown, seen, untold, errored, used>>

Compute(s) ==
    /\ task[s].pc = "compute"
    /\ task' = [task EXCEPT ![s] = [pc |-> "emit", board |-> Counted]]
    /\ UNCHANGED <<judged, room, ask, shown, seen, untold, errored, used>>

\* Whoever is in the room by now gets the standings.
Broadcast(s) ==
    /\ task[s].pc = "emit"
    /\ Show(room, task[s].board)
    /\ task' = [task EXCEPT ![s].pc = "done"]
    /\ UNCHANGED <<judged, room, ask, untold, errored, used>>

\* The query fails, which is logged.
ComputeFails(s) ==
    /\ task[s].pc = "compute"
    /\ Use("reject", MaxRejects)
    /\ untold' = untold \cup {s}
    /\ task' = [task EXCEPT ![s].pc = "done"]
    /\ UNCHANGED <<judged, room, ask, shown, seen, errored>>

-----------------------------------------------------------------------------
(* LeaderboardGateway.handleJoinContest, handleLeaveContest *)

\* A variant the checks must reject: the standings are computed first, and the
\* room is joined when they are emitted.
EntersLate(c, n) == IF ask[c][n].pc = "emit" THEN room \cup {c} ELSE room

\* client.join comes first.
Enters(c, n) == IF ask[c][n].pc = "none" THEN room \cup {c} ELSE room

JoinContest(c, n) ==
    /\ ask[c][n].pc = "none"
    /\ room' = Enters(c, n)
    /\ ask' = [ask EXCEPT ![c][n].pc = "compute"]
    /\ UNCHANGED <<judged, task, shown, seen, untold, errored, used>>

ComputeAnswer(c, n) ==
    /\ ask[c][n].pc = "compute"
    /\ room' = Enters(c, n)
    /\ ask' = [ask EXCEPT ![c][n] = [pc |-> "emit", board |-> Counted]]
    /\ UNCHANGED <<judged, task, shown, seen, untold, errored, used>>

Answer(c, n) ==
    /\ ask[c][n].pc = "emit"
    /\ room' = Enters(c, n)
    /\ Show({c}, ask[c][n].board)
    /\ ask' = [ask EXCEPT ![c][n].pc = "done"]
    /\ UNCHANGED <<judged, task, untold, errored, used>>

\* The query fails: the socket gets an error and stays in the room.
AnswerFails(c, n) ==
    /\ ask[c][n].pc = "compute"
    /\ Use("reject", MaxRejects)
    /\ errored' = errored \cup {c}
    /\ ask' = [ask EXCEPT ![c][n].pc = "done"]
    /\ UNCHANGED <<judged, task, room, shown, seen, untold>>

LeaveContest(c) ==
    /\ c \in room
    /\ room' = room \ {c}
    /\ errored' = errored \ {c}
    /\ seen' = [seen EXCEPT ![c] = {}]
    /\ UNCHANGED <<judged, task, ask, shown, untold, used>>

\* A handler whose socket is gone answers nobody.
Hangup(a) == [a EXCEPT !.pc = IF @ = "none" THEN "none" ELSE "done"]

\* Socket.IO takes a socket that disconnects out of its rooms; c is the next
\* socket of the same browser from then on.
Disconnect(c) ==
    /\ room' = room \ {c}
    /\ errored' = errored \ {c}
    /\ ask' = [ask EXCEPT ![c] = [n \in 1 .. MaxJoins |-> Hangup(@[n])]]
    /\ shown' = [shown EXCEPT ![c] = {}]
    /\ seen' = [seen EXCEPT ![c] = {}]
    /\ UNCHANGED <<judged, task, untold, used>>

\* Every socket and every pending broadcast is gone.
Crash ==
    /\ Use("crash", MaxCrashes)
    /\ room' = {}
    /\ errored' = {}
    /\ task' = [s \in Submission |-> Hangup(task[s])]
    /\ ask' = [c \in Client |-> [n \in 1 .. MaxJoins |-> Hangup(ask[c][n])]]
    /\ shown' = [c \in Client |-> {}]
    /\ seen' = [c \in Client |-> {}]
    /\ UNCHANGED <<judged, untold>>

-----------------------------------------------------------------------------
Announce(s) == FetchSockets(s) \/ Compute(s) \/ Broadcast(s)
Respond(c, n) == ComputeAnswer(c, n) \/ Answer(c, n)

Next ==
    \/ \E s \in Submission :
          StoreVerdict(s) \/ StoreError(s) \/ Announce(s) \/ ComputeFails(s)
    \/ \E c \in Client, n \in 1 .. MaxJoins :
          JoinContest(c, n) \/ Respond(c, n) \/ AnswerFails(c, n)
    \/ \E c \in Client : LeaveContest(c) \/ Disconnect(c)
    \/ Crash

Spec == Init /\ [][Next]_vars

\* A call that began goes on while its process lives.
Fairness ==
    /\ \A s \in Submission : WF_vars(Announce(s))
    /\ \A c \in Client, n \in 1 .. MaxJoins : WF_vars(Respond(c, n))

FairSpec == Spec /\ Fairness

-----------------------------------------------------------------------------
(* Properties *)

Quiet ==
    /\ \A s \in Submission : task[s].pc \in {"none", "done"}
    /\ \A c \in Client, n \in 1 .. MaxJoins : ask[c][n].pc \in {"none", "done"}

\* When no query and no broadcast is on its way, a socket in the room has been
\* shown every verdict, in standings of its own or in a broadcast, whatever
\* joins, leaves and crashes raced with the verdicts and although a broadcast
\* is skipped when the room is empty (leaderboard.gateway.ts:140-145, 181-189).
NothingMissed ==
    Quiet => \A c \in room \ errored : judged \ untold \subseteq seen[c]

\* A verdict stored while a socket is in the room is shown to it, or the socket
\* leaves (leaderboard.gateway.ts:177-196).
VerdictsAreShown ==
    \A c \in Client, s \in Submission :
        c \in room /\ s \in judged ~> s \in seen[c] \cup untold \/ c \notin room \ errored
=============================================================================
