----------------------- MODULE LeaderboardGatewayProofs -----------------------
(***************************************************************************)
(* Proofs about LeaderboardGateway, for any set of submissions and sockets *)
(* and any bounds: type correctness, and that a socket in the room misses  *)
(* no verdict.                                                             *)
(***************************************************************************)
EXTENDS LeaderboardGateway, TLAPS

-----------------------------------------------------------------------------
(* Type correctness *)

LEMMA InitTyped == Init => TypeOK
<1> SUFFICES ASSUME Init PROVE TypeOK
  OBVIOUS
<1>1. Idle \in Task /\ Idle \in Ask
  BY DEF Idle, Task, Ask, Board
<1> QED
  BY <1>1 DEF Init, TypeOK, Board

\* Counting one more fault keeps the counters natural.
LEMMA UseTyped ==
    ASSUME NEW f \in Fault, NEW limit, TypeOK, Use(f, limit)
    PROVE  used' \in [Fault -> Nat]
BY DEF Use, TypeOK

LEMMA HangupTyped ==
    /\ \A t \in Task : Hangup(t) \in Task
    /\ \A a \in Ask : Hangup(a) \in Ask
BY DEF Hangup, Task, Ask

\* What happens to the broadcast of one submission.
LEMMA TaskTyped ==
    ASSUME TypeOK, NEW s \in Submission,
           StoreVerdict(s) \/ StoreError(s) \/ Announce(s) \/ ComputeFails(s)
    PROVE  TypeOK'
<1> USE DEF TypeOK
<1>1. CASE StoreVerdict(s)
  BY <1>1 DEF StoreVerdict, Task, Board
<1>2. CASE StoreError(s)
  <2>1. used' \in [Fault -> Nat]
    BY <1>2, UseTyped DEF StoreError, Fault
  <2> QED
    BY <1>2, <2>1 DEF StoreError, Task, Board
<1>3. CASE FetchSockets(s)
  BY <1>3 DEF FetchSockets, Task
<1>4. CASE Compute(s)
  BY <1>4 DEF Compute, Counted, Task
<1>5. CASE Broadcast(s)
  <2>1. task[s].board \in Board
    BY DEF Task
  <2>2. shown' \in [Client -> Board] /\ seen' \in [Client -> Board]
    BY <1>5, <2>1 DEF Broadcast, Show, Board
  <2> QED
    BY <1>5, <2>2 DEF Broadcast, Task
<1>6. CASE ComputeFails(s)
  <2>1. used' \in [Fault -> Nat]
    BY <1>6, UseTyped DEF ComputeFails, Fault
  <2> QED
    BY <1>6, <2>1 DEF ComputeFails, Task, Board
<1> QED
  BY <1>1, <1>2, <1>3, <1>4, <1>5, <1>6 DEF Announce

\* A handler writes one of its own records.
LEMMA AskWritten ==
    ASSUME TypeOK, NEW c \in Client, NEW n \in 1 .. MaxJoins, NEW a \in Ask
    PROVE  [ask EXCEPT ![c][n] = a] \in [Client -> [1 .. MaxJoins -> Ask]]
BY DEF TypeOK

\* What happens to one joinContest.
LEMMA AskTyped ==
    ASSUME TypeOK, NEW c \in Client, NEW n \in 1 .. MaxJoins,
           JoinContest(c, n) \/ Respond(c, n) \/ AnswerFails(c, n)
    PROVE  TypeOK'
<1> USE DEF TypeOK
<1> DEFINE moved(p) == [ask[c][n] EXCEPT !.pc = p]
<1>1. /\ moved("compute") \in Ask /\ moved("done") \in Ask
      /\ ask[c][n].board \in Board
  <2>1. ask[c][n] \in Ask
    OBVIOUS
  <2> QED
    BY <2>1 DEF Ask
<1>2. CASE JoinContest(c, n)
  <2>1. ask' = [ask EXCEPT ![c][n] = moved("compute")]
    BY <1>2 DEF JoinContest
  <2>2. ask' \in [Client -> [1 .. MaxJoins -> Ask]]
    BY <1>1, <2>1, AskWritten
  <2> QED
    BY <1>2, <2>2 DEF JoinContest, Enters
<1>3. CASE ComputeAnswer(c, n)
  <2>1. [pc |-> "emit", board |-> Counted] \in Ask
    BY DEF Ask, Counted
  <2>2. ask' \in [Client -> [1 .. MaxJoins -> Ask]]
    BY <1>3, <2>1, AskWritten DEF ComputeAnswer
  <2> QED
    BY <1>3, <2>2 DEF ComputeAnswer, Enters
<1>4. CASE Answer(c, n)
  <2>1. ask' = [ask EXCEPT ![c][n] = moved("done")]
    BY <1>4 DEF Answer
  <2>2. ask' \in [Client -> [1 .. MaxJoins -> Ask]]
    BY <1>1, <2>1, AskWritten
  <2>3. shown' \in [Client -> Board] /\ seen' \in [Client -> Board]
    BY <1>1, <1>4 DEF Answer, Show, Board
  <2> QED
    BY <1>4, <2>2, <2>3 DEF Answer, Enters
<1>5. CASE AnswerFails(c, n)
  <2>1. ask' = [ask EXCEPT ![c][n] = moved("done")]
    BY <1>5 DEF AnswerFails
  <2>2. ask' \in [Client -> [1 .. MaxJoins -> Ask]]
    BY <1>1, <2>1, AskWritten
  <2>3. used' \in [Fault -> Nat]
    BY <1>5, UseTyped DEF AnswerFails, Fault
  <2> QED
    BY <1>5, <2>2, <2>3 DEF AnswerFails
<1> QED
  BY <1>2, <1>3, <1>4, <1>5 DEF Respond

\* Sockets leave and the process dies.
LEMMA LeavingTyped ==
    ASSUME TypeOK, Crash \/ \E c \in Client : LeaveContest(c) \/ Disconnect(c)
    PROVE  TypeOK'
<1> USE DEF TypeOK
<1>1. ASSUME NEW c \in Client, LeaveContest(c) PROVE TypeOK'
  BY <1>1 DEF LeaveContest, Board
<1>2. ASSUME NEW c \in Client, Disconnect(c) PROVE TypeOK'
  <2>1. [n \in 1 .. MaxJoins |-> Hangup(ask[c][n])] \in [1 .. MaxJoins -> Ask]
    BY HangupTyped
  <2>2. ask' = [ask EXCEPT ![c] = [n \in 1 .. MaxJoins |-> Hangup(ask[c][n])]]
    BY <1>2 DEF Disconnect
  <2>3. ask' \in [Client -> [1 .. MaxJoins -> Ask]]
    BY <2>1, <2>2
  <2> QED
    BY <1>2, <2>3 DEF Disconnect, Board
<1>3. CASE Crash
  <2>1. task' \in [Submission -> Task]
    BY <1>3, HangupTyped DEF Crash
  <2>2. ask' \in [Client -> [1 .. MaxJoins -> Ask]]
    BY <1>3, HangupTyped DEF Crash
  <2>3. used' \in [Fault -> Nat]
    BY <1>3, UseTyped DEF Crash, Fault
  <2> QED
    BY <1>3, <2>1, <2>2, <2>3 DEF Crash, Board
<1> QED
  BY <1>1, <1>2, <1>3

LEMMA NextTyped == TypeOK /\ [Next]_vars => TypeOK'
<1> SUFFICES ASSUME TypeOK, [Next]_vars PROVE TypeOK'
  OBVIOUS
<1>1. CASE UNCHANGED vars
  BY <1>1 DEF vars, TypeOK
<1> QED
  BY <1>1, TaskTyped, AskTyped, LeavingTyped DEF Next

\* Every reachable state of the gateway is well typed.
THEOREM TypeCorrect == Spec => []TypeOK
BY InitTyped, NextTyped, PTL DEF Spec

-----------------------------------------------------------------------------
(* No verdict is missed *)

\* One joinContest of c that will still show it the verdict of s.
Answering(c, n, s) ==
    \/ ask[c][n].pc = "compute"
    \/ ask[c][n].pc = "emit" /\ s \in ask[c][n].board

\* A broadcast that will still show the verdict of s to the room.
Telling(s) ==
    \/ task[s].pc \in {"stored", "compute"}
    \/ task[s].pc = "emit" /\ s \in task[s].board

\* A socket has been shown a verdict, or a broadcast or an answer that is on its
\* way will show it.
Served(c, s) ==
    s \in seen[c] \/ Telling(s) \/ \E n \in 1 .. MaxJoins : Answering(c, n, s)

\* The inductive strengthening of NothingMissed.
Covered == \A c \in room \ errored, s \in judged \ untold : Served(c, s)

LEMMA CoveredIsEnough == TypeOK /\ Covered => NothingMissed
<1> SUFFICES ASSUME TypeOK, Covered, Quiet,
                    NEW c \in room \ errored, NEW s \in judged \ untold
             PROVE  s \in seen[c]
  BY DEF NothingMissed
<1>1. c \in Client /\ s \in Submission
  BY DEF TypeOK, Board
<1>2. ~Telling(s) /\ \A n \in 1 .. MaxJoins : ~Answering(c, n, s)
  BY <1>1 DEF Quiet, Telling, Answering
<1> QED
  BY <1>2 DEF Covered, Served

\* What is on its way for a verdict and a socket stays so as long as nothing
\* that serves them moves.
LEMMA ServedKept ==
    ASSUME NEW c, NEW s, Served(c, s),
           seen[c] \subseteq seen'[c],
           Telling(s) => Telling(s)' \/ s \in seen'[c],
           \A n \in 1 .. MaxJoins :
               Answering(c, n, s) => Answering(c, n, s)' \/ s \in seen'[c]
    PROVE  Served(c, s)'
BY DEF Served

LEMMA TaskCovers ==
    ASSUME TypeOK, Covered, NEW r \in Submission,
           StoreVerdict(r) \/ StoreError(r) \/ Announce(r) \/ ComputeFails(r)
    PROVE  Covered'
<1> SUFFICES ASSUME NEW c \in room' \ errored', NEW s \in judged' \ untold'
             PROVE  Served(c, s)'
  BY DEF Covered
<1>0. /\ room' = room /\ errored' = errored /\ ask' = ask
      /\ c \in Client /\ s \in Submission
  <2>1. room' = room /\ errored' = errored /\ ask' = ask
    BY DEF StoreVerdict, StoreError, Announce, FetchSockets, Compute, Broadcast, ComputeFails
  <2>2. judged' \subseteq Submission
    BY TaskTyped DEF TypeOK, Board
  <2> QED
    BY <2>1, <2>2 DEF TypeOK
<1> USE DEF TypeOK
<1>1. CASE StoreVerdict(r)
  <2>1. CASE s = r
    BY <1>1, <2>1 DEF StoreVerdict, Served, Telling
  <2>2. CASE s # r
    BY <1>0, <1>1, <2>2, ServedKept DEF StoreVerdict, Covered, Telling, Answering
  <2> QED
    BY <2>1, <2>2
<1>2. CASE StoreError(r)
  BY <1>0, <1>2, ServedKept DEF StoreError, Covered, Telling, Answering
<1>3. CASE FetchSockets(r)
  <2>1. room # {}
    BY <1>0
  <2> QED
    BY <1>0, <1>3, <2>1, ServedKept DEF FetchSockets, Skipped, Covered, Telling, Answering
<1>4. CASE Compute(r)
  BY <1>0, <1>4, ServedKept DEF Compute, Counted, Covered, Telling, Answering
<1>5. CASE Broadcast(r)
  <2>1. seen'[c] = seen[c] \cup task[r].board
    BY <1>0, <1>5 DEF Broadcast, Show
  <2> QED
    BY <1>0, <1>5, <2>1, ServedKept DEF Broadcast, Covered, Telling, Answering
<1>6. CASE ComputeFails(r)
  BY <1>0, <1>6, ServedKept DEF ComputeFails, Covered, Telling, Answering
<1> QED
  BY <1>1, <1>2, <1>3, <1>4, <1>5, <1>6 DEF Announce

LEMMA AskCovers ==
    ASSUME TypeOK, Covered, NEW d \in Client, NEW k \in 1 .. MaxJoins,
           JoinContest(d, k) \/ Respond(d, k) \/ AnswerFails(d, k)
    PROVE  Covered'
<1> SUFFICES ASSUME NEW c \in room' \ errored', NEW s \in judged' \ untold'
             PROVE  Served(c, s)'
  BY DEF Covered
<1> USE DEF TypeOK
<1>0. /\ judged' = judged /\ untold' = untold /\ task' = task
      /\ room' \subseteq Client /\ errored \subseteq errored'
  BY DEF JoinContest, Respond, ComputeAnswer, Answer, AnswerFails, Enters
<1>1. CASE JoinContest(d, k)
  <2>1. CASE c = d
    <3>1. ask[d][k] \in Ask /\ ask' = [ask EXCEPT ![d][k] = [ask[d][k] EXCEPT !.pc = "compute"]]
      BY <1>1 DEF JoinContest
    <3>2. ask'[d][k].pc = "compute"
      BY <3>1 DEF Ask
    <3> QED
      BY <2>1, <3>2 DEF Served, Answering
  <2>2. CASE c # d
    <3>1. c \in room
      BY <1>1, <2>2 DEF JoinContest, Enters
    <3> QED
      BY <1>0, <1>1, <2>2, <3>1, ServedKept DEF JoinContest, Covered, Telling, Answering
  <2> QED
    BY <2>1, <2>2
<1>2. CASE ComputeAnswer(d, k)
  <2>1. room' = room /\ ask'[d][k] = [pc |-> "emit", board |-> judged]
    BY <1>2 DEF ComputeAnswer, Enters, Counted
  <2>2. \A e \in Client, n \in 1 .. MaxJoins :
           <<e, n>> # <<d, k>> => ask'[e][n] = ask[e][n]
    BY <1>2 DEF ComputeAnswer
  <2>3. \A n \in 1 .. MaxJoins : Answering(c, n, s) => Answering(c, n, s)'
    BY <1>0, <2>1, <2>2 DEF Answering
  <2> QED
    BY <1>0, <1>2, <2>1, <2>3, ServedKept DEF ComputeAnswer, Covered, Telling
<1>3. CASE Answer(d, k)
  <2>1. \A e \in Client, n \in 1 .. MaxJoins :
           <<e, n>> # <<d, k>> => ask'[e][n] = ask[e][n]
    BY <1>3 DEF Answer
  <2>2. /\ room' = room
        /\ seen'[c] = IF c = d THEN seen[c] \cup ask[d][k].board ELSE seen[c]
    BY <1>0, <1>3 DEF Answer, Show, Enters
  <2>3. \A n \in 1 .. MaxJoins : Answering(c, n, s) => Answering(c, n, s)' \/ s \in seen'[c]
    BY <1>0, <1>3, <2>1, <2>2 DEF Answer, Answering
  <2> QED
    BY <1>0, <1>3, <2>2, <2>3, ServedKept DEF Answer, Covered, Telling
<1>4. CASE AnswerFails(d, k)
  <2>1. c # d
    BY <1>4 DEF AnswerFails
  <2> QED
    BY <1>0, <1>4, <2>1, ServedKept DEF AnswerFails, Covered, Telling, Answering
<1> QED
  BY <1>1, <1>2, <1>3, <1>4 DEF Respond

LEMMA LeavingCovers ==
    ASSUME TypeOK, Covered, Crash \/ \E d \in Client : LeaveContest(d) \/ Disconnect(d)
    PROVE  Covered'
<1> USE DEF TypeOK
<1>1. CASE Crash
  BY <1>1 DEF Crash, Covered
<1>2. ASSUME NEW d \in Client, LeaveContest(d) \/ Disconnect(d),
             NEW c \in room' \ errored', NEW s \in judged' \ untold'
      PROVE  Served(c, s)'
  <2>1. /\ c # d /\ c \in room \ errored /\ c \in Client
        /\ s \in judged \ untold /\ task' = task
    BY <1>2 DEF LeaveContest, Disconnect
  <2>2. seen'[c] = seen[c] /\ ask'[c] = ask[c]
    BY <1>2, <2>1 DEF LeaveContest, Disconnect
  <2> QED
    BY <2>1, <2>2, ServedKept DEF Covered, Telling, Answering
<1> QED
  BY <1>1, <1>2 DEF Covered

LEMMA NextCovers == TypeOK /\ Covered /\ [Next]_vars => Covered'
<1> SUFFICES ASSUME TypeOK, Covered, [Next]_vars PROVE Covered'
  OBVIOUS
<1>1. CASE UNCHANGED vars
  BY <1>1 DEF vars, Covered, Served, Telling, Answering
<1> QED
  BY <1>1, TaskCovers, AskCovers, LeavingCovers DEF Next

\* When nothing is on its way, every socket in the room has been shown every
\* verdict, however joins, leaves, disconnections, crashes and skipped broadcasts
\* interleave with the verdicts (leaderboard.gateway.ts:140-145, 181-189).
THEOREM NothingIsMissed == Spec => []NothingMissed
<1>1. Init => Covered
  BY DEF Init, Covered
<1> QED
  BY <1>1, InitTyped, NextTyped, NextCovers, CoveredIsEnough, PTL DEF Spec
=============================================================================
